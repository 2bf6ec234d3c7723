------------------------------- MODULE Calls --------------------------------
(***************************************************************************)
(* The functions of hlibc that keep no state, called one at a time: the    *)
(* codecs of string.c, the addresses of inet.c, the URIs of uri.c, the     *)
(* bits and integers of bit.h and math.c, the padding of des_ecb_* and the *)
(* words of the hashes, the key schedule of DES, and the calls on a tree   *)
(* that its user has linked.                                               *)
(* The properties compare what they return with a definition of what it    *)
(* stands for that is not the algorithm of the code.                       *)
(***************************************************************************)
EXTENDS Uri, Ecb, Tails, DesRound, RbTree

CONSTANTS
  Buffers,         \* contents to encode
  HexStrings, B64Strings,
  Rooms,           \* sizes of the buffers decoded into
  Ipv4Strings, Ipv4Addresses,
  Ipv6Forms,       \* addresses as groups before and behind a "::", see Ipv6Text
  Ipv6Strings,     \* any strings, those of the forms that matter to the parser too
  Ipv6Addresses,
  Stack,           \* what a byte that was never set may hold
  UriStrings, SegmentStrings,
  Memories,        \* byte arrays for the bit operations
  BitWords,        \* words to rotate
  Factors, Logs,   \* arguments of gcd and lcm, and of the logarithms
  Overflows,       \* what lcm may return when its product overflows
  Messages,
  Keys,
  Trees              \* linked by their user, with a node that is not yet in

\* Memory and messages are bytes, what is parsed characters other than the zero.
ASSUME BytesAssumption ==
  /\ Buffers \subseteq Seq(0..255) /\ Messages \subseteq Seq(0..255)
  /\ Memories \subseteq Seq(0..255) /\ Rooms \subseteq Nat
  /\ HexStrings \subseteq Seq(1..255) /\ B64Strings \subseteq Seq(1..255)
  /\ Ipv4Addresses \subseteq [1..4 -> 0..255] /\ Ipv4Strings \subseteq Seq(1..255)
  /\ Ipv6Addresses \subseteq [1..16 -> 0..255] /\ Ipv6Strings \subseteq Seq(1..255)
  /\ UriStrings \subseteq Seq(1..255)

\* The blocks a message is encrypted in.
BlocksOf(m) == {Block(m, b) : b \in 0..Whole(m) - 1}
               \cup {GetPadded(SubSeq(m, 8 * Whole(m) + 1, Len(m)))}

\* The groups of an IPv6 address are one to four digits, with a colon between two
\* of them; none are behind a "::" that is not there.
ASSUME Ipv6FormsAssumption ==
  \A a \in Ipv6Forms :
    /\ a.before \in Seq(Seq(XDigit)) /\ a.after \in Seq(Seq(XDigit)) /\ a.comp \in BOOLEAN
    /\ \A g \in Range(a.before) \cup Range(a.after) : Len(g) \in 1..4
    /\ a.comp \/ a.after = <<>>

\* Words have the widths of the functions of bit.h.  gcd takes an int other than
\* INT_MIN, the abs of which is undefined, and log2 an unsigned int other than 0.
ASSUME IntegersAssumption ==
  /\ \A x \in BitWords : x \in Seq(0..1) /\ Len(x) \in {8, 16, 32, 64}
  /\ Factors \subseteq -IntMax..IntMax /\ Overflows \subseteq Int
  /\ Logs \subseteq Nat \ {0} /\ \A x \in Logs : x \div 2 < 2^(UintBits - 1)

\* Keys are words of 64 bits.
ASSUME KeysAssumption == Keys \subseteq [1..64 -> 0..1]

\* What CryptoProofs shows of Des.
ASSUME CipherAssumption ==
  \A m \in Messages : \A b \in BlocksOf(m) :
    DesEncrypt(b) \in [1..8 -> 0..255] /\ DesDecrypt(DesEncrypt(b)) = b

VARIABLES fn, arg, res     \* the function called, its arguments, its result
vars == <<fn, arg, res>>

Init == fn = "idle" /\ arg = <<>> /\ res = <<>>

Call(which, args, result) ==
  fn = "idle" /\ fn' = which /\ arg' = args /\ res' = result

\* A call that hangs does not return; what follows one that has smashed the stack
\* is left out.
Return ==
  /\ fn # "idle"
  /\ fn \in {"ipv6_to_str", "ipv6_norm", "uri_parse_segments", "uri_normalize_host"} =>
       res.ret \notin {Hangs, Smashed}
  /\ fn' = "idle" /\ arg' = <<>> /\ res' = <<>>

CallHexEncode == \E b \in Buffers : Call("hex_encode", b, HexEncode(b))
CallHexDecode == \E s \in HexStrings, n \in Rooms :
                   Call("hex_decode", [src |-> s, size |-> n], HexDecode(s, n))
CallB64Encode == \E b \in Buffers : Call("b64_encode", b, B64Encode(b))
CallB64Decode == \E s \in B64Strings, n \in Rooms :
                   Call("b64_decode", [src |-> s, size |-> n], B64Decode(s, n))
CallIpv4ToStr == \E b \in Ipv4Addresses : Call("ipv4_to_str", b, Ipv4ToStr(b))
CallIpv4ToBin == \E s \in Ipv4Strings : Call("ipv4_to_bin", s, Ipv4ToBin(s))
CallIpv6ToStr == \E b \in Ipv6Addresses : Call("ipv6_to_str", b, Ipv6ToStr(b))

\* The text of groups, some of them behind a "::" if comp.
GroupsText(groups) ==
  FlattenSeq([k \in 1..Len(groups) |->
                (IF k > 1 THEN <<Colon>> ELSE <<>>) \o groups[k]])
Ipv6Text(a) == GroupsText(a.before)
               \o (IF a.comp THEN <<Colon, Colon>> \o GroupsText(a.after) ELSE <<>>)

CallIpv6ToBin == \E a \in Ipv6Forms :
                   Call("ipv6_to_bin", a, Ipv6ToBin(Ipv6Text(a)))
CallIpv6ToBinOfAny == \E s \in Ipv6Strings : Call("ipv6_to_bin_of_any", s, Ipv6ToBin(s))
CallIpv6Norm  == \E s \in Ipv6Strings \cup {Ipv6Text(a) : a \in Ipv6Forms}, j \in Stack :
                   Call("ipv6_norm", s, Ipv6Norm(s, j))
CallUriParse  == \E s \in UriStrings : Call("uri_parse_segments", s, UriParseSegments(s))
CallUriNormalize ==
  \E s \in SegmentStrings, part \in {"userinfo", "path", "query", "fragment"} :
    Call("uri_normalize", [part |-> part, src |-> s], UriNormalize(part, s))
CallUriNormalizeScheme ==
  \E s \in SegmentStrings :
    Call("uri_normalize", [part |-> "scheme", src |-> s], UriNormalizeScheme(s))
CallUriNormalizeHost ==
  \E s \in SegmentStrings, j \in Stack :
    Call("uri_normalize_host", s, UriNormalizeHost(s, j))
CallBitTestAnd ==
  \E m \in Memories : \E i \in 0..8 * Len(m) - 1, op \in {"set", "clear", "flip"} :
    Call("bit_test_and", [op |-> op, base |-> m, i |-> i], BitTestAnd(op, m, i))
CallRotate ==
  \E x \in BitWords : \E n \in IF Len(x) < 32 THEN 0..Len(x) ELSE 1..Len(x) - 1 :
    Call("rotl_rotr", [x |-> x, n |-> n], <<Rotl(x, n), Rotr(x, n)>>)
CallGcdLcm == \E a, b \in Factors, any \in Overflows :
                Call("gcd_lcm", <<a, b>>, <<Gcd(a, b), Lcm(a, b, any)>>)
CallLog2   == \E x \in Logs : Call("log2", x, <<FloorLog2(x), CeilLog2(x)>>)
CallEcb    == \E m \in Messages : Call("des_ecb", m, EcbDecrypt(EcbEncrypt(m), Len(m)))
CallHash   == \E m \in Messages : Call("hash", m, <<SiphashWords(m), MurmurWords(m)>>)
CallKeySchedule == \E k \in Keys : Call("key_schedule", k, KeySchedule(k))

\* The node from, the next one of it, and so on for n steps.
Walk(from, next, n) ==
  LET walk[k \in 1..n + 1] == IF k = 1 THEN from ELSE next[walk[k - 1]] IN walk

\* The nodes from the first on, and back from the last.
CallRbWalk == \E t \in Trees :
                LET nodes == DOMAIN t.left
                    n == Cardinality(nodes)
                IN Call("rb_walk", t, <<Walk(RbFirst(t), [x \in nodes \cup {0} |-> RbNext(t, x)], n),
                                        Walk(RbLast(t), [x \in nodes \cup {0} |-> RbPrev(t, x)], n)>>)
CallRbRotate == \E t \in Trees : \E n \in DOMAIN t.left : \E pivot \in {t.left[n], t.right[n]} \ {0} :
                  Call("rb_rotate", [tree |-> t, root |-> n, pivot |-> pivot], RbRotate(t, n, pivot))
CallRbInsert == \E t \in Trees : \E n \in {m \in DOMAIN t.left : t.color[m] = "none"} :
                  Call("rb_insert", [tree |-> t, node |-> n], RbInsert(t, n))

Next ==
  \/ CallHexEncode \/ CallHexDecode \/ CallB64Encode \/ CallB64Decode
  \/ CallIpv4ToStr \/ CallIpv4ToBin \/ CallIpv6ToStr \/ CallIpv6ToBin
  \/ CallIpv6ToBinOfAny \/ CallIpv6Norm
  \/ CallUriParse \/ CallUriNormalize \/ CallUriNormalizeScheme \/ CallUriNormalizeHost
  \/ CallBitTestAnd \/ CallRotate \/ CallGcdLcm \/ CallLog2
  \/ CallEcb \/ CallHash \/ CallKeySchedule
  \/ CallRbWalk \/ CallRbRotate \/ CallRbInsert \/ Return

Spec == Init /\ [][Next]_vars

-----------------------------------------------------------------------------
\* The bits of numbers of w bits each, the highest first.
BitsOf(vals, w) ==
  [j \in 1..w * Len(vals) |->
     (vals[(j - 1) \div w + 1] \div 2^(w - 1 - ((j - 1) % w))) % 2]

Prefix(s, n) == SubSeq(s, 1, n)

\* A string of hexadecimal digits in pairs is the bytes whose nibbles its digits
\* are; it is decoded when they fit, and what does not fit or is no such string
\* is refused with the error string.h promises.  No more than the room is written.
HexCodec ==
  /\ fn = "hex_encode" =>
       /\ Range(res) \subseteq Range(HexCset)
       /\ BitsOf([k \in DOMAIN res |-> HexVal(res[k])], 4) = BitsOf(arg, 8)
  /\ fn = "hex_decode" =>
       LET valid == Len(arg.src) % 2 = 0 /\ Range(arg.src) \subseteq XDigit
       IN /\ Len(res.out) <= arg.size
          /\ res.ret = 0 <=> valid /\ Len(arg.src) <= 2 * arg.size
          /\ valid /\ res.ret # 0 => res.ret = ENOMEM
          /\ res.ret = 0 => BitsOf(res.out, 8) =
                              BitsOf([k \in DOMAIN arg.src |-> HexVal(arg.src[k])], 4)

\* Without as many characters as there are '='.
Unpadded(s) == Prefix(s, Len(s) - Cardinality({k \in DOMAIN s : s[k] = 61}))

\* Base64, with its padding or without, stands for the bits of its characters
\* cut to whole bytes; the encoder pads, the decoder refuses what is neither
\* padded fully nor unpadded, and writes no more than the room.
Base64Codec ==
  /\ fn = "b64_encode" =>
       LET text == Unpadded(res)
           bits == BitsOf([k \in DOMAIN text |-> B64Val(text[k])], 6)
       IN /\ Len(res) % 4 = 0 /\ res = text \o Pad(Len(res) - Len(text))
          /\ Len(res) - Len(text) < 3
          /\ bits = BitsOf(arg, 8) \o Zeros(Len(bits) - 8 * Len(arg))
          /\ Len(bits) - 8 * Len(arg) < 6
  /\ fn = "b64_decode" =>
       LET text == Unpadded(arg.src)
           pads == Len(arg.src) - Len(text)
           valid == /\ arg.src = text \o Pad(pads)
                    /\ Range(text) \subseteq Range(B64Cset)
                    /\ Len(text) % 4 # 1
                    /\ pads = 0 \/ (pads < 3 /\ Len(arg.src) % 4 = 0)
           bytes == (6 * Len(text)) \div 8
       IN /\ Len(res.out) <= arg.size
          /\ res.ret = 0 <=> valid /\ bytes <= arg.size
          /\ valid /\ res.ret # 0 => res.ret = ENOMEM
          /\ res.ret = 0 =>
               BitsOf(res.out, 8) =
                 Prefix(BitsOf([k \in DOMAIN text |-> B64Val(text[k])], 6), 8 * bytes)

\* Both encodings are those of RFC 4648, and neither writes behind its room.
CodecsExact == HexCodec /\ Base64Codec

-----------------------------------------------------------------------------
\* The shortest decimals of the bytes.
ShortDecimals ==
  [1..1 -> Digit] \cup {s \in [1..2 -> Digit] : s[1] # 48}
  \cup {s \in [1..3 -> Digit] : /\ s[1] # 48
                                /\ 100 * (s[1] - 48) + 10 * (s[2] - 48) + s[3] - 48 < 256}

\* Four of them with a dot in between.
IsIpv4(s) ==
  \E p, q, r \in DOMAIN s :
    /\ p < q /\ q < r /\ s[p] = Dot /\ s[q] = Dot /\ s[r] = Dot
    /\ {SubSeq(s, 1, p - 1), SubSeq(s, p + 1, q - 1),
        SubSeq(s, q + 1, r - 1), SubSeq(s, r + 1, Len(s))} \subseteq ShortDecimals

\* An IPv4 address has one spelling: the shortest decimals of its bytes.  It is
\* what the printer prints and all that the parser takes, to the same bytes.
Ipv4Canonical ==
  /\ fn = "ipv4_to_str" => IsIpv4(res) /\ Ipv4ToBin(res) = Returned(0, arg)
  /\ fn = "ipv4_to_bin" => /\ res.ret = 0 <=> IsIpv4(arg)
                           /\ res.ret = 0 => Ipv4ToStr(res.out) = arg

\* What up to four hexadecimal digits stand for.
HexNumber(s) ==
  LET weight(k) == CASE k = 0 -> 1 [] k = 1 -> 16 [] k = 2 -> 256 [] k = 3 -> 4096
      part(k) == IF k > Len(s) THEN 0 ELSE HexVal(s[k]) * weight(Len(s) - k)
  IN part(1) + part(2) + part(3) + part(4)

\* The sixteen bytes RFC 4291 gives to the groups of a well-formed address.
WellFormed(a) ==
  IF a.comp THEN Len(a.before) + Len(a.after) <= 7 ELSE Len(a.before) = 8
GroupsBytes(groups) ==
  [k \in 1..2 * Len(groups) |-> LET v == HexNumber(groups[(k + 1) \div 2])
                                IN IF k % 2 = 1 THEN v \div 256 ELSE v % 256]
Rfc4291(a) ==
  IF a.comp THEN GroupsBytes(a.before)
                 \o Zeros(16 - 2 * (Len(a.before) + Len(a.after))) \o GroupsBytes(a.after)
            ELSE GroupsBytes(a.before)

\* A text of groups of one to four digits with colons between them is taken
\* exactly when it is well-formed.  But its bytes are right, and nothing is written
\* behind them, only when in each group the middle eight bits happen to be the
\* upper eight, and the gap that a "::" stands for is as long as what follows it;
\* with a longer gap bytes are written behind the sixteen.
Ipv6RightWhenEven ==
  fn = "ipv6_to_bin" =>
    /\ res.ret = 0 <=> WellFormed(arg)
    /\ res.ret = 0 =>
         (res.past > 0 <=> arg.comp /\ 8 - Len(arg.before) - Len(arg.after) > Len(arg.after))
    /\ res.ret = 0 =>
         (res.out = Rfc4291(arg) /\ res.past = 0
            <=> /\ \A g \in Range(arg.before) \cup Range(arg.after) :
                     (HexNumber(g) \div 16) % 256 = HexNumber(g) \div 256
                /\ arg.comp => 8 - Len(arg.before) - Len(arg.after) = Len(arg.after))

\* Where groups begin in a text: at each run of digits, and at every fourth digit
\* of it, as if the colon behind four digits had been left out.
GroupStarts(t) ==
  {k \in DOMAIN t : \E j \in 1..k : /\ j = 1 \/ t[j - 1] = Colon
                                   /\ (k - j) % 4 = 0
                                   /\ \A i \in j..k : t[i] \in XDigit}
GroupsOf(t) ==
  LET starts == GroupStarts(t)
      start(n) == CHOOSE k \in starts : Cardinality({h \in starts : h < k}) = n - 1
      len(k) == FirstAt(1, 4, LAMBDA n : n = 4 \/ At(t, k - 1 + n) \notin XDigit)
  IN [n \in 1..Cardinality(starts) |-> SubSeq(t, start(n), start(n) + len(start(n)) - 1)]

\* Runs of digits with a colon between each two, or nothing.
RunsOfDigits(t) ==
  /\ Range(t) \subseteq XDigit \cup {Colon}
  /\ \A k \in DOMAIN t : t[k] = Colon => k > 1 /\ k < Len(t) /\ t[k + 1] # Colon

\* The well-formed addresses, of which there is one at most, that s is the text of.
FormsOf(s) ==
  LET gaps == {k \in 1..Len(s) - 1 : s[k] = Colon /\ s[k + 1] = Colon}
      halves == {h \in {<<s, FALSE, <<>>>>}
                       \cup {<<SubSeq(s, 1, k - 1), TRUE, SubSeq(s, k + 2, Len(s))>> : k \in gaps} :
                   RunsOfDigits(h[1]) /\ RunsOfDigits(h[3])}
  IN {a \in {[before |-> GroupsOf(h[1]), comp |-> h[2], after |-> GroupsOf(h[3])] : h \in halves} :
        WellFormed(a)}

\* The text with the IPv4 address that begins at p written as two groups.
Undotted(s, p) ==
  LET hex == HexEncode(Ipv4ToBin(SubSeq(s, p, Len(s))).out)
  IN SubSeq(s, 1, p - 1) \o SubSeq(hex, 1, 4) \o <<Colon>> \o SubSeq(hex, 5, 8)

\* The places of s at which a group begins that an IPv4 address may be.
Ipv4Starts(s, starts) == {p \in starts : Dot \in Range(s) /\ IsIpv4(SubSeq(s, p, Len(s)))}

\* Behind zeros and 0xFFFF, with a group before it, but not right behind the "::".
\* Of these groups the parser looks at the lower twelve bits.
Mapped(a) ==
  LET groups == a.before \o a.after
      n == Len(groups) - 2
  IN /\ n > 0 /\ HexNumber(groups[n]) % 4096 = 4095
     /\ \A k \in 1..n - 1 : HexNumber(groups[k]) % 4096 = 0
     /\ a.comp => Len(a.after) # 2

\* The addresses the parser takes s for: groups of four digits need no colon
\* behind them, and an IPv4 address may be part of a mapped address only.
Ipv6Taken(s) ==
  FormsOf(s) \cup UNION {{a \in FormsOf(Undotted(s, p)) : Mapped(a)} :
                          p \in Ipv4Starts(s, GroupStarts(s))}

\* Whatever string it is given, the parser takes it exactly when it is one of
\* these, and copies bytes behind the sixteen it fills, which are on the stack of
\* ipv6_norm, exactly when the gap is longer than what follows it.
Ipv6TakesAndSmashes ==
  /\ fn = "ipv6_to_bin_of_any" => (res.ret = 0 <=> Ipv6Taken(arg) # {})
  /\ fn = "ipv6_norm" =>
       /\ res.ret = EINVAL <=> Ipv6Taken(arg) = {}
       /\ res.ret = Smashed <=>
            \E a \in Ipv6Taken(arg) :
              a.comp /\ 8 - Len(a.before) - Len(a.after) > Len(a.after)

\* The printer of IPv6 addresses returns only for those without a group of two
\* non-zero bytes behind the first, and has then printed a single colon.
Ipv6PrintsColon ==
  fn = "ipv6_to_str" =>
    /\ res.ret = 0 <=> \A k \in 2..8 : arg[2 * k - 1] * arg[2 * k] = 0
    /\ res.ret = 0 => res.out = <<Colon>>

-----------------------------------------------------------------------------
\* The split of RFC 3986, appendix B: each part ends at the first of its ends.
UpTo(s, pos, ends) == FirstAt(pos, Len(s), LAMBDA k : k = Len(s) \/ At(s, k) \in ends)
Text(s, view) == IF view = NULL THEN NULL ELSE SubSeq(s, view[1] + 1, view[1] + view[2])

Rfc3986(s) ==
  LET c == UpTo(s, 0, Chars(":/?#"))
      a == IF c > 0 /\ At(s, c) = Colon THEN c + 1 ELSE 0
      slashes == At(s, a) = 47 /\ At(s, a + 1) = 47
      p == IF slashes THEN UpTo(s, a + 2, Chars("/?#")) ELSE a
      q == UpTo(s, p, Chars("?#"))
      f == UpTo(s, q, Chars("#"))
  IN [scheme    |-> IF a = 0 THEN NULL ELSE View(0, c),
      authority |-> IF slashes THEN View(a + 2, p) ELSE NULL,
      path      |-> View(p, q),
      query     |-> IF At(s, q) = 63 THEN View(q + 1, f) ELSE NULL,
      fragment  |-> IF At(s, f) = 35 THEN View(f + 1, Len(s)) ELSE NULL]

\* The characters that end a part of a URI, and the sets of uri.c they are not in.
ASSUME DelimitersAssumption ==
  /\ Chars(":/?#") = {35, 47, 58, 63} /\ Chars("/?#") = {35, 47, 63}
  /\ Chars("?#") = {35, 63} /\ Chars("#") = {35}
  /\ scheme_cset \cap {0, 35, 47, 58, 63} = {}
  /\ userinfo_cset \cap {0, 35, 47, 63, 64} = {}
  /\ path_cset \cap {0, 35, 63} = {} /\ {47, 58} \subseteq path_cset
  /\ query_cset \cap {0, 35} = {} /\ 0 \notin fragment_cset

\* The segments of a URI that is taken are those of RFC 3986; its authority is
\* made of its userinfo, host and port with nothing between them, and the host,
\* because the position does not move over any other, is an IPv4 address or
\* nothing at all.
UriSplits ==
  fn = "uri_parse_segments" /\ res.ret = 0 =>
    LET rfc == Rfc3986(arg)
        user == Text(arg, res.userinfo) port == Text(arg, res.port)
        host == Text(arg, res.host)
    IN /\ \A part \in {"scheme", "path", "query", "fragment"} : res[part] = rfc[part]
       /\ res.host = NULL <=> rfc.authority = NULL
       /\ res.host # NULL =>
            /\ Text(arg, rfc.authority) =
                 (IF res.userinfo = NULL THEN <<>> ELSE user \o <<64>>) \o host
                 \o (IF res.port = NULL THEN <<>> ELSE <<Colon>> \o port)
            /\ IF res.host_type = "IPV4" THEN IsIpv4(host) ELSE host = <<>>
            /\ Range(port) \subseteq Digit

\* The octets a string stands for.
Octets(s) ==
  FoldLeft(LAMBDA t, k : IF k < t.pos THEN t
                         ELSE IF IsPctEnc(s, k)
                         THEN [pos |-> k + 3, out |-> Append(t.out, HexNumber(SubSeq(s, k + 2, k + 3)))]
                         ELSE [pos |-> k + 1, out |-> Append(t.out, At(s, k))],
           [pos |-> 0, out |-> <<>>], [k \in 1..Len(s) |-> k - 1]).out

\* The string with every octet encoded.
Encoded(octets) ==
  FlattenSeq([k \in DOMAIN octets |-> <<37>> \o HexEncode(<<octets[k]>>)])

\* Whether the digits and dots a string begins with are an IPv4 address.
BeginsWithIpv4(s) ==
  IsIpv4(Prefix(s, FirstAt(0, Len(s), LAMBDA k : At(s, k) \notin Digit \cup {Dot})))

\* A segment that is normalised stands for the same octets (in a scheme, for the
\* same letters), and what it becomes depends on nothing else: the string in which
\* every octet is encoded becomes the same, which is stable.  The name of a host
\* is stable unless what it becomes begins with an IPv4 address, for which a second
\* call takes it all, and loses it.
NormalizeStable ==
  /\ fn = "uri_normalize" /\ res.ret = 0 =>
       IF arg.part = "scheme"
       THEN /\ [k \in DOMAIN arg.src |-> ToUpper(arg.src[k])]
                 = [k \in DOMAIN res.out |-> ToUpper(res.out[k])]
            /\ UriNormalizeScheme(res.out) = res
       ELSE LET octets == Octets(arg.src)
            IN /\ Octets(res.out) = octets
               /\ UriNormalize(arg.part, Encoded(octets)) = res
               /\ UriNormalize(arg.part, res.out) = res
  /\ fn = "uri_normalize_host" /\ res.ret = 0 /\ res.ended /\ At(arg, 0) # 91 =>
       /\ Octets(res.out) = Octets(arg)
       /\ UriNormalizeHost(res.out, 0) =
            IF BeginsWithIpv4(res.out) THEN Normal(0, <<>>, FALSE) ELSE res

-----------------------------------------------------------------------------
\* Bits are read from the other end of their byte than they are written at: the
\* write of bit i changes what bit_test returns for the mirrored bit and no
\* other, and the old value returned is not that of the bit written.
BitsMirrored ==
  fn = "bit_test_and" =>
    LET mirror == 8 * (arg.i \div 8) + 7 - (arg.i % 8)
        was(i) == BitTest(arg.base, i)
        new == CASE arg.op = "set" -> 1 [] arg.op = "clear" -> 0
                 [] arg.op = "flip" -> 1 - was(mirror)
    IN /\ res.old = was(arg.i)
       /\ \A i \in 0..8 * Len(arg.base) - 1 :
            BitTest(res.base, i) = IF i = mirror THEN new ELSE was(i)

Divides(d, n) == \E k \in 0..n : k * d = n

\* l is the least positive multiple of a and b, or zero when there is none.
IsLeastMultiple(l, a, b) ==
  IF a * b = 0 THEN l = 0
  ELSE /\ l > 0 /\ Divides(a, l) /\ Divides(b, l)
       /\ \A n \in 1..l - 1 : ~(Divides(a, n) /\ Divides(b, n))

\* A rotation moves every bit by n places around the word, and the one to the
\* right undoes the one to the left; gcd is the greatest divisor, lcm the least
\* multiple as long as the product is an int, and the logarithms are exact on both
\* sides of every power of two, up to the widest numbers.
Arithmetic ==
  /\ fn = "rotl_rotr" =>
       /\ \A k \in 1..Len(arg.x) : res[1][k] = arg.x[((k - 1 + arg.n) % Len(arg.x)) + 1]
       /\ Rotr(res[1], arg.n) = arg.x /\ Rotl(res[2], arg.n) = arg.x
  /\ fn = "gcd_lcm" =>
       LET a == Abs(arg[1]) b == Abs(arg[2])
       IN /\ Divides(res[1], a) /\ Divides(res[1], b)
          /\ \A d \in 1..a + b : Divides(d, a) /\ Divides(d, b) => d <= res[1]
          /\ a * b <= IntMax => IsLeastMultiple(res[2], a, b)
  /\ fn = "log2" =>
       /\ 2^res[1] <= arg /\ arg \div 2 < 2^res[1]
       /\ IF arg = 1 THEN res[2] = 0
          ELSE 2^(res[2] - 1) < arg /\ (arg - 1) \div 2 < 2^(res[2] - 1)

\* What encryption in blocks, then decryption, give back of a message: its whole
\* blocks, and a last part that is reversed, has lost its beginning and starts
\* with the padding.
EcbReturns ==
  fn = "des_ecb" =>
    LET n == Len(arg) % 8
        tail == SubSeq(arg, Len(arg) - n + 1, Len(arg))
    IN res = Prefix(arg, Len(arg) - n)
             \o [k \in 1..n |-> IF 8 - k <= n THEN tail[8 - k] ELSE 8 - n]

\* The bytes of words of n bytes each.
LittleEndian(words, n) ==
  [k \in 1..n * Len(words) |-> words[((k - 1) \div n) + 1][n - ((k - 1) % n)]]

\* Every byte of the input goes into the words of a hash once, in its order, the
\* rest of the last word is zero, and the size of SipHash is its last byte.
AbsorbsOnce ==
  fn = "hash" =>
    LET n == Len(arg)
    IN /\ LittleEndian(res[1], 8) = arg \o Zeros(7 - (n % 8)) \o <<n % 256>>
       /\ LittleEndian(res[2], 4) = arg \o Zeros((4 - (n % 4)) % 4)

-----------------------------------------------------------------------------
(* FIPS 46-3: permuted choices 1 and 2 and the shifts of the key schedule. *)
PC1 == <<57, 49, 41, 33, 25, 17, 9, 1, 58, 50, 42, 34, 26, 18, 10, 2, 59, 51, 43, 35, 27,
         19, 11, 3, 60, 52, 44, 36, 63, 55, 47, 39, 31, 23, 15, 7, 62, 54, 46, 38, 30, 22,
         14, 6, 61, 53, 45, 37, 29, 21, 13, 5, 28, 20, 12, 4>>
PC2 == <<14, 17, 11, 24, 1, 5, 3, 28, 15, 6, 21, 10, 23, 19, 12, 4, 26, 8, 16, 7, 27, 20,
         13, 2, 41, 52, 31, 37, 47, 55, 30, 40, 51, 45, 33, 48, 44, 49, 39, 56, 34, 53, 46,
         42, 50, 36, 29, 32>>
Shifts == <<1, 2, 4, 6, 8, 10, 12, 14, 15, 17, 19, 21, 23, 25, 27, 28>>

\* The sixteen functions that pick the bits of the round keys out of the key do
\* what the standard does by shifting two halves step by step.
KeyScheduleIsFips ==
  fn = "key_schedule" =>
    \A n \in 1..16 : \A j \in 1..48 :
      LET h == 28 * ((PC2[j] - 1) \div 28)
      IN res[n][j] = arg[PC1[h + 1 + ((PC2[j] - 1 - h + Shifts[n]) % 28)]]

-----------------------------------------------------------------------------
(* Search trees and the rules of red-black trees.                          *)
Path(t, n) == LET up[x \in DOMAIN t.left \cup {0}] ==
                    IF x = 0 THEN {} ELSE {x} \cup up[t.parent[x]] IN up[n]

\* The nodes that are reached from n by children.
Below(t, n) == LET down[x \in DOMAIN t.left \cup {0}] ==
                     IF x = 0 THEN {} ELSE {x} \cup down[t.left[x]] \cup down[t.right[x]] IN down[n]

Ordered(t, n) ==
  \A x \in Below(t, n) : /\ \A y \in Below(t, t.left[x]) : y < x
                         /\ \A y \in Below(t, t.right[x]) : y > x

\* Parents are those whose children the nodes are.
Agreeing(t) ==
  \A x, y \in DOMAIN t.left : t.parent[x] = y <=> t.left[y] = x \/ t.right[y] = x

Blacks(t, n) == Cardinality({x \in Path(t, n) : t.color[x] = "black"})
RedBlack(t) ==
  /\ \A x \in Below(t, t.root) : t.color[x] = "red" /\ t.parent[x] # 0 => t.color[t.parent[x]] = "black"
  /\ \A x, y \in Below(t, t.root) :
       0 \in {t.left[x], t.right[x]} /\ 0 \in {t.left[y], t.right[y]} => Blacks(t, x) = Blacks(t, y)

\* A search tree as its user links it: its pointers agree, its keys are in order,
\* and the nodes that are not in it are linked to nothing.
SearchTree(t) ==
  LET nodes == DOMAIN t.left
  IN /\ IsFiniteSet(nodes) /\ nodes \subseteq Nat \ {0}
     /\ t \in [root : nodes \cup {0}, left : [nodes -> nodes \cup {0}],
               right : [nodes -> nodes \cup {0}], parent : [nodes -> nodes \cup {0}],
               color : [nodes -> {"none", "red", "black"}]]
     /\ Agreeing(t) /\ \A n \in nodes : Ordered(t, n)
     /\ t.root # 0 => t.parent[t.root] = 0
     /\ \A n \in nodes :
          IF n \in Below(t, t.root) THEN t.color[n] # "none"
          ELSE t.color[n] = "none" /\ {t.left[n], t.right[n], t.parent[n]} = {0}

ASSUME TreesAssumption == \A t \in Trees : SearchTree(t)

\* rb_next from rb_first goes through the keys of a tree upwards, once each, and
\* rb_prev from rb_last downwards; both end with NULL and stay there.
TraversalInOrder ==
  fn = "rb_walk" =>
    LET n == Cardinality(Below(arg, arg.root))
    IN \A w \in {res[1], [k \in DOMAIN res[2] |-> IF k > n THEN res[2][k] ELSE res[2][n + 1 - k]]} :
         /\ {w[k] : k \in 1..n} = Below(arg, arg.root)
         /\ \A k \in 1..Len(w) - 1 : IF k < n THEN w[k] < w[k + 1] ELSE w[k + 1] = 0

\* A rotation keeps the nodes below and their order, but leaves a tree whose
\* pointers agree only at the top and without a child to hand over.
RotationLeavesLinks ==
  fn = "rb_rotate" =>
    LET t == arg.tree root == arg.root pivot == arg.pivot
        inner == IF t.left[root] = pivot THEN t.right[pivot] ELSE t.left[pivot]
    IN /\ Below(res, pivot) = Below(t, root) /\ Ordered(res, pivot)
       /\ Agreeing(res) <=> inner = 0 /\ t.parent[root] = 0

\* Only the first insertion puts a node into the tree; every other one changes
\* colours alone, and takes a tree that obeys the rules of red-black trees to one
\* that does not whenever the parent of the place is red and not the root.
InsertNeverLinks ==
  fn = "rb_insert" =>
    LET t == arg.tree n == arg.node p == Place(t, n)
    IN IF t.root = 0 THEN res.root = n /\ Below(res, n) = {n}
       ELSE /\ <<res.root, res.left, res.right, res.parent>> = <<t.root, t.left, t.right, t.parent>>
            /\ RedBlack(t) => (RedBlack(res) <=> t.color[p] = "black" \/ p = t.root)

\* What the two operations that change a tree do to its links.
ChangesLeaveLinks == RotationLeavesLinks /\ InsertNeverLinks
=============================================================================
