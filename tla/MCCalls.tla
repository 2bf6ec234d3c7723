------------------------------ MODULE MCCalls -------------------------------
(* Calls with inputs around the boundaries of each function.               *)
EXTENDS Calls

Strings(set, n) == UNION {[1..k -> set] : k \in 0..n}
StrSet(set) == {Str(s) : s \in set}

\* Any cipher of eight bytes that is none of the identity.
MCDesEncrypt(b) == [k \in 1..8 |-> (b[9 - k] + 7 * k) % 256]
MCDesDecrypt(b) == [k \in 1..8 |-> (b[9 - k] + 256 - 7 * (9 - k)) % 256]

MCBuffers     == Strings({0, 1, 107, 128, 255}, 4)
MCHexStrings  == Strings(Chars("09AfG"), 4)
MCB64Strings  == {p \o s : p \in StrSet({"", "Qz9+"}), s \in Strings(Chars("A/=!"), 4)}
                 \cup {Str("bCd+5") \o s : s \in Strings(Chars("z="), 4)}

MCIpv4Parts   == StrSet({"", "0", "00", "7", "25", "99", "100", "255", "256"})
MCIpv4Strings ==
  {a \o <<Dot>> \o b \o <<Dot>> \o c \o <<Dot>> \o d :
     a, d \in MCIpv4Parts, b \in StrSet({"10", "256", ""}), c \in StrSet({"0", "00", "199"})}
  \cup StrSet({"", "1", "1.2.3", "1.2.3.4.", "1.2.3.4.5", "1.2.3.4x", "1,2.3.4", " 1.2.3.4",
               "1.2.3.1000", "1.2.3.-4"})
MCIpv4Addresses == [1..4 -> {0, 9, 10, 99, 100, 255}]

\* Groups by place, so that no two of an address are the same.
MCGroups(kind, n) ==
  [k \in 1..n |-> CASE kind = "plain"  -> Str("1") \o <<>>
                    [] kind = "even"   -> IF k % 2 = 0 THEN Str("1111") ELSE Str("fFff")
                    [] kind = "skewed" -> IF k = 2 THEN Str("1a") ELSE Str("7")
                    [] kind = "wide"   -> IF k = 1 THEN Str("0") ELSE Str("20b")]
MCIpv6Forms ==
  {[before |-> MCGroups(kind, n), comp |-> c, after |-> MCGroups(kind2, IF c THEN m ELSE 0)] :
     kind \in {"plain", "even", "skewed", "wide"}, kind2 \in {"plain", "wide"},
     n \in 0..9, m \in 0..8, c \in BOOLEAN}
\* Strings with and without the colons they need, put together of pieces.
MCIpv6Pieces == StrSet({":", "::", "0", "1fff", "ffff", "1.2.3.4"})
MCIpv6Long   ==
  {x \o y : x \in StrSet({"1:2:3:4:5:6:", "1:2:3:4:5:66667777", "11112222333344445555", "0:0:0:0:0:ffff",
                         "0:0:0:0:0000ffff", "::0:0:0:0:ffff", "0:1000:0::fff", "1:2:3:4:5:6:7:8"}),
            y \in StrSet({"", "7:8", "7:8:", "77778", "::", "::8", ":8", ":1.2.3.4", "1.2.3.4", "6666:7:8"})}
MCIpv6Strings ==
  {FlattenSeq(p) : p \in Strings(MCIpv6Pieces, 4)} \cup MCIpv6Long
  \cup StrSet({":::", "1:2:3:4:5:6:7:8:", "::ffff:1.2.3", "::ffff:0:1.2.3.4", "11112222333344445555666677778888",
               "12345::", "g::", "::1g", "::ffff:1.2.3.4:1", "::ffff:01.2.3.4"})
MCIpv6Addresses == {[k \in 1..16 |-> IF (k + 1) \div 2 \in full THEN 1 ELSE IF k \in half THEN 1 ELSE 0] :
                      full \in SUBSET {1, 2, 5, 8}, half \in {{}, {1, 4, 9}, {2, 6, 16}}}

MCUriStrings ==
  {s \o a \o p :
     s \in StrSet({"", "a:", "1:", "h2+p:"}),
     a \in StrSet({"", "//", "//h", "//1.2.3.4", "//u:p@", "//u@1.2.3.4:80", "//[::1]", "//[v1.a]",
                   "//:80", "//1.2.3.4x", "//%41@255.0.0.1:", "//256.1.1.1"}),
     p \in StrSet({"", "/", "a", "a/b", "/a:b", "a:b", "/%2f", "/%zz", ":"})}
  \cup {s \o p \o q : s \in StrSet({"", "a:", "//", "b://1.2.3.4"}), p \in StrSet({"", "/a"}),
                      q \in StrSet({"?", "?q/?", "?%4", "#", "#f?", "##", "?q#f", "#f?q"})}
  \cup Strings(Chars("a:/?#@"), 3)
MCSegmentStrings ==
  {x \o y : x, y \in StrSet({"", "a", "Z", "%41", "%2f", "%3A", "%25", "%e9", "%", "%4", "/", ":", "[", "]"})}
  \cup Strings(Chars("%4G"), 4)
  \cup StrSet({"[::1]", "[::1]x", "[v1.a]", "[vF.a:b]", "[v.a]", "1.2.3.4", "1.2.3.4a", "%31.2.3.4",
               "%31.2.3.4a", "%31.2.3.4%2e%35", "1.2.3.%34%41", "a1.2.3.4", "%31.2.3.4:8", "25%36.2.3.4", "[1:2:3:4:5:6:7:8]",
               "[2222:1111:3:4:5:6:7:8]", "1.2.3.4.5.6.7.8.9", "[::1"})

MCMemories  == [1..2 -> {0, 1, 128, 165, 255}]
MCBitWords  == {[k \in 1..w |-> IF k \in set THEN 1 ELSE 0] :
                  w \in {8, 16, 32, 64}, set \in {{1}, {8}, {1, 2, 5}, {3, 7, 8}}}
MCIntegers  == -12..12
MCOverflows == {-3, 5}
MCLogs      == 1..70 \cup {2^n + d : n \in {15, 30}, d \in {-1, 0, 1}} \cup {2147483647}
MCMessages  == {[k \in 1..n |-> (8 + 3 * k) % 256] : n \in 0..26 \cup {259}}
MCKeys      == {[k \in 1..64 |-> IF k = p THEN 1 ELSE 0] : p \in 1..64}

\* Search trees of up to four of the nodes 1, 3, 5 and 7, in any shape and colours,
\* which their user links at the place of the search; the others are not in.
MCLink(t, n) ==
  IF t.root = 0 THEN [t EXCEPT !.root = n, !.color[n] = "red"]
  ELSE LET p == Place(t, n)
       IN IF n < p THEN [t EXCEPT !.left[p] = n, !.parent[n] = p, !.color[n] = "red"]
                   ELSE [t EXCEPT !.right[p] = n, !.parent[n] = p, !.color[n] = "red"]
MCEmpty(nodes) == [root |-> 0, left |-> [n \in nodes |-> 0], right |-> [n \in nodes |-> 0],
                   parent |-> [n \in nodes |-> 0], color |-> [n \in nodes |-> "none"]]
MCShapes == {FoldLeft(MCLink, MCEmpty({1, 2, 3, 4, 5, 6, 7, 8}), s) :
               s \in {x \in Strings({1, 3, 5, 7}, 4) : IsInjective(x)}}
MCTrees == UNION {{[t EXCEPT !.color = [n \in DOMAIN @ |-> IF n \in black THEN "black" ELSE @[n]]] :
                     black \in SUBSET Below(t, t.root)} : t \in MCShapes}
=============================================================================
