----------------------------- MODULE RingLists ------------------------------
(***************************************************************************)
(* What include/hlibc/list.h promises its callers, without pointers: the   *)
(* nodes are arranged in rings.  ring[n] is the ring of node n read        *)
(* forwards from n, the empty sequence when n is on no list.               *)
(***************************************************************************)
EXTENDS Naturals, Sequences, SequencesExt

CONSTANT Nodes
VARIABLE ring

OnList(n) == ring[n] # <<>>
Alone(n)  == ring[n] = <<n>>

\* s read from its member n on.
From(s, n) ==
  LET i == CHOOSE i \in DOMAIN s : s[i] = n
  IN SubSeq(s, i, Len(s)) \o SubSeq(s, 1, i - 1)

\* The arrangement after the nodes of s have been made one ring.
Arrange(r, s) == [n \in Nodes |-> IF n \in ToSet(s) THEN From(s, n) ELSE r[n]]

\* The arrangement without x: its neighbours close up.
Without(r, x) == [Arrange(r, Tail(r[x])) EXCEPT ![x] = <<>>]

Behind(r, x, n)  == Arrange(r, <<n, x>> \o Tail(r[n]))
Before(r, x, n)  == Arrange(r, Append(r[n], x))

\* Two nodes trade places, whatever rings (or none) they are on.
Exchange(r, a, b) ==
  LET other(n) == CASE n = a -> b [] n = b -> a [] OTHER -> n
  IN [n \in Nodes |-> [i \in DOMAIN r[other(n)] |-> other(r[other(n)][i])]]

RingInit == ring = [n \in Nodes |-> <<>>]

Start(x) ==
  /\ ~OnList(x) \/ Alone(x)
  /\ ring' = Arrange(ring, <<x>>)

PutBehind(x, n) ==
  /\ ~OnList(x) /\ OnList(n)
  /\ ring' = Behind(ring, x, n)

PutBefore(x, n) ==
  /\ ~OnList(x) /\ OnList(n)
  /\ ring' = Before(ring, x, n)

Take(x) ==
  /\ OnList(x) /\ ~Alone(x)
  /\ ring' = Without(ring, x)

MoveBehind(x, n) ==
  /\ OnList(x) /\ OnList(n) /\ x # n
  /\ ring' = Behind(Without(ring, x), x, n)

MoveBefore(x, n) ==
  /\ OnList(x) /\ OnList(n) /\ x # n
  /\ ring' = Before(Without(ring, x), x, n)

Substitute(old, x) ==
  /\ OnList(old) /\ ~OnList(x)
  /\ ring' = IF Alone(old) THEN Behind(ring, x, old) ELSE Exchange(ring, old, x)

Trade(a, b) ==
  /\ OnList(a) /\ OnList(b) /\ ~Alone(a) /\ ~Alone(b)
  /\ ring' = Exchange(ring, a, b)

RingNext ==
  \E x \in Nodes : \/ Start(x)
                   \/ Take(x)
                   \/ \E y \in Nodes : \/ PutBehind(x, y)
                                       \/ PutBefore(x, y)
                                       \/ MoveBehind(x, y)
                                       \/ MoveBefore(x, y)
                                       \/ Substitute(x, y)
                                       \/ Trade(x, y)

RingSpec == RingInit /\ [][RingNext]_ring
=============================================================================
