------------------------------- MODULE RbTree -------------------------------
(***************************************************************************)
(* The tree of hlibc/rbtree.c.  A tree is its pointers: the root, and the  *)
(* left, right, parent and color of every node.  A node is its key, a      *)
(* number other than zero; zero is NULL.                                   *)
(***************************************************************************)
EXTENDS Integers

\* The end of the chain of pointers from n on.
Down(link, n) ==
  LET end[x \in DOMAIN link] == IF link[x] = 0 THEN x ELSE end[link[x]] IN end[n]

RbFirst(t) == IF t.root = 0 THEN 0 ELSE Down(t.left, t.root)
RbLast(t)  == IF t.root = 0 THEN 0 ELSE Down(t.right, t.root)

\* The parent above all that n is below on this side.
Above(t, side, n) ==
  LET up[x \in DOMAIN side] ==
        IF t.parent[x] # 0 /\ side[t.parent[x]] = x THEN up[t.parent[x]] ELSE t.parent[x]
  IN up[n]

\* Mutant of RbNext: the climb takes one step.
RbNextNear(t, n) ==
  IF n = 0 THEN 0
  ELSE IF t.right[n] # 0 THEN Down(t.left, t.right[n]) ELSE t.parent[n]

RbNext(t, n) ==
  IF n = 0 THEN 0
  ELSE IF t.right[n] # 0 THEN Down(t.left, t.right[n]) ELSE Above(t, t.right, n)

RbPrev(t, n) ==
  IF n = 0 THEN 0
  ELSE IF t.left[n] # 0 THEN Down(t.right, t.left[n]) ELSE Above(t, t.left, n)

\* Mutant of RbSibling: the other child, where there is one.
RbSiblingOther(t, n) ==
  LET p == t.parent[n]
      other == IF t.left[p] = n THEN t.right[p] ELSE t.left[p]
  IN IF other = 0 THEN n ELSE other

\* A left child is its own sibling, and so is a right one.
RbSibling(t, n) ==
  LET p == t.parent[n] IN IF t.left[p] = n THEN t.left[p] ELSE t.right[p]

\* Mutant of RbRotate: the inner child of the pivot is dropped.
RbRotateDropping(t, root, pivot) ==
  LET u == [t EXCEPT !.parent[pivot] = t.parent[root], !.parent[root] = pivot]
  IN IF t.left[root] = pivot
     THEN [u EXCEPT !.left[root] = 0, !.right[pivot] = root]
     ELSE [u EXCEPT !.right[root] = 0, !.left[pivot] = root]

\* Neither the parent of the inner child of pivot nor the child of the node above
\* root is set.
RbRotate(t, root, pivot) ==
  LET u == [t EXCEPT !.parent[pivot] = t.parent[root], !.parent[root] = pivot]
  IN IF t.left[root] = pivot
     THEN [u EXCEPT !.left[root] = t.right[pivot], !.right[pivot] = root]
     ELSE [u EXCEPT !.right[root] = t.left[pivot], !.left[pivot] = root]

Recolored(t, uncle, parent, above) ==
  [t EXCEPT !.color[uncle] = "black", !.color[parent] = "black", !.color[above] = "red"]

\* One rotation or two.
Rotated(t, n, parent, above) ==
  LET inner == IF t.left[above] = parent THEN t.right[parent] = n ELSE t.left[parent] = n
      low   == IF inner THEN RbRotate(t, parent, n) ELSE t
      mid   == IF inner THEN n ELSE parent
  IN [RbRotate(low, above, mid) EXCEPT !.color[above] = "red", !.color[mid] = "black"]

\* The loop behind the search is left in its first round: with a red uncle the
\* parent, which the loop keeps, has become black when the second begins.
Rebalanced(t, n, parent) ==
  LET above == t.parent[parent]
  IN IF t.color[parent] = "black" THEN t
     ELSE IF above = 0 THEN [t EXCEPT !.color[parent] = "black"]
     ELSE IF t.color[RbSibling(t, parent)] = "red"
     THEN Recolored(t, RbSibling(t, parent), parent, above)
     ELSE Rotated(t, n, parent, above)

\* Where the search for n ends.
Place(t, n) ==
  LET side(x) == IF n < x THEN t.left[x] ELSE t.right[x]
      end[x \in DOMAIN t.left] == IF side(x) = 0 THEN x ELSE end[side(x)]
  IN end[t.root]

\* Of the node, all but the links to it is set.
RbInsert(t, n) ==
  LET new == [t EXCEPT !.parent[n] = 0, !.left[n] = 0, !.right[n] = 0, !.color[n] = "red"]
  IN IF t.root = 0 THEN [new EXCEPT !.root = n] ELSE Rebalanced(new, n, Place(new, n))
=============================================================================
