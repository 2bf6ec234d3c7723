-------------------------------- MODULE List --------------------------------
(***************************************************************************)
(* The circular doubly linked list of include/hlibc/list.h.                *)
(*                                                                         *)
(* A list_node embeds two pointers.  `ptr' is the memory those pointers    *)
(* live in and the operators below are the inline functions, assignment by *)
(* assignment, so that aliased arguments (the neighbour of a node passed   *)
(* as its other argument, a list of one node) behave as in the code.       *)
(* `linked' is a ghost: the nodes the caller knows to be on some list.  The *)
(* header writes down no preconditions; the guards of the actions are the  *)
(* ones its callers keep (add a node that is on no list, remove one that   *)
(* is).                                                                    *)
(***************************************************************************)
EXTENDS Naturals, FiniteSets

CONSTANTS
  Nodes,            \* every list_node of the program
  NULL,             \* the pointers of a node in zeroed memory
  SwapPredecessor   \* whether callers swap a node with the one just before it

ASSUME NullIsNoNode == NULL \notin Nodes
ASSUME SwapPredecessorIsBoolean == SwapPredecessor \in BOOLEAN

VARIABLES ptr, linked
vars == <<ptr, linked>>

Pointers == [next : [Nodes -> Nodes \cup {NULL}],
             prev : [Nodes -> Nodes \cup {NULL}]]

-----------------------------------------------------------------------------
(* The inline functions, from memory to memory.                            *)

NodeInit(m, node) ==                                     \* list_node_init
  [next |-> [m.next EXCEPT ![node] = node],
   prev |-> [m.prev EXCEPT ![node] = node]]

\* Mutant of Link: the assignment of the old successor's prev is lost.
LinkForwardOnly(m, item, p, n) ==
  [next |-> [m.next EXCEPT ![p] = item, ![item] = n],
   prev |-> [m.prev EXCEPT ![item] = p]]

Link(m, item, p, n) ==                                   \* __list_add
  [next |-> [m.next EXCEPT ![p] = item, ![item] = n],
   prev |-> [m.prev EXCEPT ![n] = item, ![item] = p]]

Unlink(m, p, n) ==                                       \* __list_rm
  [next |-> [m.next EXCEPT ![p] = n], prev |-> [m.prev EXCEPT ![n] = p]]

Add(m, item, node)     == Link(m, item, node, m.next[node])
AddTail(m, item, node) == Link(m, item, m.prev[node], node)

\* Mutant of Rm: the node before the removed one is taken from the wrong side.
RmSwappedNeighbours(m, node) == Unlink(m, m.next[node], m.prev[node])

\* The pointers of the removed node itself keep their old values.
Rm(m, node)            == Unlink(m, m.prev[node], m.next[node])

\* Mutant of MoveTail: the item goes behind the node, as list_move puts it.
MoveTailBehind(m, item, node) == Add(Rm(m, item), item, node)

Move(m, item, node)     == Add(Rm(m, item), item, node)
MoveTail(m, item, node) == AddTail(Rm(m, item), item, node)

\* item->next and item->prev are copied first; item->prev->next is written
\* before item->next->prev is, through the freshly copied pointers.
Replace(m, old, item) ==
  LET p == m.prev[old]
      n == [m.next EXCEPT ![item] = m.next[old], ![p] = item]
  IN [next |-> n, prev |-> [m.prev EXCEPT ![item] = p, ![n[item]] = item]]

Swap(m, a, b) ==
  IF a = b THEN m ELSE Add(Replace(Rm(m, a), b, a), b, m.prev[a])

IsFirst(m, item, node) == m.prev[node] = item
IsLast(m, item, node)  == m.next[node] = item
IsEmpty(m, node)       == m.next[node] = node

-----------------------------------------------------------------------------
(* A program that calls them.                                              *)

Init ==
  /\ ptr = [next |-> [n \in Nodes |-> NULL], prev |-> [n \in Nodes |-> NULL]]
  /\ linked = {}

InitNode(node) ==
  /\ node \in linked => IsEmpty(ptr, node)
  /\ ptr' = NodeInit(ptr, node)
  /\ linked' = linked \cup {node}

AddItem(item, node) ==
  /\ item \notin linked /\ node \in linked
  /\ ptr' = Add(ptr, item, node)
  /\ linked' = linked \cup {item}

AddItemTail(item, node) ==
  /\ item \notin linked /\ node \in linked
  /\ ptr' = AddTail(ptr, item, node)
  /\ linked' = linked \cup {item}

\* Removing the only node of a list changes nothing: it stays a list of one.
RmItem(node) ==
  /\ node \in linked /\ ~IsEmpty(ptr, node)
  /\ ptr' = Rm(ptr, node)
  /\ linked' = linked \ {node}

MoveItem(item, node) ==
  /\ item \in linked /\ node \in linked /\ item # node
  /\ ptr' = Move(ptr, item, node)
  /\ UNCHANGED linked

MoveItemTail(item, node) ==
  /\ item \in linked /\ node \in linked /\ item # node
  /\ ptr' = MoveTail(ptr, item, node)
  /\ UNCHANGED linked

\* A list of one node keeps that node when it is replaced: the copied pointers
\* lead back to it, and the two nodes form a list.
ReplaceItem(old, item) ==
  /\ old \in linked /\ item \notin linked
  /\ ptr' = Replace(ptr, old, item)
  /\ linked' = (IF IsEmpty(ptr, old) THEN linked ELSE linked \ {old}) \cup {item}

\* Swapping is about nodes that share a list with others: a node alone is an
\* empty list, and has no place to give.
SwapItems(a, b) ==
  /\ {a, b} \subseteq linked
  /\ ~IsEmpty(ptr, a) /\ ~IsEmpty(ptr, b)
  /\ ptr.prev[a] = b => SwapPredecessor
  /\ ptr' = Swap(ptr, a, b)
  /\ UNCHANGED linked

Next ==
  \E x \in Nodes :
    \/ InitNode(x)
    \/ RmItem(x)
    \/ \E y \in Nodes : \/ AddItem(x, y)
                        \/ AddItemTail(x, y)
                        \/ MoveItem(x, y)
                        \/ MoveItemTail(x, y)
                        \/ ReplaceItem(x, y)
                        \/ SwapItems(x, y)

Spec == Init /\ [][Next]_vars

-----------------------------------------------------------------------------
TypeOK == ptr \in Pointers /\ linked \subseteq Nodes

\* The pointers of the linked nodes lead to linked nodes and are inverse to
\* each other: no operation of list.h, in any order, leaves a half-linked node
\* or lets a list reach a removed one.
DoublyLinked ==
  \A n \in linked :
    /\ ptr.next[n] \in linked /\ ptr.prev[ptr.next[n]] = n
    /\ ptr.prev[n] \in linked /\ ptr.next[ptr.prev[n]] = n
=============================================================================
