--------------------------- MODULE ListIteration ----------------------------
(***************************************************************************)
(* The traversal macros of include/hlibc/list.h, list_for_each and         *)
(* list_for_each_entry_safe, run over a list whose body takes the current   *)
(* node off the list.  The lists are built by the calls of List while no    *)
(* loop runs.  The header does not say what a body may do; here a body      *)
(* touches the current node only: it removes it, or, in the safe macro,     *)
(* moves it to a list elsewhere, as its users do (htest_destroy).           *)
(***************************************************************************)
EXTENDS ListRings

CONSTANT NoLoop       \* the value of mode and of the cursors outside a loop

VARIABLES mode,       \* NoLoop, "each" or "safe": the macro that is running
          turn,       \* "test" before pos != head, "body", or "advance"
          head, pos, tmp,
          visited,    \* ghost: the nodes the body has seen
          todo        \* ghost: the nodes on the list when the loop began
loopVars == <<mode, turn, head, pos, tmp, visited, todo>>
allVars  == <<vars, loopVars>>

LoopInit ==
  /\ Init
  /\ mode = NoLoop /\ turn = "test"
  /\ head = NoLoop /\ pos = NoLoop /\ tmp = NoLoop
  /\ visited = <<>> /\ todo = <<>>

BuildLists == mode = NoLoop /\ Next /\ UNCHANGED loopVars

\* The initial clause of the for statement.  Both cursors are read before the
\* condition is tested, even when the list is empty.
Enter(m, h) ==
  /\ mode = NoLoop /\ h \in linked
  /\ mode' = m /\ turn' = "test" /\ head' = h
  /\ pos' = ptr.next[h]
  /\ tmp' = IF m = "safe" THEN ptr.next[ptr.next[h]] ELSE NoLoop
  /\ visited' = <<>> /\ todo' = Tail(Walk(h))
  /\ UNCHANGED vars

\* The ghost of a loop that does not end stops growing.
Test ==
  /\ mode # NoLoop /\ turn = "test" /\ pos # head
  /\ turn' = "body"
  /\ visited' = IF Len(visited) > Len(todo) THEN visited ELSE Append(visited, pos)
  /\ UNCHANGED <<vars, mode, head, pos, tmp, todo>>

\* The body leaves the list alone, removes the current node, or (with the safe
\* macro) moves it behind the head of another list.
Body ==
  /\ turn = "body" /\ turn' = "advance"
  /\ \/ UNCHANGED vars
     \/ RmItem(pos)
     \/ \E h \in linked \ Rings!ToSet(Walk(head)) :
          mode = "safe" /\ MoveItem(pos, h)
  /\ UNCHANGED <<mode, head, pos, tmp, visited, todo>>

\* Mutant of Advance: the safe macro steps to pos->next, as list_for_each does.
AdvanceByPos ==
  /\ turn = "advance" /\ turn' = "test"
  /\ pos' = ptr.next[pos]
  /\ tmp' = IF mode = "safe" THEN ptr.next[tmp] ELSE NoLoop
  /\ UNCHANGED <<vars, mode, head, visited, todo>>

\* Mutant of Advance: the current node is not left.
AdvanceNowhere ==
  /\ turn = "advance" /\ turn' = "test"
  /\ UNCHANGED <<vars, mode, head, pos, tmp, visited, todo>>

\* list_for_each reads the next pointer of a node that may have been removed.
Advance ==
  /\ turn = "advance" /\ turn' = "test"
  /\ pos' = IF mode = "safe" THEN tmp ELSE ptr.next[pos]
  /\ tmp' = IF mode = "safe" THEN ptr.next[tmp] ELSE NoLoop
  /\ UNCHANGED <<vars, mode, head, visited, todo>>

Leave ==
  /\ mode # NoLoop /\ turn = "test" /\ pos = head
  /\ mode' = NoLoop /\ head' = NoLoop /\ pos' = NoLoop /\ tmp' = NoLoop
  /\ visited' = <<>> /\ todo' = <<>>
  /\ UNCHANGED <<vars, turn>>

LoopNext ==
  \/ BuildLists
  \/ \E m \in {"each", "safe"}, h \in Nodes : Enter(m, h)
  \/ Test
  \/ Body
  \/ Advance
  \/ Leave

\* The thread inside a loop keeps running; nobody has to start one.
LoopSpec == LoopInit /\ [][LoopNext]_allVars
                     /\ WF_allVars(Test \/ Body \/ Advance \/ Leave)

-----------------------------------------------------------------------------
\* A body that takes the current node away makes the loop neither skip nor
\* repeat a node: the nodes seen are a prefix of those that were on the list,
\* and when the condition fails, all of them.
VisitsTheList ==
  mode # NoLoop =>
    /\ Len(visited) <= Len(todo)
    /\ visited = SubSeq(todo, 1, Len(visited))
    /\ turn = "test" /\ pos = head => visited = todo

\* Every loop ends.
LoopsEnd == mode # NoLoop ~> mode = NoLoop
=============================================================================
