------------------------------ MODULE LinkedList ----------------------------
(***************************************************************************)
(* kernel/lib/linkedlist.c: doubly linked lists with a head and a tail     *)
(* sentinel, at the level of the pointers.  The links of a node that was   *)
(* removed keep their values.  Pointers whose target the code never writes *)
(* (head.prev, tail.next) are NULL.                                        *)
(***************************************************************************)
EXTENDS Integers, FiniteSets, SequencesExt

CONSTANTS
  ListIds,   \* the lists: free lists of slabs, slab lists of caches
  NodeIds,   \* the nodes that can be put on them
  NULL

\* The sentinels are members of the list structure.
HeadOf(l) == <<"head", l>>
TailOf(l) == <<"tail", l>>
Heads == {HeadOf(l) : l \in ListIds}
Tails == {TailOf(l) : l \in ListIds}
Cells == NodeIds \cup Heads \cup Tails

ASSUME CellsAssumption ==
  /\ NULL \notin Cells /\ NULL \notin ListIds /\ NodeIds \cap (Heads \cup Tails) = {}
  /\ IsFiniteSet(NodeIds)

VARIABLES
  next, prev,   \* the two fields of every cell
  on,           \* history: the list a node was put on, NULL while on none
  answer        \* what the last operation returned

vars == <<next, prev, on, answer>>

\* list_init of every list; the fields of a fresh node are whatever was there,
\* NULL after slab_alloc's memset.
Init ==
  /\ next = [c \in Cells |-> IF c \in Heads THEN TailOf(c[2]) ELSE NULL]
  /\ prev = [c \in Cells |-> IF c \in Tails THEN HeadOf(c[2]) ELSE NULL]
  /\ on = [n \in NodeIds |-> NULL]
  /\ answer = <<>>
-----------------------------------------------------------------------------
(* Slips of the code that the checks must notice.                          *)

\* before->prev is written before before->prev->next: the node links itself.
InsertBeforeSwapped(before, node) ==
  /\ next' = [next EXCEPT ![node] = node]
  /\ prev' = [prev EXCEPT ![node] = prev[before], ![before] = node]

\* The second link of list_remove is forgotten.
ListRemoveHalf(node) ==
  /\ next' = [next EXCEPT ![prev[node]] = next[node]]
  /\ prev' = prev
-----------------------------------------------------------------------------
\* insert_before: the four assignments, in order.
InsertBefore(before, node) ==
  /\ next' = [next EXCEPT ![node] = before, ![prev[before]] = node]
  /\ prev' = [prev EXCEPT ![node] = prev[before], ![before] = node]

\* list_remove: the node's own links stay.
ListRemove(node) ==
  /\ next' = [next EXCEPT ![prev[node]] = next[node]]
  /\ prev' = [prev EXCEPT ![next[node]] = prev[node]]

\* list_push and list_append; callers only put a node that is on no list.
ListPush(l, node) ==
  /\ on[node] = NULL
  /\ InsertBefore(next[HeadOf(l)], node)
  /\ on' = [on EXCEPT ![node] = l]
  /\ answer' = <<>>

ListAppend(l, node) ==
  /\ on[node] = NULL
  /\ InsertBefore(TailOf(l), node)
  /\ on' = [on EXCEPT ![node] = l]
  /\ answer' = <<>>

\* list_pop.
ListPop(l) ==
  LET node == next[HeadOf(l)]
  IN  IF node = TailOf(l)
      THEN answer' = <<>> /\ UNCHANGED <<next, prev, on>>
      ELSE /\ ListRemove(node)
           /\ on' = [on EXCEPT ![node] = NULL]
           /\ answer' = <<node>>

\* list_remove by a caller that has the node, as slab_free does.
ListUnlink(node) ==
  /\ on[node] # NULL
  /\ ListRemove(node)
  /\ on' = [on EXCEPT ![node] = NULL]
  /\ answer' = <<>>

Next ==
  \/ \E l \in ListIds : ListPop(l)
  \/ \E l \in ListIds, n \in NodeIds : ListPush(l, n) \/ ListAppend(l, n)
  \/ \E n \in NodeIds : ListUnlink(n)

Spec == Init /\ [][Next]_vars
-----------------------------------------------------------------------------
\* The walk of list_find, list_match and list_len along the pointers f: the
\* cells in front of the tail of l, at most as many as there are nodes.
Further(f, l, seen) ==
  LET c == f[IF seen = <<>> THEN HeadOf(l) ELSE Last(seen)]
  IN  IF c \in Cells \ {TailOf(l)} THEN Append(seen, c) ELSE seen
WalkAlong(f, l) ==
  LET seen[i \in 0 .. Cardinality(NodeIds)] ==
        IF i = 0 THEN <<>> ELSE Further(f, l, seen[i - 1])
  IN  seen[Cardinality(NodeIds)]
Walk(l) == WalkAlong(next, l)

\* The cells of list l, without and with the sentinels.
NodesOn(l) == {n \in NodeIds : on[n] = l}

\* Each list is one chain: from any cell but the tail, next leads to a cell of
\* the same list whose prev leads back, and the other way round.
WellLinked ==
  \A l \in ListIds :
    /\ \A c \in NodesOn(l) \cup {HeadOf(l)} :
         next[c] \in NodesOn(l) \cup {TailOf(l)} /\ prev[next[c]] = c
    /\ \A c \in NodesOn(l) \cup {TailOf(l)} :
         prev[c] \in NodesOn(l) \cup {HeadOf(l)} /\ next[prev[c]] = c

\* The pointers implement sequences: no cycle of nodes is cut off from the
\* head, list_len and list_find return, and list_pop returns the first node.
L == INSTANCE Lists WITH contents <- [l \in ListIds |-> Walk(l)]
ImplementsLists == L!ListsSpec
=============================================================================
