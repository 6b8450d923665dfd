-------------------------------- MODULE Lists -------------------------------
(***************************************************************************)
(* What kernel/lib/linkedlist.h offers: lists of nodes, a node on at most  *)
(* one of them.                                                            *)
(***************************************************************************)
EXTENDS Sequences, SequencesExt

CONSTANTS ListIds, NodeIds

VARIABLES contents,  \* the nodes of each list, head first
          answer     \* what the last operation returned: a node, or <<>>

lvars == <<contents, answer>>

Listed == UNION {ToSet(contents[l]) : l \in ListIds}

ListsInit == contents = [l \in ListIds |-> <<>>] /\ answer = <<>>

Push(l, n) ==
  /\ n \notin Listed
  /\ contents' = [contents EXCEPT ![l] = <<n>> \o @]
  /\ answer' = <<>>

PutLast(l, n) ==
  /\ n \notin Listed
  /\ contents' = [contents EXCEPT ![l] = Append(@, n)]
  /\ answer' = <<>>

PopFirst(l) ==
  IF contents[l] = <<>>
  THEN answer' = <<>> /\ UNCHANGED contents
  ELSE /\ answer' = <<Head(contents[l])>>
       /\ contents' = [contents EXCEPT ![l] = Tail(@)]

\* The node at place i of list l.
Unlink(l, i) ==
  /\ contents' = [contents EXCEPT ![l] = RemoveAt(@, i)]
  /\ answer' = <<>>

ListsNext ==
  \E l \in ListIds :
    \/ PopFirst(l)
    \/ \E n \in NodeIds : Push(l, n) \/ PutLast(l, n)
    \/ \E i \in DOMAIN contents[l] : Unlink(l, i)

ListsSpec == ListsInit /\ [][ListsNext]_lvars
=============================================================================
