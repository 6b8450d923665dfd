----------------------------- MODULE MCLinkedList ---------------------------
(***************************************************************************)
(* Two lists and three nodes: insertion and removal at either end and in   *)
(* the middle, and nodes that move between the lists with stale links.     *)
(***************************************************************************)
EXTENDS LinkedList
=============================================================================
