-------------------------------- MODULE Heap --------------------------------
(***************************************************************************)
(* What kmalloc and kfree promise a client: a request of up to Largest is  *)
(* granted, and the pointer addresses an extent of its own, at least as    *)
(* long as what was asked for and aligned to its own length; a larger      *)
(* request is refused.  What was asked for is part of the state, so that   *)
(* an implementation must show it and cannot choose it.  Nothing is        *)
(* promised once the kernel has run out of pages: the code does not        *)
(* notice.                                                                 *)
(***************************************************************************)
EXTENDS Integers

CONSTANTS
  Limit,   \* addresses are below Limit
  Sizes,   \* the sizes clients ask for
  Largest  \* the largest of them that is granted

VARIABLES
  live,    \* the extents clients hold
  asked,   \* the size the last call asked for, 0 if it gave back
  broken   \* an allocation found no page

hvars == <<live, asked, broken>>

Cells(e) == e.addr .. (e.addr + e.len - 1)
Disjoint(e, f) == Cells(e) \cap Cells(f) = {}

HeapInit == live = {} /\ asked = 0 /\ broken = FALSE

HeapAlloc(size) ==
  /\ ~broken /\ size <= Largest /\ asked' = size
  /\ \E e \in live' \ live :
       /\ live' = live \cup {e}
       /\ e.addr \in 0 .. Limit /\ e.len \in 1 .. Limit
       /\ e.addr + e.len <= Limit
       /\ e.len >= size /\ e.addr % e.len = 0
       /\ \A f \in live : Disjoint(e, f)
  /\ UNCHANGED broken

HeapRefuse(size) == size > Largest /\ asked' = size /\ UNCHANGED <<live, broken>>

HeapFree ==
  /\ ~broken
  /\ \E e \in live : live' = live \ {e}
  /\ asked' = 0 /\ UNCHANGED broken

HeapBreak(size) == broken' = TRUE /\ asked' = size /\ UNCHANGED live

HeapNext ==
  \/ HeapFree
  \/ \E size \in Sizes : HeapAlloc(size) \/ HeapRefuse(size) \/ HeapBreak(size)

HeapSpec == HeapInit /\ [][HeapNext]_hvars

\* No two pointers a client holds overlap.
NoOverlap == \A e, f \in live : e # f => Disjoint(e, f)
=============================================================================
