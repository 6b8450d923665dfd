------------------------------- MODULE PagePool -------------------------------
(***************************************************************************)
(* What the page allocator promises its clients, without bitmaps, page     *)
(* table or the steps of a call: an allocation gives a run of virtual      *)
(* pages nobody holds, each with a frame nobody holds; no page a client    *)
(* holds changes its frame until that client frees it.  The promise ends   *)
(* when an allocation finds nothing free, which the code does not report.  *)
(***************************************************************************)
EXTENDS Integers

CONSTANTS
  Handles,  \* the pointers a client can hold
  VPages,   \* the virtual pages
  Frames,   \* the frames
  Extents,  \* the runs that can be asked for
  Pages(_), \* the pages of a run
  Nil       \* a NULL pointer

VARIABLES
  ptr,    \* the run each pointer addresses
  frame,  \* the frame of each page held
  failed  \* an allocation has found nothing free

vars == <<ptr, frame, failed>>

Live == {h \in Handles : ptr[h] # Nil}
Held == UNION {Pages(ptr[h]) : h \in Live}

Init ==
  /\ ptr = [h \in Handles |-> Nil]
  /\ frame = [v \in {} |-> Nil]
  /\ failed = FALSE

\* page_alloc: every page keeps its frame, and no frame has two pages.
Alloc(h) ==
  /\ ptr[h] = Nil /\ ~failed'
  /\ \E e \in Extents :
       /\ Pages(e) \cap Held = {}
       /\ ptr' = [ptr EXCEPT ![h] = e]
       /\ DOMAIN frame' = Held \cup Pages(e)
  /\ \A v \in Held : frame'[v] = frame[v]
  /\ \A v \in DOMAIN frame' : frame'[v] \in Frames
  /\ \A v, w \in DOMAIN frame' : v # w => frame'[v] # frame'[w]

\* page_free
Free(h) ==
  /\ ptr[h] # Nil /\ ~failed'
  /\ ptr' = [ptr EXCEPT ![h] = Nil]
  /\ frame' = [v \in Held \ Pages(ptr[h]) |-> frame[v]]

\* Nothing was free; from here on nothing is promised.
RunOut == failed'

Next == (\E h \in Handles : Alloc(h) \/ Free(h)) \/ RunOut

Spec == Init /\ [][Next]_vars
=============================================================================
