------------------------------ MODULE MCKmalloc -----------------------------
(***************************************************************************)
(* Four pages of 8 units, slabs of 2 units (3 blocks a page) and 4 units   *)
(* (1 block a page).  Both caches can grow by a slab, give it back, and    *)
(* the page can come back as a slab of the other size or as a plain page.  *)
(* The sizes asked for lie on both sides of every limit: of the two kinds  *)
(* of block, of a page of its own, and of what is refused.                 *)
(***************************************************************************)
EXTENDS Kmalloc

MCSlabSize == [c \in 0 .. 1 |-> 2 * 2 ^ c]
=============================================================================
