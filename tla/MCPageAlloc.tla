----------------------------- MODULE MCPageAlloc ----------------------------
(***************************************************************************)
(* Three clients, four pages of which the bitmap of one 3-bit byte covers  *)
(* three, runs of one or two pages, two page directories.  The loader has  *)
(* mapped the first virtual page of the pool; the second directory is      *)
(* absent.                                                                 *)
(***************************************************************************)
EXTENDS PageAlloc, TLC

HandleSymmetry == Permutations(Handles)
=============================================================================
