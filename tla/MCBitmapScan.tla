--------------------------- MODULE MCBitmapScan ---------------------------
(***************************************************************************)
(* Every bitmap of 3 bytes of 3 bits and every request of 0 to 10 bits: a  *)
(* run can cross one or two byte boundaries, a full byte can break a run,  *)
(* and a request can be longer than the map.                               *)
(***************************************************************************)
EXTENDS BitmapScan
=============================================================================
