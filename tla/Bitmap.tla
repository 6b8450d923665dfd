------------------------------- MODULE Bitmap -------------------------------
(***************************************************************************)
(* kernel/lib/bitmap.c and bitmap_alloc of kernel/memory/memory.c, as      *)
(* operators on the set `used` of the indices whose bit is 1.  `bits` is   *)
(* the number of bits the map has, bmp_bytes_len * 8.                      *)
(*                                                                         *)
(* Scan is what bitmap_scan promises; that the byte-wise loop of the code  *)
(* computes it is shown in BitmapScan.                                     *)
(***************************************************************************)
EXTENDS Integers

NotFound == -1

-----------------------------------------------------------------------------
(* Slips of the code that the checks must notice. *)

\* The last bit of the run is not looked at.
RunFreeShort(used, bits, start, cnt) ==
  /\ start + cnt <= bits
  /\ start \notin used

\* Only the first bit of the run is cleared.
ConClearFirst(used, bits, idx, cnt) ==
  IF idx + cnt > bits THEN used ELSE used \ {idx}
-----------------------------------------------------------------------------
\* The cnt bits from `start` on lie inside the map and are all 0.
RunFree(used, bits, start, cnt) ==
  /\ start + cnt <= bits
  /\ \A i \in start .. (start + cnt - 1) : i \notin used

FreeRuns(used, bits, cnt) ==
  {s \in 0 .. (bits - 1) : RunFree(used, bits, s, cnt)}

\* bitmap_scan: the start of the first free run, -1 when there is none.
Scan(used, bits, cnt) ==
  LET runs == FreeRuns(used, bits, cnt)
  IN  IF cnt = 0 \/ runs = {}
      THEN NotFound
      ELSE CHOOSE s \in runs : \A t \in runs : s <= t

\* bitmap_con_set with value 1 and with value 0: nothing is written when the
\* range runs past the end of the map.
ConSet(used, bits, idx, cnt) ==
  IF idx + cnt > bits THEN used ELSE used \cup idx .. (idx + cnt - 1)

ConClear(used, bits, idx, cnt) ==
  IF idx + cnt > bits THEN used ELSE used \ (idx .. (idx + cnt - 1))

\* bitmap_alloc: a failed scan is reported as NULL, which is index 0.
AllocIndex(used, bits, cnt) ==
  LET index == Scan(used, bits, cnt)
  IN  IF index = NotFound THEN 0 ELSE index

AllocUsed(used, bits, cnt) ==
  LET index == Scan(used, bits, cnt)
  IN  IF index = NotFound THEN used ELSE ConSet(used, bits, index, cnt)

AllocFails(used, bits, cnt) == Scan(used, bits, cnt) = NotFound
=============================================================================
