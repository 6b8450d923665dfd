-------------------------------- MODULE MCBoot --------------------------------
(***************************************************************************)
(* PC memory maps in KB: usable memory below the BIOS area, a reserved     *)
(* range, usable memory from 1 MB on, and behind it nothing, an ACPI range,*)
(* a range of unknown type, a second usable range above a hole, or as many *)
(* small reserved ranges as reach the loader and go beyond it.  The sizes  *)
(* are less than the kernel, around the 42 pages the caches need, up to    *)
(* the 2031 pages at which the bitmaps meet the gates, and around the      *)
(* 34515 at which they meet the page tables.  A kernel of two sectors of   *)
(* two words.  As with 2^64 and 2^32, a wrapped number of pages has a 4 KB *)
(* bitmap of the smaller word's size, less the shortage.                   *)
(***************************************************************************)
EXTENDS Boot

R(start, size, type) == [start |-> start, size |-> size, type |-> type]

Low == <<R(0, 639, 1), R(639, 1, 2), R(960, 64, 2)>>

Tops(size) ==
  {<<>>,
   <<R(1024 + size, 64, 3)>>,
   <<R(1024 + size, 64, 5), R(1088 + size, 4096, 1)>>,
   <<R(1024 + size, 2048, 2), R(3072 + size, 40000, 1)>>}

Many(size, n) == [i \in 1 .. n |-> R(1024 + size + 8 * i, 8, 2)]

HighSizes ==
  {2000, 3072, 5119, 5120, 7168} \cup {2048 * k + 1024 : k \in 36 .. 52}
  \cup {65536 * k + 448 : k \in {2, 8, 33, 63}} \cup {2048 * k : k \in 2028 .. 2034}

HugeSizes == {2048 * 34517, 2048 * 34518}

LongSizes == {7168, 65536 * 2 + 448}

MCMaps ==
  UNION {{Low \o <<R(1024, size, 1)>> \o top : top \in Tops(size)} : size \in HighSizes}
  \cup {Low \o <<R(1024, size, 1)>> : size \in HugeSizes}
  \cup {Low \o <<R(1024, size, 1)>> \o Many(size, n) : size \in LongSizes, n \in 8 .. 14}
=============================================================================
