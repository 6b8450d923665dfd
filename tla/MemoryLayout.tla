---------------------------- MODULE MemoryLayout ----------------------------
(***************************************************************************)
(* How the kernel finds its memory and divides it: the loader stores the   *)
(* BIOS's E820 map at 0x800 (boot/loader.asm), init_memory adds up the     *)
(* usable ranges and cuts the sum into three pools of frames and four      *)
(* bitmaps (kernel/memory/memory.c).  Memory sizes and frame addresses are *)
(* in KB, bitmap addresses in bytes.                                       *)
(***************************************************************************)
EXTENDS Integers, Sequences

CONSTANTS
  Maps,       \* the E820 maps the BIOS can return, sequences of ranges
  KernelEnds, \* the physical address of _end
  Word,       \* 2^64
  Word32      \* 2^32

PAGE_SIZE == 2048        \* 2 MB
PAGE_SIZE_4K == 4        \* 4 KB
BITMAP_4K_ADDR == 32768  \* 0x8000
IDT_ADDR == 65536        \* 0x10000, written by init_intr later

\* A range: start, size and type (1 usable, 2 to 4 not, others not known).
Ranges == [start : Nat, size : Nat, type : Nat]

ASSUME MapsAssumption == \A m \in Maps : m \in Seq(Ranges) /\ m # <<>>
ASSUME LayoutAssumption ==
  /\ KernelEnds \subseteq Nat /\ Word \in Nat \ {0} /\ Word32 \in Nat \ {0}

Zero == [start |-> 0, size |-> 0, type |-> 0]

VARIABLES
  map,     \* what the BIOS knows
  stored,  \* the ranges at 0x800; the memory behind them is zero
  mem,     \* the index of init_memory's loop
  phy_memory_size,
  end,     \* the physical address of _end
  pc

vars == <<map, stored, mem, phy_memory_size, end, pc>>

Init ==
  /\ map \in Maps /\ end \in KernelEnds
  /\ stored = <<>> /\ mem = 1 /\ phy_memory_size = 0
  /\ pc = "e820"

\* One int 15h of get_mem_size; ebx is 0 after the last range.
GetMemSize ==
  /\ pc = "e820"
  /\ stored' = Append(stored, map[Len(stored) + 1])
  /\ pc' = IF Len(stored') = Len(map) THEN "scan" ELSE "e820"
  /\ UNCHANGED <<map, mem, phy_memory_size, end>>

Entry == IF mem <= Len(stored) THEN stored[mem] ELSE Zero

\* A slip: ranges of every known type are counted.
CountsAnyType(range) == range.type \in 1 .. 4

Counts(range) == range.type = 1

\* A slip: the pointer moves on by two ranges.
AddRangeSkips ==
  /\ pc = "scan" /\ Entry.type \in 1 .. 4 /\ Entry.size # 0
  /\ phy_memory_size' = phy_memory_size + Entry.size
  /\ mem' = mem + 2
  /\ UNCHANGED <<map, stored, end, pc>>

\* The while loop of init_memory.
AddRange ==
  /\ pc = "scan" /\ Entry.type \in 1 .. 4 /\ Entry.size # 0
  /\ phy_memory_size' = IF Counts(Entry) THEN phy_memory_size + Entry.size
                                         ELSE phy_memory_size
  /\ mem' = mem + 1
  /\ UNCHANGED <<map, stored, end, pc>>

EndScan ==
  /\ pc = "scan" /\ ~(Entry.type \in 1 .. 4 /\ Entry.size # 0)
  /\ pc' = "done"
  /\ UNCHANGED <<map, stored, mem, phy_memory_size, end>>

Done == pc = "done" /\ UNCHANGED vars

Next == GetMemSize \/ AddRange \/ EndScan \/ Done
Spec == Init /\ [][Next]_vars
-----------------------------------------------------------------------------
(* The division, for a memory of `phys` KB and a kernel that ends at `e`.  *)

\* A slip: the mask without the addition.
AlignDown(a) == (a \div PAGE_SIZE) * PAGE_SIZE

AlignUp(a) == ((a + PAGE_SIZE - 1) \div PAGE_SIZE) * PAGE_SIZE
TotalPages(phys, e) == ((phys - AlignUp(e)) % Word) \div PAGE_SIZE

\* Slips: the 4 KB pool's share is not taken off; bits are taken for bytes.
Pages2MWhole(n) == (n - 1) % Word
BytesOfBits(bits) == bits

Pages4K(n) == (n \div 4) * (PAGE_SIZE \div PAGE_SIZE_4K)
Pages2M(n) == (n - (n \div 4) - 1) % Word

\* A slip: the user pool gets the larger half.
UserPagesMore(n) == Pages2M(n) - Pages2M(n) \div 2

UserPages(n) == Pages2M(n) \div 2
CorePages(n) == Pages2M(n) - UserPages(n)
Bytes(bits) == (bits \div 8) % Word32

\* The pools: addr_start, and the first address behind pool_size pages.
UserStart(e) == AlignUp(e)
CoreStart(n, e) == UserStart(e) + UserPages(n) * PAGE_SIZE
Start4K(n, e) == CoreStart(n, e) + CorePages(n) * PAGE_SIZE
End4K(n, e) == Start4K(n, e) + Pages4K(n) * PAGE_SIZE_4K

\* The bitmaps, one behind the other: 4K, user, core, virtual.
BitmapUser(n) == (BITMAP_4K_ADDR + Bytes(Pages4K(n))) % Word32
BitmapCore(n) == BitmapUser(n) + Bytes(UserPages(n))
BitmapVirt(n) == BitmapCore(n) + Bytes(CorePages(n))
BitmapEnd(n) == BitmapVirt(n) + Bytes(CorePages(n))
BitmapEnds(n) ==
  {BITMAP_4K_ADDR + Bytes(Pages4K(n)), BitmapCore(n), BitmapVirt(n), BitmapEnd(n)}
-----------------------------------------------------------------------------
pages == TotalPages(phy_memory_size, end)
EnoughRam == phy_memory_size \in AlignUp(end) + PAGE_SIZE .. Word - 1

\* The usable memory of a map, and maps whose usable ranges do not overlap.
Usable(range) == IF range.type = 1 THEN range.size ELSE 0
UsableRam(ranges) ==
  LET sum[n \in 0 .. Len(ranges)] ==
        IF n = 0 THEN 0 ELSE sum[n - 1] + Usable(ranges[n])
  IN  sum[Len(ranges)]

Behind(r, s) == s.start + s.size <= r.start
UsableApart ==
  \A i, j \in DOMAIN map :
    (i # j /\ map[i].type = 1 /\ map[j].type = 1) =>
      Behind(map[i], map[j]) \/ Behind(map[j], map[i])

\* init_memory counts every usable range of the map, however the BIOS orders
\* and splits it, as long as it meets no empty range and no range of a type it
\* does not know: such a range ends its loop.
CountsAllRam ==
  (pc = "done" /\ \A i \in DOMAIN map : map[i].type \in 1 .. 4 /\ map[i].size # 0) =>
    phy_memory_size = UsableRam(map)

\* The pools follow each other without overlap, begin behind the kernel, and
\* end within as much memory as was counted.
PoolsApart ==
  (pc = "done" /\ EnoughRam) =>
    /\ end <= UserStart(end) /\ UserStart(end) <= CoreStart(pages, end)
    /\ pages > 1 => CoreStart(pages, end) < Start4K(pages, end)
    /\ Start4K(pages, end) <= End4K(pages, end) /\ End4K(pages, end) <= phy_memory_size

\* When one usable range holds the kernel and everything above it, every frame
\* of every pool is usable memory: the ranges below 1 MB make up for the hole.
PoolsInRam ==
  (pc = "done" /\ EnoughRam /\ UsableApart) =>
    \A i \in DOMAIN map :
      (/\ map[i].type = 1 /\ map[i].start <= end
       /\ \A j \in DOMAIN map \ {i} : map[j].type = 1 => Behind(map[i], map[j]))
      => End4K(pages, end) <= map[i].start + map[i].size

\* No bitmap has a bit for a page its pool does not have.
BitmapsFitPools ==
  (pc = "done" /\ EnoughRam) =>
    /\ 8 * Bytes(Pages4K(pages)) <= Pages4K(pages)
    /\ 8 * Bytes(UserPages(pages)) <= UserPages(pages)
    /\ 8 * Bytes(CorePages(pages)) <= CorePages(pages)

\* Up to 2031 pages (4 GB) the bitmaps end before the table of interrupt gates that
\* init_intr builds at 0x10000 afterwards.
BitmapsBelowIdt ==
  (pc = "done" /\ EnoughRam /\ pages <= 2031) => BitmapEnd(pages) <= IDT_ADDR
=============================================================================
