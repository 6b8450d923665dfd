--------------------------------- MODULE Boot ---------------------------------
(***************************************************************************)
(* From power-on to the end of init_memory: the boot sector                *)
(* (boot/mbr.asm) reads the loader, the loader (boot/loader.asm) lists     *)
(* the memory, reads the kernel from the disk, builds the page tables and  *)
(* enters long mode, and init_memory scans the list, clears the bitmaps    *)
(* and takes a page for each slab cache.  The list of memory ranges, its   *)
(* scan and the division are those of MemoryLayout.                        *)
(*                                                                         *)
(* The BIOS and the drive are external.  A machine has at most one of      *)
(* these faults:                                                           *)
(*   read_fails  int 13h fails and sets the carry flag                     *)
(*   carry_ends  int 15h reports the end of the list by carry              *)
(*   drive_dies  the drive answers the command with an error               *)
(*   drive_waits the drive is busy again before every sector               *)
(*   ram_dirty   memory nobody has written yet is not zero                 *)
(*   interrupt   the BIOS has left interrupts enabled, and one arrives     *)
(* Neither boot stage has a cli, and init_idt comes after init_memory: in  *)
(* between only the BIOS decides whether a tick of its timer every 55 ms,  *)
(* or the drive's own interrupt, reaches a processor without gates.        *)
(***************************************************************************)
EXTENDS MemoryLayout, Bitmap, SequencesExt

CONSTANTS
  Faults,            \* the faults that may occur
  KERNEL_SECTOR_CNT, \* sectors of the kernel (100)
  SECTOR_SIZE        \* words of two bytes in a sector (256)

ASSUME FaultsAssumption ==
  Faults \subseteq
    {"none", "read_fails", "carry_ends", "drive_dies", "drive_waits", "ram_dirty",
     "interrupt"}
\* 100 sectors of 256 words: the sectors fit in al, the words in cx.
ASSUME DiskAssumption ==
  /\ KERNEL_SECTOR_CNT \in 1 .. 255 /\ SECTOR_SIZE \in Nat \ {0}
  /\ KERNEL_SECTOR_CNT * SECTOR_SIZE < 65536

VARIABLES
  fault,
  step,   \* what the machine executes
  drive,  \* the drive's status register
  taken,  \* words the drive has handed out
  loaded, \* the words in [ebx], as numbered on the disk
  tables, \* the entries in the page tables, by table and index
  caches  \* the virtual page of each slab cache's first slab, in order

bootVars == <<fault, step, drive, taken, loaded, tables, caches>>
allVars == <<vars, bootVars>>

\* "halted" is jmp $, "cleared" what follows when init_memory has cleared the page
\* tables, and "lost" anything else but the code as written.
Steps == {"mbr", "e820", "command", "poll", "read", "paging", "kernel",
          "halted", "cleared", "lost"}

\* Memory below 1 MB: the list grows towards the loader behind it.
PHY_MEM_SIZE == 2048          \* 0x800
LOADER_START_ADDRESS == 2304  \* 0x900
CODE_DESCRIPTOR == LOADER_START_ADDRESS + 44  \* GDT_BASE + 8

\* Slips: ranges of the longer format; the poll does not look, or looks too late.
RangeBytes24 == 24
DriveReadyAny(status) == status # "idle"
DriveReadyIdle(status) == status = "idle"

RangeBytes == 20
TableEnd == PHY_MEM_SIZE + RangeBytes * Len(stored)

BootInit ==
  /\ Init
  /\ fault \in Faults
  /\ step = "mbr" /\ drive = "idle" /\ taken = 0 /\ loaded = <<>>
  /\ tables = <<>> /\ caches = <<>>

-----------------------------------------------------------------------------
(* The boot sector and the list of memory.                                 *)

\* int 13h, then the jump, whatever it returned.
Mbr ==
  /\ step = "mbr"
  /\ step' = IF fault = "read_fails" THEN "lost" ELSE "e820"
  /\ UNCHANGED <<vars, fault, drive, taken, loaded, tables, caches>>

ListMemory ==
  /\ step = "e820" /\ GetMemSize
  /\ UNCHANGED bootVars

\* What follows the last range: one call more that sets the carry, or ebx = 0.
\* Thirteen to fifteen ranges cover the loader's first jump, its strings and
\* the null descriptor, which nobody reads again (what init_memory takes for a
\* further range there has no valid type); the sixteenth covers the
\* descriptors lgdt is about to load.
EndOfList ==
  /\ step = "e820" /\ pc = "scan"
  /\ step' = IF fault = "carry_ends" THEN "halted"
             ELSE IF TableEnd > CODE_DESCRIPTOR THEN "lost" ELSE "command"
  /\ UNCHANGED <<vars, fault, drive, taken, loaded, tables, caches>>

-----------------------------------------------------------------------------
(* The disk.                                                               *)

\* loop counts in ecx: its upper half is what the BIOS calls have left of the
\* 20 in get_mem_size, taken to be 0.
LoadCount == KERNEL_SECTOR_CNT * SECTOR_SIZE
OnDisk == [w \in 1 .. KERNEL_SECTOR_CNT * SECTOR_SIZE |-> w]
Garbage == 0   \* what the data port gives while the drive is not ready

Command ==
  /\ step = "command" /\ step' = "poll" /\ drive' = "busy"
  /\ UNCHANGED <<vars, fault, taken, loaded, tables, caches>>

\* The drive, at its own pace.
DriveAnswers ==
  /\ drive = "busy"
  /\ drive' = IF fault = "drive_dies" THEN "error" ELSE "data"
  /\ UNCHANGED <<vars, fault, step, taken, loaded, tables, caches>>

\* The bits 0x88 of the status are 0x08.
DriveReady(status) == status = "data"

Poll ==
  /\ step = "poll"
  /\ step' = IF DriveReady(drive) THEN "read" ELSE "poll"
  /\ UNCHANGED <<vars, fault, drive, taken, loaded, tables, caches>>

\* The drive's side of an in from the data port.
HandOut ==
  /\ taken' = taken + 1
  /\ drive' = IF taken' = Len(OnDisk) THEN "idle"
              ELSE IF taken' % SECTOR_SIZE = 0 /\ fault = "drive_waits" THEN "busy"
              ELSE "data"

\* One turn of load_to_mem; the status is not looked at again.
LoadToMem ==
  /\ step = "read" /\ Len(loaded) < LoadCount
  /\ \/ drive = "data" /\ HandOut /\ loaded' = Append(loaded, OnDisk[taken'])
     \/ drive # "data" /\ loaded' = Append(loaded, Garbage) /\ UNCHANGED <<taken, drive>>
  /\ UNCHANGED <<vars, fault, step, tables, caches>>

-----------------------------------------------------------------------------
(* The page tables: frames of 4 KB from PAGE_BASE, numbered from 0.        *)

SCREEN_FRAME == 1792  \* 0xe0000000, in frames of 2 MB
APIC_FRAME == 2038    \* 0xfec00000
None == [to |-> -1, large |-> TRUE]
Root == [to |-> 0, large |-> FALSE]

To(table) == [to |-> table, large |-> FALSE]
Frame(f) == [to |-> f, large |-> TRUE]

\* A slip: the table maps itself one entry lower.
RootEntriesLower == [i \in {0, 256, 510} |-> IF i = 510 THEN To(0) ELSE To(1)]

\* The entry 511 maps the tables themselves.
RootEntries ==
  [i \in {0, 256, 510, 511} |-> IF i = 511 THEN To(0) ELSE IF i = 510 THEN To(3) ELSE To(1)]
KernelFrames == [i \in 0 .. 4 |-> Frame(i)]
SystemFrames == [i \in {0, 1, 2, 8} |-> Frame(IF i = 8 THEN APIC_FRAME ELSE SCREEN_FRAME + i)]

PageTables ==
  <<RootEntries, [i \in {0} |-> To(2)], KernelFrames, [i \in {0} |-> To(4)], SystemFrames>>

\* The loader writes the low half of each entry.
SetPaging ==
  /\ step = "read" /\ Len(loaded) = LoadCount
  /\ tables' = PageTables /\ step' = "paging"
  /\ UNCHANGED <<vars, fault, drive, taken, loaded, caches>>

\* Long mode and the jump to the kernel's first byte.
EnterKernel ==
  /\ step = "paging"
  /\ step' = IF loaded = OnDisk /\ fault # "ram_dirty" THEN "kernel" ELSE "lost"
  /\ UNCHANGED <<vars, fault, drive, taken, loaded, tables, caches>>

\* The processor's walk along a sequence of indices, root first.
Follow(at, index) ==
  IF at.large THEN at
  ELSE IF index \in DOMAIN tables[at.to + 1] THEN tables[at.to + 1][index] ELSE None
Walk(path) ==
  LET at[n \in 0 .. Len(path)] == IF n = 0 THEN Root ELSE Follow(at[n - 1], path[n])
  IN  at[Len(path)]

\* The pointers that the kernel computes for an address, which is given by its
\* three indices: the entry, and the page it is on as the indices of that page.
GET_PML4E(path) == [page |-> <<511, 511, 511, 511>>, entry |-> path[1]]
GET_PDPTE(path) == [page |-> <<511, 511, 511, path[1]>>, entry |-> path[2]]
GET_PDE(path) == [page |-> <<511, 511, path[1], path[2]>>, entry |-> path[3]]
Pointed(pointer) == Follow(Walk(pointer.page), pointer.entry)

-----------------------------------------------------------------------------
(* init_memory, behind the loop over the list.                             *)

PAGE_BASE == 589824    \* 0x90000, the page tables
SLAB_CACHE_SIZE == 16

AddMemory == step = "kernel" /\ AddRange /\ UNCHANGED bootVars

\* The division and the four bitmap_init, which clear what is at the bitmaps'
\* addresses.
InitPools ==
  /\ step = "kernel" /\ EndScan
  /\ step' = IF \E e \in BitmapEnds(pages) : e > PAGE_BASE THEN "cleared" ELSE step
  /\ UNCHANGED <<fault, drive, taken, loaded, tables, caches>>

VirtBits == 8 * Bytes(CorePages(pages))

\* slab_init of one cache: its slab is page_alloc's of one page.
InitCache ==
  /\ step = "kernel" /\ pc = "done" /\ Len(caches) < SLAB_CACHE_SIZE
  /\ \E used \in {ToSet(caches)}, bits \in {VirtBits} :
       caches' = Append(caches, AllocIndex(used, bits, 1))
  /\ UNCHANGED <<vars, fault, step, drive, taken, loaded, tables>>

\* In protected and in long mode the BIOS's table serves no interrupt, and there
\* is no other yet.
BiosInterrupt ==
  /\ fault = "interrupt" /\ step \in {"command", "poll", "read", "paging", "kernel"}
  /\ Len(caches) < SLAB_CACHE_SIZE
  /\ step' = "lost"
  /\ UNCHANGED <<vars, fault, drive, taken, loaded, tables, caches>>

Stopped ==
  /\ step \in {"halted", "cleared", "lost"} \/ Len(caches) = SLAB_CACHE_SIZE
  /\ UNCHANGED allVars

BootStep ==
  \/ Mbr \/ ListMemory \/ EndOfList \/ Command \/ Poll \/ LoadToMem
  \/ SetPaging \/ EnterKernel \/ AddMemory \/ InitPools \/ InitCache

BootNext == BootStep \/ DriveAnswers \/ BiosInterrupt \/ Stopped
BootSpec == BootInit /\ [][BootNext]_allVars

\* The processor goes on, and the drive answers in the end.
FairBootSpec == BootSpec /\ WF_allVars(BootStep) /\ WF_allVars(DriveAnswers)

-----------------------------------------------------------------------------
(* Properties.                                                             *)

\* A machine without a fault of its own, which takes no interrupt, never runs
\* the loader into memory its own list of ranges has destroyed, as long as the
\* BIOS reports at most fifteen: the list grows over the loader writing it.
LoaderSurvives ==
  (fault \in {"none", "carry_ends", "drive_dies"} /\ Len(map) <= 15) => step # "lost"

\* After its single poll the loader reads every word of the kernel once and in
\* order, if the drive keeps up with it.
KernelWhole ==
  (step \in {"paging", "kernel"} /\ fault # "drive_waits") => loaded = OnDisk

\* Every address the kernel uses is mapped where it must be: its image in the
\* high half, low memory (bitmaps, stack, IDT), the screen, the I/O APIC; and
\* GET_PML4E, GET_PDPTE and GET_PDE point to the entries the processor uses.
KernelSees ==
  step = "kernel" =>
    LET image == {<<256, 0, k>> : k \in 0 .. (end - 1) \div PAGE_SIZE}
        screen == {<<510, 0, k>> : k \in 0 .. 2}
        used == image \cup screen \cup {<<0, 0, 0>>, <<510, 0, 8>>}
    IN  /\ \A path \in image \cup {<<0, 0, 0>>} : Walk(path) = Frame(path[3])
        /\ \A path \in screen : Walk(path) = Frame(SCREEN_FRAME + path[3])
        /\ Walk(<<510, 0, 8>>) = Frame(APIC_FRAME)
        /\ \A path \in used :
             /\ Pointed(GET_PML4E(path)) = Walk(SubSeq(path, 1, 1))
             /\ Pointed(GET_PDPTE(path)) = Walk(SubSeq(path, 1, 2))
             /\ Pointed(GET_PDE(path)) = Walk(path)

\* The sixteen caches of init_memory get pages of their own, inside their pool,
\* from 42 pages (84 MB) behind the kernel on: the shares of the division and
\* the bitmap, which is cut to whole bytes, leave sixteen to them.  (From 2^32
\* pages on the bitmap's size may be cut to fewer.)
CachesApart ==
  (EnoughRam /\ pages \in 42 .. Word32) =>
    /\ \A i, j \in DOMAIN caches : i # j => caches[i] # caches[j]
    /\ \A i \in DOMAIN caches : caches[i] < CorePages(pages)

\* A machine without a fault that takes no interrupt on the way, with at most
\* fifteen ranges and from one to 34515 pages (67 GB) behind the kernel, comes to
\* the end of init_memory: no loop of the stages waits for what has passed.
\* With more pages the bitmaps reach the page tables.
ReachesKernel ==
  (fault = "none" /\ Len(map) <= 15) =>
    <>(\/ Len(caches) = SLAB_CACHE_SIZE
       \/ pc = "done" /\ ~(EnoughRam /\ pages <= 34515))
=============================================================================
