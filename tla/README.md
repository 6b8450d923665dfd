# 64b-OperatingSystem in TLA+

Specifications, model-checking runs and proofs for the kernel in `src/`: a small
x86-64 operating system in C and assembly that boots from a BIOS disk, sets up
memory, interrupts, a timer, a keyboard and a text console, and then idles.
Source references are `file:line` under `src/` (kernel files without `kernel/`
and the directory where the name is unique, e.g. `memory.c:134`).

## 1. Inventory

### Components, their state and their operations

| Component | Source | State | Operations |
|---|---|---|---|
| bitmap | `lib/bitmap.c` | bytes and their number | `bitmap_init`, `bitmap_set`, `bitmap_con_set`, `bitmap_scan` |
| page allocator | `memory/memory.c` | four pools (bitmap, size, start), page table, TLB | `page_alloc`, `page_free` over `valloc`, `vfree`, `palloc`, `pfree`, `page_table_add`, `page_table_remove`, `bitmap_alloc` |
| slab caches | `memory/slab.c`, end of `memory.c` | 16 caches with a list of slabs; in each slab a free list, counters, a magic number | `slab_create`, `slab_init`, `slab_alloc`, `slab_free`, `kmalloc`, `kfree` |
| linked list | `lib/linkedlist.c` | `prev` and `next` of nodes and sentinels | `list_init`, `insert_before`, `list_remove`, `list_push`, `list_append`, `list_pop`, walks |
| memory layout | `loader.asm`, `init_memory` | the E820 table at 0x800, pool and bitmap addresses | the int 15h loop, the adding loop, the division |
| interrupts | `interrupt/*.c`, `idt.asm` | gates, handler table, local APIC, I/O APIC pins, `temp` | `init_intr`, `register_rte`, `register_handler`, `isr_common_handler`, `general_IRQ_handler` |
| timer | `device/timer.c` | - | `init_timer`, `timer_handler` |
| keyboard | `device/keyboard.c` | five flags; port 0x60 | `init_keyboard`, `keyboard_intr_handler` |
| console | `console/console.c` | cursor, `print_buffer`, frame buffer | `print`, `put_char`, `clear_console`, ... |
| formatting | `lib/string.c` | - | `vsprintf`, `itoa`, `ulltoa` |
| boot | `boot/*.asm` | real and protected mode, page tables | load the loader, load the kernel, enter long mode |

### How they interact

* `main` calls `init_console`, `init_memory`, `init_intr`, `enable_intr`,
  `init_device`, prints and idles. Up to `enable_intr` this is sequential if no
  interrupt arrives, which nothing in the repository ensures: neither boot stage
  has a `cli`, the gates come with `init_idt` (`intr.c:140`), and the 8259 is masked
  only in `init_apic` (`apic.c:65`). Whether IF is set in between is the BIOS's
  choice; see `Boot` in section 2.
* `kmalloc` calls the slab caches, they call the page allocator, and that calls
  the bitmaps and writes the page table. Slab headers and free-list nodes live
  inside the pages themselves, so freed memory keeps stale contents.
* From `enable_intr` on, handlers run between any two instructions of the
  kernel, on the kernel's own stack (IST 0). They share the cursor and
  `print_buffer` with it, and the handler table while `init_device` fills it.
* The loader hands over the E820 table at 0x800, and the page tables at 0x90000.
  The bitmaps are put at 0x8000 and the gates at 0x10000.

### What is hard

There is one CPU, no scheduler and nothing persistent: no crash recovery and no
message loss. What can fail is the machine around the loader: the BIOS's read,
the end of its memory list, the drive, an interrupt the BIOS left enabled. What
is hard is

1. interrupts between any two steps of the kernel (`Interrupts`, `Console`),
2. edges that are lost while a pin is masked or a byte is unread (`Interrupts`),
3. several pieces of state that must stay in step without a check: two bitmaps
   and the page table (`PageAlloc`); lists, counters and magic numbers
   (`Kmalloc`); a prefix flag and a byte stream (`Keyboard`),
4. stale state: TLB entries that no `invlpg` ever removes, slab headers of freed
   pages,
5. limits without error paths: full pools, the end of the screen, the space
   between the bitmaps and the gates, the space between the memory list and the
   loader,
6. a loader that asks the hardware once and then trusts it (`Boot`),
7. digits and signs at the ends of the integers' range (`Format`).

The `hazards` of `PROJECT.json` list them line by line, with the properties that
would notice, or why none does.

### What makes each component correct

* bitmap: a scan returns the first free run, or says that there is none.
* page allocator: one owner per page and frame; bitmaps that equal what is held;
  held pages stay mapped to their frame, a frame of the core pool; stale
  translations of `page_free` do no harm.
* kmalloc: pointers address disjoint extents, each of the size asked for; every block is
  free or held; empty slabs go back; `kfree` finds the right allocator.
* lists: each is one chain, both ways, with exactly the nodes put on it.
* layout: pools and bitmaps are disjoint, in memory that exists.
* boot: the loader survives, the kernel arrives whole, in order and mapped where
  it was linked, and starts.
* formatting: the text means what format and arguments say, its length is exact,
  the local arrays suffice.
* interrupts: one handler at a time, EOIs that match, start-up that ends, events
  that are served.
* keyboard: flags agree with the keys, prefixes with their bytes, case with Shift.
* console: the cursor returns to the screen, writes stay in mapped memory.

## 2. Modules

| Module | What it is |
|---|---|
| `Bitmap` | operators: `Scan`, `ConSet`, `ConClear`, `AllocIndex`, over the set of used indices |
| `BitmapScan` | the byte-wise loop of `bitmap_scan`, step by step, against `Scan` |
| `PagePool` | abstract: a pool of pages backed by frames, as clients see it |
| `PageAlloc` | the page allocator with page table and TLB; implements `PagePool`; extends `Bitmap` |
| `Heap` | abstract: what `kmalloc` and `kfree` promise |
| `Kmalloc` | `kmalloc`, `kfree` and the slab caches; implements `Heap`; extends `Bitmap` |
| `Lists` | abstract: sequences of nodes, a node on at most one |
| `LinkedList` | the pointers of `linkedlist.c`; implements `Lists` |
| `MemoryLayout` | E820 table, memory size, pools and bitmaps |
| `Boot` | boot sector, loader and `init_memory` in one behaviour; extends `MemoryLayout` |
| `Interrupts` | start-up, interrupt controller, dispatch, timer and keyboard as sources |
| `Keyboard` | scan codes to characters and flags |
| `Console` | the kernel's prints, one memory access at a time, against handlers |
| `Format` | `vsprintf`, `itoa`, `ulltoa` and `reverse`, loop by loop, against a definition of the text |

`MC*` modules and their `.cfg` files instantiate them for TLC; `*_proofs` modules
hold the theorems: `Bitmap_proofs` (lemmas about natural numbers and about the
operators of `Bitmap`, which the others use), `PageAlloc_proofs`, `Kmalloc_proofs`
(with those of `Heap`), `Lib_proofs` (of `BitmapScan` and `LinkedList`),
`Boot_proofs` (of `MemoryLayout` and `Boot`), `Drivers_proofs` (of `Interrupts`
and `Keyboard`), `Console_proofs` and `Format_proofs`. Definitions under the heading "Slips" are mutated forms of the
definition of a similar name. They are part of no specification: they show
that a property notices such a slip.

### How state and actions correspond to the code

**PageAlloc.** `virt`, `core` and `pool4k` are the bitmaps of `pool_virt`,
`pool_core_2m` and `pool_4k` as sets of indices; `pdpt`, `pde` and `present` the
page table; `tlb` the processor's cache of the pool's pages. `page_alloc` is `PageAllocBegin` (valloc)
and one `PageAllocMap` (palloc, page_table_add) per page, so that the states
between the pages are visible; `page_free` is one action. Index 0 for a failed
scan is kept: `exhausted` remembers that it happened. `page_table_remove` leaves
`tlb` alone because `invlpg %0` with an `"m"(vaddr)` operand names the stack
variable (`memory.c:242`), and so does `page_table_add`, which has none. The
processor may `Cache` any present entry and `Evict` any translation at any time:
speculation needs no access by the page's holder. So for a page below
`LoaderSlots` it may hold the loader's translation, which `page_table_add`
overwrites (`memory.c:232`), and for a page of a new directory a word of `Garbage`,
read between the link and the `memset` (`memory.c:228-229`). `Foreign(v)` is the set of
these; the two properties of the TLB say that nothing else goes wrong. `OnePml4Entry`
states that the pool lies under the PML4 entry the loader filled, so the branch at
`memory.c:221` is not taken; it would need memory beyond 512 GB. `multi` remembers that a run of several pages was
asked for. Calls do not overlap: nothing in a handler allocates. `heldFrame`
maps the state to that of `PagePool`: the frames of the pages that clients hold;
what a call in progress has mapped is not yet visible there.

**Kmalloc.** Addresses are in units; a page's `header` is what its first
bytes read as, were they a `Slab`, and survives `page_free`. Clients do not write:
a client that puts `SLAB_MAGIC` at the start of a page it holds whole would send
`kfree` to `slab_free` (`memory.c:334`), and is assumed away. `asked` is the size the last
call asked for, which `Heap` has as well: the refinement cannot choose it, so a class
that is too small for the request is noticed. `kmalloc` splits into
a page of its own, a block, a block of a new slab, and NULL. Only requests of one
page reach the page allocator, where virtual and core bitmaps stay in step
(`PageAlloc!Accounting`), so one set `used` stands for both. When no page
is left the code would overwrite a page in use; the model stops there (`broken`).
`SlabSize` is the table of block sizes that `init_memory` fills, each twice the
one before.

**LinkedList.** `next` and `prev` of every cell; sentinels are the cells
`<<"head", l>>` and `<<"tail", l>>`. `on` is history: the preconditions of the
callers (a node is pushed only when it is on no list). `Walk` is what `list_find`
and `list_len` see: it follows `next` from the head to the tail, and it is the
refinement mapping to the sequences of `Lists`.

**MemoryLayout.** `GetMemSize` is one int 15h, `AddRange` one turn of the loop of
`init_memory`; the division is operators over the counted size and `_end`.
Subtractions of unsigned numbers wrap at `Word`, the sizes of the bitmaps, which
are `uint32_t`, and the sum of the first at `Word32`.

**Boot.** `step` is what the machine executes. `ListMemory` is `GetMemSize` of
`MemoryLayout`, `AddMemory` and `InitPools` its scan, so `Boot` refines it. `EndOfList` decides
whether the table at 0x800 has grown over the descriptors at 0x92c before `lgdt`
reads them (thirteen to fifteen ranges cover only bytes of the loader that are
not read again). `Poll` is the loop at `.is_ready`, `LoadToMem` one `in`, which
does not look at the status: a drive that is not ready gives `Garbage`. `tables`
are the five page tables as functions from index to entry; `Walk` is the
processor's walk, and `GET_PML4E`, `GET_PDPTE`, `GET_PDE` are the macros of
`memory.h` as the indices their masks amount to. `fault` chooses what is wrong
with the machine, at most one thing; `lost` is where the code leaves its own text. The fault
`interrupt` is the BIOS that enters the boot sector with interrupts enabled: from the
moment protected mode is on (`loader.asm:113`) `BiosInterrupt` may end the boot,
because there are no gates. With such a BIOS the timer ticks every 55 ms, so the
boot succeeds only by luck; what the properties say of a machine without a fault is
said of one that takes no interrupt on the way.
`InitPools` clears the four bitmaps; when one of them reaches the page tables at
0x90000 what follows is left open (`cleared`). `InitCache` is `slab_init` of one
cache as far as the virtual bitmap shows: `caches` are the pages, whose contents
`Kmalloc` models.

**Format.** A job is one call; a format is given as its pieces (a character, or a
conversion with its argument), which `FormatText` turns into the characters the
code reads; `Meanings` is the text of each piece, by the positions of its numeral
and without the loops. `JobsAssumption` says what a caller must respect: a
character, a C string or a number of the conversion's type for each piece. A lone
`%` is a piece at the end only, where it makes the code read past the terminator;
anywhere else it is a conversion together with what follows. One action is one turn of a loop or one case of the switch. Text is
appended to `str`; the capacity of the buffer is left to `Console`. `%c` takes any
int and keeps the char (`AsChar`, `string.c:103`).

**Interrupts.** It begins at `init_apic` with IF clear, which is again the BIOS's doing
and an assumption of the model: `enable_intr` itself tests IF (`intr.c:212`).
`pc` is the kernel's place in `init_intr` .. `main`, `cur` and
`stage` the handler's place in `isr_common_handler`. `irr` and `isr` are the local
APIC's registers, `masked` the pins, `obf` the keyboard controller's output
buffer. `register_handler` is two steps, `Spill` and `Store`, because the
compiled leaf function keeps its argument below `rsp` (`CFLAGS` has neither `-O`
nor `-mno-red-zone`) and an interrupt frame pushed in between overwrites it.

**Keyboard.** The keyboard is external: it appends the bytes of key events to
`wire`; the handler consumes one byte per step. Each byte carries what the keys
meant when it was sent, for the properties only.

**Console.** The kernel's call advances `pc` by one load, store or test of the
shared cursor; a handler's `put_char` is one step because handlers are not
interrupted. `print_color` is called by `general_IRQ_handler` only (`intr.c:148`, `154`), so
it appears as a handler's print; that it reads each character up to three times
(`console.c:132`) makes no difference with interrupts off. `rx`, `ry` are registers and locals, `top` the highest pixel written.

## 3. Runs

Bounds are in the `.cfg` files and in the comments of the `MC` modules.

| Run | Shows | Why the bounds are enough |
|---|---|---|
| `bitmap_scan` | `FindsFirstRun`, `Terminates` | three bytes of three bits, requests up to ten: runs across one and two byte borders, skipped bytes in every place, requests longer than the map |
| `page_alloc` | `SoleOwner`, `Accounting`, `CoherentWhileSingle`, `PoolConfined`, `TablesApart`, `ImplementsPool` | three clients, three allocatable pages of four, runs of one or two, two page directories of which one is absent: fragmentation, frames out of order, exhaustion, a new directory; one page below `LoaderSlots`, and `Garbage` of one frame outside the pool: stale translations of every kind |
| `kmalloc` | `BlocksPartition`, `ListedIffFree`, `CountersExact`, `KfreeDispatch`, `NoHoarding`, `ImplementsHeap` | four pages, a class of three blocks a page and one of one block: slabs become full, partly free, empty, and their page returns as another kind; requests of 0, of each class, one more, a page and more than a page |
| `linked_list` | `WellLinked`, `ImplementsLists` | three nodes: insertion and removal at the ends and in the middle |
| `boot` | `LoaderSurvives`, `KernelWhole`, `KernelSees`, `ReachesKernel`, `CachesApart`, `CountsAllRam`, `PoolsApart`, `PoolsInRam`, `BitmapsBelowIdt` | actual sizes in KB, chosen around every remainder and the limits of 42 (`CachesApart`), 2031 (`BitmapsBelowIdt`) and 34515 pages (`ReachesKernel`), and smaller than the kernel, where the sizes wrap; lists of 4 to 18 ranges, so that the loader is reached and passed; two sectors of two words show a drive that pauses between sectors; every fault by itself, the interrupt at every step from protected mode on |
| `format` | `TextRight`, `NumStrFits` | every number of 8 signed and 10 unsigned bits in bases 2, 10 and 16, with arrays exactly as tight for these widths as 12 and 17 are for 32 and 64 bits; formats of three pieces out of twelve, `%c` with ints that are no char among them |
| `interrupts` | `InServiceIsRunning`, `DispatchDefined`, `HearsAfterInit`, `StartsUp`, `TicksServed`, `KeysRead` | no bound is needed: the state is finite |
| `keyboard` | `ModifiersAgree`, `Aligned`, `ShiftHonoured` | one key of each kind (plain, letter, both shifts, an extended modifier, a grey key with fake shifts, Pause, Caps Lock); a key event begins only when at most one byte is still unread, so the handler lags by a whole event |
| `console` | `CursorOnScreen`, `WritesMapped` | two characters by two and a half rows: like 1440 x 900 at 8 x 16 the height is not a whole number of rows |

`CHECK_DEADLOCK FALSE` is set for `Interrupts` only: the kernel may hang in
`general_IRQ_handler` or leave its code. The other systems never stop.

### Runs that end in a counterexample

Each run is a statement of a comment or a message of the code that the code does not keep.

| Run | Property | What happens |
|---|---|---|
| `page_alloc_full` | `NeverHandsOutTwice` | `page_alloc: valloc failed` (`memory.c:251`) is never reported; the first page of the pool is handed out again |
| `interrupts_window` | `HandlersInstalled` | a tick inside `register_handler` leaves an entry nobody registered, although `isr_dispatch` calls "the registered handler" (`intr.c:197`) |
| `keyboard_caps` | `CapsHonoured` | letters are not affected by Caps Lock, against `keyboard.c:112` |

The height of 900 pixels is not a multiple of 16: the last text row is drawn
twelve pixel rows past the frame buffer (`console.c:58`). No text of the
repository says otherwise, and `WritesMapped` shows that these rows stay within
the pages mapped behind it.

The repository's comment on `cache->total` (number of blocks, `slab.h:32`) is not
kept either: `slab_free` never lowers it (`slab.c:104`). No code reads it and no
run checks it.

### Fairness

* `Boot`: weak fairness of the processor's step and of the drive's answer, that is,
  a drive that was given a command answers sometime. `ReachesKernel` is stated for
  machines without a fault: with a drive that answers with an error the poll
  turns forever, with a list that ends by carry the loader stops, and with an
  interrupt the boot is lost.
* `BitmapScan`: weak fairness of the loop's step. It is sequential code.
* `Interrupts`: weak fairness of the running handler (`CpuStep`), which nothing
  can interrupt; strong fairness of the kernel's next step and of the delivery of
  a pending tick. Both are disabled again and again by interrupts, but a handler
  takes far less than the 10 ms between two ticks, so in between there is
  always time. There is no fairness for the devices: keys and ticks need not come.
  `TicksServed` assumes that the keyboard, whose vector is higher, pauses
  infinitely often.

## 4. Proofs

TLAPS proves these for every value of the constants that satisfies the
`ASSUME`s of the module (which TLC evaluates on every run). Every safety property
of the runs that hold is stated by a theorem.

| Theorem | Statement | Argument |
|---|---|---|
| `PageAlloc_proofs!PoolImplemented` | `Spec => ImplementsPool` | step simulation: `PageAllocMap` that ends a call is `Alloc`, `PageFree` is `Free`, a failure is `RunOut`, everything else a stutter (`PoolStep`) |
| `PageAlloc_proofs!TypeCorrect`, `SoleOwnership`, `ExactAccounting`, `Coherence`, `Confinement` | type and four invariants | see below |
| `PageAlloc_proofs!DirectoriesApart` | `Spec => []TablesApart` | `TablesInv`: the 4 KB bitmap is the set of the directories' frames; counting them shows that a missing one always finds a bit (`TableFree`) |
| `Kmalloc_proofs!SlabsWhole`, `ListsRight`, `CountersRight`, `DispatchRight`, `PagesComeBack` | the four invariants and the action property of the run | one invariant, see below |
| `Kmalloc_proofs!KmallocImplementsHeap` | `Spec => ImplementsHeap` | the same invariant: a block or page that is taken is nobody's and as long as what was asked for (`GrantIsAlloc`), and blocks of one page and of different pages do not overlap (`Extents`) |
| `Kmalloc_proofs!HeapNoOverlap`, `ClientsApart` | no two live extents overlap, in `Heap` and in `Kmalloc` | directly inductive; and through the refinement |
| `Lib_proofs!ScanCorrect` | `ScanSpec => []FindsFirstRun` | `LoopInv`: the run being counted is free and ends before the next bit, and no run starts earlier |
| `Lib_proofs!ListsStayLinked` | `Spec => []WellLinked` | types and `Chain`; `InsertKeeps` and `RemoveKeeps` are lemmas about any position in any list |
| `Lib_proofs!ListsImplemented` | `Spec => ImplementsLists` | `Represents`: `next` and `prev` chain the nodes of a sequence; a walk finds the sequence it is given (`WalkFinds`), an insertion or removal at place `i` is one in the sequence (`Inserted`, `Removed`) |
| `Boot_proofs!PoolsSound`, `BitmapsSound`, `GatesSafe` | three invariants of the division | bounds of the shares (`Shares`, `PoolArithmetic`, `BitmapArithmetic`) for every size |
| `Boot_proofs!AllRamCounted`, `PoolsAreRam` | `CountsAllRam`, `PoolsInRam` | `ScanInv`, see below |
| `Boot_proofs!BootPools`, `BootGates` | the invariants of the division in the whole start-up | `BootRefines`: every step of the start-up is a step of the layout or leaves it alone |
| `Boot_proofs!CachesOwn` | `CachesApart` | `CacheInv`: cache `i` has page `i - 1`, the first free one (`NextPage`); sixteen fit (`RoomForCaches`) |
| `Boot_proofs!LoaderSafe`, `KernelLoaded` | `LoaderSurvives` and `KernelWhole` | `BInv`, see below |
| `Boot_proofs!KernelMaps` | `KernelMapped => (BootSpec => []KernelSees)` | the walk level by level (`WalkFacts`); a walk through entry 511 stays on the root, which is why the macros of `memory.h` point one level up (`SelfMap`). `KernelMapped`: the kernel ends within the five frames of 2 MB that the loader maps |
| `Drivers_proofs!TypeCorrect`, `InStep`, `DispatchSound`, `HearingKept` | three invariants and an action property | which pins are open and which entries are set at each `pc`; while a handler runs the kernel's `pc` does not move |
| `Drivers_proofs!LookupsInKeymap`, `PairsKept`, `FlagsFollowKeys`, `CaseAsTyped` | the four invariants of the run | see below |
| `Console_proofs!BufferKept`, `CursorKept`, `PixelsMapped` | the three invariants of the run | what the kernel holds in registers while a handler moves the cursor was itself on the screen (`Registers`), so what it stores is at most one character outside, and the test that follows corrects it |
| `Format_proofs!FormatInductive`, `TextIsRight`, `StringsFit` | the invariant of `Format`, and the two invariants of the run | `FInv`, see below |

The invariant of `PageAlloc_proofs` has these parts beyond the types:

* `Apart`: until an allocation fails, the extents of pointers and of the call in
  progress are disjoint, the virtual bitmap is their union, the core bitmap is the
  set of frames of the mapped pages, and these frames differ. `SoleOwner` alone
  is not inductive: a step of `page_alloc` keeps it only because the bitmaps
  say who owns what, also halfway through a call.
* `InStep`: while pages are asked for one at a time, a virtual page always
  has the frame of the same index, mapped or not, in its entry and in the TLB,
  unless the processor has an older translation (`Foreign`). This is why what
  `page_free` leaves in the TLB does no harm: the old translation and the next are
  the same.
* `Confined`: the entries of mapped pages hold frames of the core pool. It holds
  without the premise that nothing has failed, because a mapped page's directory
  is never zeroed again.
* `Cached`: a present entry has a frame of the core pool or the loader's, and
  a translation one of these or a word of a directory not yet zeroed.
* `Fits`: the run of a pointer or of a call lies inside the pool.

The invariant of `Kmalloc_proofs`, `Good`, is stated over the values of
the variables, so that a `kmalloc` that makes a slab and takes a block of it, and
a `kfree` that gives a block back and then returns the page, are two steps with the
invariant in between (`CreateGood`, `TakeGood`, `GiveGood`, `ReturnGood`; `WholeGood`
and `PageFreeGood` for pages):

* `SlabGood`: the free list has no block twice, its length is `total_free`, and with
  the blocks clients hold it makes up the slab's blocks, which none has in common.
* `PageGood`: a used page with the magic number is such a slab, one without it is
  held as a whole by at most one client, and a free page by nobody, whatever its
  first bytes say. This is what `kfree` relies on when it looks at them.
* `ListGood`, `CountGood`: a cache's list and count are those of its pages.
`Quiet`, over a set of pages, is what a step keeps for `NoHoarding` (`StepKeeps`): no
slab outside that set, other than one of one block, is without a held block.

None of the properties is inductive by itself: that a list has the slabs with
free blocks is kept by `slab_free` only because `total_free` is exact, and
that is kept only because no block is freed that is on the free list already.

`ScanInv` of `Boot_proofs` says that the sum so far is the sum of the ranges passed,
and, where no two usable ranges overlap, the number of addresses in them. The
second makes `PoolsInRam` an argument about sets: all usable addresses lie below the
end of the topmost range, so there are at most as many of them.

`BInv` says, besides the types, that no more ranges
are stored than the BIOS has (`ListInv`), that what is loaded is a beginning
of what is on the disk as long as the drive has been ready when read, and that it
is ready then unless it waits between sectors (`DriveInv`), and that the machine
is lost only by a failed read, an interrupt, a table that has passed the
descriptors, or an incomplete kernel (`LostInv`).

The invariant of `Keyboard` (in `Drivers_proofs`) looks ahead along the bytes that are not read
yet: `After(s, wire, m, n)` is what the flag of modifier `m` is after `n` of them.
`Agrees` says that the flag after the last one is what the keys say now, and
`Cased` that the flag before each byte is what it was when the byte was sent. A
byte that is read only shortens the look-ahead (`AfterRead`), a byte that is sent
lengthens it (`AfterSent`); so no bound on the handler's lag is needed. `Paired`
says which bytes follow a prefix.

`FInv` of `Format_proofs` says where the loops are:

* `Ready(q)`, `Wrote(q)`: `vsprintf` stands in its format behind the first `q` pieces
  and in its arguments behind theirs, and has written what they mean. That a piece
  is what stands at `format[i]` is `Parse`, from the lengths of the pieces before
  it (`JoinAt`).
* `Dividing(n, b)`: with `l` digits stored, what is left of `n` is `n` divided by
  `b ^ l` (`Counted`), and each digit stored is that of its position (`Spelled`).
  Dividing once more gives the next one because dividing twice is dividing by the
  product (`DivDiv`). When nothing is left, `l` is the length of the numeral
  (`DigitsEnd`), and read backwards the digits are the numeral (`NumeralOf`).
  `Counted` holds for the least number too, whose negation is itself and whose
  digits are wrong: the array is large enough for it nevertheless.
* `Reversing(n, b)`: `reverse` has the text outside `start` and its mirror image, and
  the text backwards between them (`Swapped`).
* `Converted(n, b)`, `HexOK(n)`: what is copied into the buffer.

`TextRight` alone is not inductive: it speaks of the end only. `NumStrFits` is
not either: that one more digit fits follows only from what is left of the number.
`WidthAssumption` holds for the code's 32 and 64 bits, 12 and 17 characters:
`2^31 < 10^10` and `2^64 <= 16^17`. The folds of the format are unrolled by
`JoinRecursion`, and induction over a number is by the least counterexample
(`NatInduct`), since the library's theorem needs an operator as a parameter.

Only model-checked:

* liveness (`Terminates`, `ReachesKernel`, `StartsUp`, `TicksServed`, `KeysRead`): it
  rests on fairness and `ENABLED`, which the prover does not handle;
* the three counterexamples.

## 5. Not modelled, and why

* `USER_2M` pages: `valloc` and `vfree` have an empty branch for them.
* Exceptions of the kernel's own instructions and page faults: no instruction of
  the kernel raises one in the states the models reach. (Their entry code would
  write an EOI as well, `idt.asm:78`.) The tick is the only interrupt the 8254
  raises and serial, disk and other pins stay masked. `disable_intr` has no caller.
* `kfree(NULL)` and `kfree` of a pointer that `kmalloc` did not return.
* Interrupts between the end of `init_memory` and `init_apic`, for which there are no
  gates either (before that, the fault `interrupt` of `Boot` is that case).
* A second PML4 entry for the pool (`memory.c:221-225`): memory beyond 512 GB.
* What clients write into the memory they hold, in particular the magic number of a
  slab at the start of a whole page.
* A BIOS that leaves the upper half of `ecx` set, in which the `loop` of the
  loader counts (`loader.asm:183`).
* Contents of glyphs, colours, RTE fields other than vector and mask, chipset
  registers (`apic.c:160-171`): data that no property distinguishes.
* Port and MSR wrappers (`global.h`): part of the actions that use them.
* BIOS text and video calls: output only.

## 6. Plan

Done, in this order: `Bitmap`, `BitmapScan`, `PageAlloc`, `Heap`, `Kmalloc`,
`Lists`, `LinkedList`, `MemoryLayout`, `Interrupts`, `Keyboard`, `Console`; then
`Boot`, `Format` and `PagePool`; the proofs of `PageAlloc` and its refinement, of
the invariants and the refinement of `Kmalloc`, of `LinkedList` and its refinement,
of `MemoryLayout` and `Boot`, of `Interrupts`, `Keyboard` and `Console`, and of
`Format`, whose powers are recursive functions.

What remains open is liveness, which TLC checks on the instances above.
