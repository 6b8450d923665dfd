------------------------------ MODULE PageAlloc -----------------------------
(***************************************************************************)
(* The page allocator of kernel/memory/memory.c for pages of type          *)
(* KERNEL_2M, the only type the kernel asks for: page_alloc takes a run of *)
(* virtual pages, backs each by a physical page and maps it; page_free     *)
(* undoes the three.  The processor's TLB is part of the state, because    *)
(* nothing ever invalidates a pool page in it: the invlpg of               *)
(* page_table_remove names the local variable that holds the address, and  *)
(* page_table_add, which overwrites entries the loader left present, has   *)
(* none.  The processor may cache any present entry at any time.           *)
(*                                                                         *)
(* Virtual pages are numbered from pool_virt.addr_start, 2 MB frames from  *)
(* physical address 0 and 4 KB frames from pool_4k.addr_start.             *)
(***************************************************************************)
EXTENDS Bitmap

CONSTANTS
  ByteBits,     \* bits in a byte of a bitmap (8)
  KernelPages,  \* 2 MB pages up to ALIGN_UP_2MB(_end)
  UserPages,    \* pool_user_2m.pool_size
  CorePages,    \* pool_core_2m.pool_size and pool_virt.pool_size
  LoaderSlots,  \* entries of the first page directory the loader filled (5)
  Span,         \* entries of a page directory (512)
  Bits4K,       \* bits of the 4 KB pool's bitmap
  Garbage,      \* the frames that words of a not yet zeroed directory name
  Handles,      \* the pointers a client can hold at a time
  MaxCount,     \* bound on pg_cnt
  Nil           \* a NULL pointer, an absent table, an empty TLB entry

ASSUME ByteBitsAssumption == ByteBits \in Nat \ {0}
ASSUME PoolAssumption ==
  /\ KernelPages \in Nat \ {0} /\ UserPages \in Nat /\ CorePages \in Nat \ {0}
  /\ LoaderSlots \in Nat /\ Span \in Nat \ {0} /\ Bits4K \in Nat
  /\ Garbage \subseteq Nat
ASSUME CountAssumption == MaxCount \in 1 .. CorePages

VPages == 0 .. (CorePages - 1)
CoreStart == KernelPages + UserPages
CoreFrames == CoreStart .. (CoreStart + CorePages - 1)
Bits == ByteBits * (CorePages \div ByteBits)
Slot(v) == KernelPages + v
TableOf(v) == Slot(v) \div Span
Tables == {TableOf(v) : v \in VPages} \cup {0}
BootTable == Bits4K   \* the loader's page directory, outside the 4 KB pool

\* A page directory is needed per Span slots; the 4 KB pool holds them all.
ASSUME TableRoom == \A v \in VPages : TableOf(v) \in 0 .. Bits4K

\* The pool lies under the one PML4 entry the loader filled: it ends below
\* Span directories, 512 GB, so page_table_add never finds that entry absent.
ASSUME OnePml4Entry == \A v \in VPages : TableOf(v) < Span

\* What the processor may have cached for a page before the allocator first
\* wrote its entry: the loader's translation, or a word of a page directory
\* that was linked and not yet zeroed.
Foreign(v) == (IF Slot(v) < LoaderSlots THEN {Slot(v)} ELSE {})
              \cup (IF TableOf(v) # 0 THEN Garbage ELSE {})

VARIABLES
  virt, core, pool4k,  \* the bitmaps of pool_virt, pool_core_2m, pool_4k
  pdpt,       \* 4 KB frame of each page directory, Nil while absent
  pde,        \* frame field of the entry of each virtual page
  present,    \* the virtual pages whose entry has PG_EXIST
  tlb,        \* the frame cached for each virtual page, or Nil
  ptr,        \* the extent each client pointer addresses
  call,       \* the page_alloc in progress
  exhausted,  \* history: a bitmap_alloc has failed
  multi       \* history: more than one page was requested at once

vars == <<virt, core, pool4k, pdpt, pde, present, tlb, ptr, call, exhausted, multi>>

Pages(e) == e.base .. (e.base + e.cnt - 1)
Extents == [base : VPages, cnt : 1 .. MaxCount]
Calls == [h : Handles, base : VPages, cnt : 1 .. MaxCount, done : 0 .. (MaxCount - 1)]
ASSUME NilAssumption == Nil \notin Int /\ Nil \notin Extents /\ Nil \notin Calls
Live == {h \in Handles : ptr[h] # Nil}
Held == UNION {Pages(ptr[h]) : h \in Live}

\* init_memory leaves empty bitmaps and the page directory of the loader,
\* which maps its first slots to the frames of the same number.
Init ==
  /\ virt = {} /\ core = {} /\ pool4k = {}
  /\ pdpt = [t \in Tables |-> IF t = 0 THEN BootTable ELSE Nil]
  /\ pde = [v \in VPages |-> IF Slot(v) < LoaderSlots THEN Slot(v) ELSE 0]
  /\ present = {v \in VPages : Slot(v) < LoaderSlots}
  /\ tlb = [v \in VPages |-> Nil]
  /\ ptr = [h \in Handles |-> Nil]
  /\ call = Nil
  /\ exhausted = FALSE /\ multi = FALSE

-----------------------------------------------------------------------------
(* Slips of the code that the checks must notice: each is the definition   *)
(* of a similar name below with one thing changed, and is no part of Next. *)

\* The new page directory is zeroed after the entry is written.
PageTableAddThenZero(v, frame) ==
  LET table == TableOf(v)
      absent == pdpt[table] = Nil
      fresh == {w \in VPages : absent /\ TableOf(w) = table}
  IN  /\ pdpt' = IF absent
                 THEN [pdpt EXCEPT ![table] = AllocIndex(pool4k, Bits4K, 1)]
                 ELSE pdpt
      /\ pool4k' = IF absent THEN AllocUsed(pool4k, Bits4K, 1) ELSE pool4k
      /\ pde' = [w \in VPages |-> IF w \in fresh THEN 0
                                  ELSE IF w = v THEN frame ELSE pde[w]]
      /\ present' = (present \cup {v}) \ fresh /\ tlb' = tlb

\* The PG_EXIST bit of the directory's entry is never seen as set.
PageTableAddAlways(v, frame) ==
  LET table == TableOf(v)
      fresh == {w \in VPages : TableOf(w) = table}
  IN  /\ pdpt' = [pdpt EXCEPT ![table] = AllocIndex(pool4k, Bits4K, 1)]
      /\ pool4k' = AllocUsed(pool4k, Bits4K, 1)
      /\ pde' = [w \in VPages |-> IF w = v THEN frame
                                  ELSE IF w \in fresh THEN 0 ELSE pde[w]]
      /\ present' = (present \ fresh) \cup {v} /\ tlb' = tlb

\* page_free gives back the virtual pages only.
PfreeCoreNothing(frames) == {}
-----------------------------------------------------------------------------
\* page_alloc up to its loop: valloc.  The index of a failed scan is 0, so
\* vaddr is never NULL and the branch "valloc failed" is never taken.
PageAllocBegin(h, cnt) ==
  /\ call = Nil /\ ptr[h] = Nil
  /\ LET base == AllocIndex(virt, Bits, cnt)
     IN  call' = [h |-> h, base |-> base, cnt |-> cnt, done |-> 0]
  /\ virt' = AllocUsed(virt, Bits, cnt)
  /\ exhausted' = (exhausted \/ AllocFails(virt, Bits, cnt))
  /\ multi' = (multi \/ cnt > 1)
  /\ UNCHANGED <<core, pool4k, pdpt, pde, present, tlb, ptr>>

\* palloc: the frame at the index found, again index 0 when none is free.
PallocFrame == CoreStart + AllocIndex(core, Bits, 1)

\* page_table_add: a missing page directory is taken from the 4 KB pool, linked
\* and only then zeroed; between the two the processor may cache what the
\* words of the frame happen to say.  Then the entry is written.  No
\* translation is invalidated.
PageTableAdd(v, frame) ==
  LET table == TableOf(v)
      absent == pdpt[table] = Nil
      fresh == {w \in VPages : absent /\ TableOf(w) = table}
  IN  /\ pdpt' = IF absent
                 THEN [pdpt EXCEPT ![table] = AllocIndex(pool4k, Bits4K, 1)]
                 ELSE pdpt
      /\ pool4k' = IF absent THEN AllocUsed(pool4k, Bits4K, 1) ELSE pool4k
      /\ pde' = [w \in VPages |-> IF w = v THEN frame
                                  ELSE IF w \in fresh THEN 0 ELSE pde[w]]
      /\ present' = (present \ fresh) \cup {v}
      /\ \E read \in SUBSET fresh : \E word \in [read -> Garbage] :
           tlb' = [w \in VPages |-> IF w \in read THEN word[w] ELSE tlb[w]]

\* One turn of the loop of page_alloc, with the return after the last.
PageAllocMap ==
  /\ call # Nil
  /\ PageTableAdd(call.base + call.done, PallocFrame)
  /\ core' = AllocUsed(core, Bits, 1)
  /\ exhausted' = (exhausted \/ AllocFails(core, Bits, 1))
  /\ IF call.done + 1 = call.cnt
     THEN /\ ptr' = [ptr EXCEPT ![call.h] = [base |-> call.base, cnt |-> call.cnt]]
          /\ call' = Nil
     ELSE call' = [call EXCEPT !.done = @ + 1] /\ ptr' = ptr
  /\ UNCHANGED <<virt, multi>>

\* pfree ignores an address outside its pool.
PfreeCore(frames) == {f - CoreStart : f \in frames \cap CoreFrames}

\* page_free: vfree for the run, then for each page V2P_2MB, pfree and
\* page_table_remove.  The frame field of a removed entry stays as it is.
PageFree(h) ==
  /\ call = Nil /\ ptr[h] # Nil
  /\ LET run == Pages(ptr[h])
     IN  /\ virt' = ConClear(virt, Bits, ptr[h].base, ptr[h].cnt)
         /\ core' = core \ PfreeCore({pde[v] : v \in run})
         /\ present' = present \ run
  /\ ptr' = [ptr EXCEPT ![h] = Nil]
  /\ UNCHANGED <<pool4k, pdpt, pde, tlb, call, exhausted, multi>>

\* The processor keeps the translation of a present entry, whether anybody
\* holds the page or not: speculation needs no program that touches it.
Cache(v) ==
  /\ v \in present /\ tlb[v] = Nil
  /\ tlb' = [tlb EXCEPT ![v] = pde[v]]
  /\ UNCHANGED <<virt, core, pool4k, pdpt, pde, present, ptr, call, exhausted, multi>>

\* The processor may drop a translation at any time.
Evict(v) ==
  /\ tlb[v] # Nil
  /\ tlb' = [tlb EXCEPT ![v] = Nil]
  /\ UNCHANGED <<virt, core, pool4k, pdpt, pde, present, ptr, call, exhausted, multi>>

Next ==
  \/ \E h \in Handles, cnt \in 1 .. MaxCount : PageAllocBegin(h, cnt)
  \/ PageAllocMap
  \/ \E h \in Handles : PageFree(h)
  \/ \E v \in VPages : Cache(v) \/ Evict(v)

Spec == Init /\ [][Next]_vars
-----------------------------------------------------------------------------
\* The run that page_alloc has taken but not yet returned, and the part of it
\* that is mapped.
CallPages == IF call = Nil THEN {} ELSE Pages(call)
CallMapped == IF call = Nil THEN {} ELSE call.base .. (call.base + call.done - 1)
Mapped == Held \cup CallMapped

TypeOK ==
  /\ virt \in SUBSET VPages /\ core \in SUBSET VPages
  /\ pool4k \in SUBSET (0 .. (Bits4K - 1))
  /\ pdpt \in [Tables -> Nat \cup {Nil}]
  /\ pde \in [VPages -> Nat]
  /\ present \in SUBSET VPages
  /\ tlb \in [VPages -> Nat \cup {Nil}]
  /\ ptr \in [Handles -> Extents \cup {Nil}]
  /\ call \in Calls \cup {Nil}
  /\ exhausted \in BOOLEAN /\ multi \in BOOLEAN

\* Until an allocation has failed, page_alloc never returns a virtual page
\* that another caller holds, no two held pages share a frame, and every held
\* page is mapped: virtual runs and frames come from two bitmaps that drift
\* apart, and only the page table connects them again in page_free.
SoleOwner ==
  ~exhausted =>
    /\ \A g, h \in Live : g # h => Pages(ptr[g]) \cap Pages(ptr[h]) = {}
    /\ \A v, w \in Held : v # w => pde[v] # pde[w]
    /\ Held \subseteq present

\* Between calls the two bitmaps say exactly what is held: page_free returns
\* the frames page_alloc took, whatever was mapped and unmapped in between.
Accounting ==
  (~exhausted /\ call = Nil) =>
    /\ virt = Held
    /\ core = {pde[v] - CoreStart : v \in Held}

\* What the processor uses for a held page is the page table's translation or
\* one cached before the allocator first wrote the page's entry.  The second
\* does happen: page_table_add overwrites the loader's entries, and zeroes a
\* new directory, without an invlpg.  The translations page_table_remove
\* leaves behind do no harm as long as pages are asked for one at a time: a
\* virtual page then always gets the same frame again.
CoherentWhileSingle ==
  (~exhausted /\ ~multi) =>
    \A v \in Held : tlb[v] \in {Nil, pde[v]} \cup Foreign(v)

\* Even after allocations have failed and pages are shared, the page table
\* leads no pointer the allocator returned to a frame outside the core pool:
\* not of the kernel image, of the user pool, of a page table or frame 0.  A
\* stale translation leads outside only if it is older than the first
\* allocation of its page, so never for a page of the loader's directory
\* that the loader had not mapped.
PoolConfined ==
  \A v \in Held : /\ pde[v] \in CoreFrames
                  /\ tlb[v] \in CoreFrames \cup {Nil} \cup Foreign(v)

\* No two page directories share a 4 KB frame.
TablesApart ==
  \A s, t \in Tables : s # t /\ pdpt[s] # Nil => pdpt[s] # pdpt[t]

\* The allocator as its clients see it: page_alloc as one step that maps fresh
\* pages to fresh frames, page_free as one that takes only its own pages away.
\* No step of a call in progress, nor anybody else's call, moves or unmaps a
\* page that a client holds.
heldFrame == [v \in Held \cap present |-> pde[v]]
Pool == INSTANCE PagePool WITH
  Frames <- CoreFrames, frame <- heldFrame, failed <- exhausted
ImplementsPool == Pool!Spec

\* What page_alloc's message "valloc failed" and the return after it promise:
\* with no run left the caller gets NULL, never a page already held.
NeverHandsOutTwice ==
  \A g, h \in Live : g # h => Pages(ptr[g]) \cap Pages(ptr[h]) = {}
=============================================================================
