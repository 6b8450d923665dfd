------------------------------- MODULE Kmalloc ------------------------------
(***************************************************************************)
(* kmalloc and kfree with the slab caches below them (kernel/memory/slab.c *)
(* and the end of memory.c), over a page allocator that hands out one page *)
(* at a time (PageAlloc).  Addresses are counted in units from the start   *)
(* of the virtual pool.  A page's first units may hold a Slab header; they *)
(* keep their contents when the page is freed, so a stale magic number     *)
(* stays behind.  What a client writes into its own memory is not modelled *)
(* and is assumed never to be SLAB_MAGIC at the start of a page it holds   *)
(* whole: kfree would take that page for a slab.                           *)
(***************************************************************************)
EXTENDS Bitmap, Sequences, FiniteSets, Functions, SequencesExt

CONSTANTS
  NumPages,   \* pages of the virtual pool
  PageSize,   \* PAGE_SIZE, in units
  NumCaches,  \* SLAB_CACHE_SIZE
  SlabSize,   \* slab_size of each cache, from SLAB_START on, in units
  HeaderSize, \* sizeof(Slab), in units
  Word,       \* 2^32, the range of cache->total
  Sizes       \* the sizes clients ask for

Caches == 0 .. (NumCaches - 1)
PageSet == 0 .. (NumPages - 1)
MaxSlabSize == SlabSize[NumCaches - 1]

\* There is a page for the first slab of every cache; init_memory doubles the
\* size from one cache to the next and stops at half a page, where the one
\* block of the page has the header in front of it.
ASSUME SizeAssumption ==
  /\ NumCaches \in Nat \ {0} /\ NumPages \in Nat /\ NumCaches <= NumPages
  /\ PageSize \in Nat /\ SlabSize \in [Caches -> Nat \ {0}]
  /\ \A c \in Caches \ {0} : SlabSize[c] = 2 * SlabSize[c - 1]
  /\ 2 * MaxSlabSize = PageSize
  /\ HeaderSize \in Nat \ {0} /\ 2 * HeaderSize <= PageSize
  /\ Word \in Nat \ {0} /\ Sizes \subseteq Nat

VARIABLES
  used,       \* virtual pages taken from the page allocator
  header,     \* what the start of each page reads as, were it a Slab
  slab_list,  \* the pages on each cache's slab_list, head first
  total,      \* cache->total
  total_free, \* cache->total_free
  live,       \* the extents clients hold
  asked,      \* history: the size the last call asked for, 0 if it was kfree
  broken      \* an allocation found no page

kvars == <<used, header, slab_list, total, total_free, live, asked, broken>>

-----------------------------------------------------------------------------
(* Slips of the code that the checks must notice: each is the definition   *)
(* of a similar name below with one thing changed.                         *)

\* kmalloc does not zero a page of its own.
ZeroedPageNot(page) == header[page]

\* kmalloc looks for a class by half the size: it rounds down.
CacheForBelow(size) == CHOOSE c \in Caches :
  2 * SlabSize[c] > size /\ \A d \in Caches : 2 * SlabSize[d] > size => c <= d

\* list_pop returns the head and removes the tail.
PopBlockTail(list) == SubSeq(list, 1, Len(list) - 1)

\* The page of an empty slab never goes back.
ReleasesNever(left, blocks) == left # 1 /\ left > blocks

\* A slab that was full is not put back on the list.
RelistForgets(list, page, left, release) == IF release THEN RemoveFirst(list, page) ELSE list

\* The blocks of a page given back stay in the cache's count.
CacheFreeKeeps(free, blocks, release) == free + 1
-----------------------------------------------------------------------------
AlignUp(a, size) == ((a + size - 1) \div size) * size
PageOf(addr) == addr \div PageSize                \* addr & SLAB_MASK
SlabItem(addr, size) == (addr \div size) * size   \* GET_SLAB_ITEM

\* The blocks slab_create cuts a page into, lowest first.
FirstBlock(page, size) == AlignUp(page * PageSize + HeaderSize, size)
BlockCount(page, size) == ((page + 1) * PageSize - FirstBlock(page, size)) \div size
Blocks(page, size) ==
  [i \in 1 .. BlockCount(page, size) |-> FirstBlock(page, size) + (i - 1) * size]

\* A page that was zeroed, or never written.
Blank == [magic |-> FALSE, slab_size |-> 0, total |-> 0, total_free |-> 0, free_list |-> <<>>]

\* slab_create, on the page it got.
SlabCreate(page, size) ==
  [magic |-> TRUE, slab_size |-> size, total |-> BlockCount(page, size),
   total_free |-> BlockCount(page, size), free_list |-> Blocks(page, size)]

\* init_memory makes one slab for each cache, on the first pages.
Init ==
  /\ used = Caches
  /\ header = [p \in PageSet |-> IF p \in Caches THEN SlabCreate(p, SlabSize[p]) ELSE Blank]
  /\ slab_list = [c \in Caches |-> <<c>>]
  /\ total = [c \in Caches |-> BlockCount(c, SlabSize[c])]
  /\ total_free = total
  /\ live = {} /\ asked = 0 /\ broken = FALSE
-----------------------------------------------------------------------------
\* page_alloc(type, 1); its failure is not noticed and page 0 is taken again.
FreshPage == AllocIndex(used, NumPages, 1)
OutOfPages == AllocFails(used, NumPages, 1)

\* memset(addr, 0, PAGE_SIZE)
ZeroedPage(page) == Blank

\* kmalloc of more than the largest slab_size: a page of its own, zeroed.
KmallocPage(size) ==
  /\ ~broken /\ size > MaxSlabSize /\ size <= PageSize /\ ~OutOfPages
  /\ used' = used \cup {FreshPage}
  /\ header' = [header EXCEPT ![FreshPage] = ZeroedPage(FreshPage)]
  /\ live' = live \cup {[addr |-> FreshPage * PageSize, len |-> PageSize]}
  /\ UNCHANGED <<slab_list, total, total_free, broken>>

CacheFor(size) == CHOOSE c \in Caches :
  SlabSize[c] >= size /\ \A d \in Caches : SlabSize[d] >= size => c <= d

PopBlock(list) == Tail(list)

\* The end of slab_alloc: a block of the slab at the head of the list.
TakeBlock(c, hdr, list) ==
  LET page == Head(list)
      slab == hdr[page]
      left == slab.total_free - 1
  IN  /\ header' = [hdr EXCEPT ![page].free_list = PopBlock(@), ![page].total_free = left]
      /\ slab_list' = [slab_list EXCEPT ![c] = IF left = 0 THEN Tail(list) ELSE list]
      /\ live' = live \cup {[addr |-> SlabItem(Head(slab.free_list), SlabSize[c]),
                             len |-> SlabSize[c]]}

\* kmalloc of anything smaller, when the cache has a slab with a free block.
KmallocBlock(size) ==
  LET c == CacheFor(size)
  IN  /\ ~broken /\ size <= MaxSlabSize /\ slab_list[c] # <<>>
      /\ TakeBlock(c, header, slab_list[c])
      /\ total_free' = [total_free EXCEPT ![c] = @ - 1]
      /\ UNCHANGED <<used, total, broken>>

\* ... and when it has none: slab_alloc makes a new slab first.
KmallocNewSlab(size) ==
  LET c == CacheFor(size)
      slab == SlabCreate(FreshPage, SlabSize[c])
  IN  /\ ~broken /\ size <= MaxSlabSize /\ slab_list[c] = <<>> /\ ~OutOfPages
      /\ used' = used \cup {FreshPage}
      /\ TakeBlock(c, [header EXCEPT ![FreshPage] = slab], <<FreshPage>>)
      /\ total' = [total EXCEPT ![c] = (@ + slab.total) % Word]
      /\ total_free' = [total_free EXCEPT ![c] = @ + slab.total - 1]
      /\ UNCHANGED broken

\* The page allocator is empty and a page that is in use is overwritten; the
\* model ends here.
KmallocBreaks(size) ==
  /\ ~broken /\ OutOfPages /\ size <= PageSize
  /\ size <= MaxSlabSize => slab_list[CacheFor(size)] = <<>>
  /\ broken' = TRUE
  /\ UNCHANGED <<used, header, slab_list, total, total_free, live>>

\* kmalloc of more than a page returns NULL.
KmallocNull(size) ==
  /\ size > PageSize
  /\ UNCHANGED <<used, header, slab_list, total, total_free, live, broken>>

\* The two branches at the end of slab_free: the first free block puts the slab
\* back on its cache's list, otherwise the last one gives its page back.
Releases(left, blocks) == left # 1 /\ left = blocks
Relist(list, page, left, release) ==
  IF left = 1 THEN <<page>> \o list
  ELSE IF release THEN RemoveFirst(list, page) ELSE list
CacheFree(free, blocks, release) == IF release THEN free + 1 - blocks ELSE free + 1

\* kfree of a block: slab_free of the cache named by the slab's own header.
KfreeBlock(e) ==
  LET page == PageOf(e.addr)
      slab == header[page]
      c == CHOOSE d \in Caches : SlabSize[d] = slab.slab_size
      left == slab.total_free + 1
      release == Releases(left, slab.total)
  IN  /\ ~broken /\ e \in live /\ slab.magic
      /\ header' = [header EXCEPT
           ![page].free_list = <<SlabItem(e.addr, slab.slab_size)>> \o @,
           ![page].total_free = left]
      /\ slab_list' = [slab_list EXCEPT ![c] = Relist(@, page, left, release)]
      /\ total_free' = [total_free EXCEPT ![c] = CacheFree(@, slab.total, release)]
      /\ used' = IF release THEN used \ {page} ELSE used
      /\ live' = live \ {e}
      /\ asked' = 0 /\ UNCHANGED <<total, broken>>

\* kfree of anything else: page_free of one page.
KfreePage(e) ==
  /\ ~broken /\ e \in live /\ ~header[PageOf(e.addr)].magic
  /\ used' = used \ {PageOf(e.addr)}
  /\ live' = live \ {e}
  /\ asked' = 0 /\ UNCHANGED <<header, slab_list, total, total_free, broken>>

Kmalloc(size) ==
  /\ \/ KmallocPage(size) \/ KmallocBlock(size) \/ KmallocNewSlab(size)
     \/ KmallocBreaks(size) \/ KmallocNull(size)
  /\ asked' = size

Next ==
  \/ \E size \in Sizes : Kmalloc(size)
  \/ \E e \in live : KfreeBlock(e) \/ KfreePage(e)

Spec == Init /\ [][Next]_kvars
-----------------------------------------------------------------------------
Slabs == {p \in used : header[p].magic}
SlabsOf(c) == {p \in Slabs : header[p].slab_size = SlabSize[c]}
Held(p) == {e \in live : PageOf(e.addr) = p}

\* Every block of a slab is either on its free list, once, or with one client:
\* none is lost or handed out twice by any sequence of kmalloc and kfree, and
\* none overlaps the slab's header or leaves its page.
BlocksPartition ==
  \A p \in Slabs :
    LET slab == header[p]
        all == ToSet(Blocks(p, slab.slab_size))
        out == {e.addr : e \in Held(p)}
    IN  /\ IsInjective(slab.free_list)
        /\ ToSet(slab.free_list) \cup out = all
        /\ ToSet(slab.free_list) \cap out = {}
        /\ \A e \in Held(p) : e.len = slab.slab_size
        /\ \A a \in all : /\ a >= p * PageSize + HeaderSize
                         /\ a + slab.slab_size <= (p + 1) * PageSize

\* A slab is on the list of its cache exactly while it has a free block, and
\* once: slab_alloc takes the head of the list without looking at total_free.
ListedIffFree ==
  \A c \in Caches :
    /\ IsInjective(slab_list[c])
    /\ ToSet(slab_list[c]) =
         {p \in SlabsOf(c) : header[p].free_list # <<>>}

\* The counters decide when a slab is listed, unlisted and given back: the
\* slab's is the length of its free list, the cache's is the number of free
\* blocks in all the slabs it has.
CountersExact ==
  /\ \A p \in Slabs : header[p].total_free = Len(header[p].free_list)
  /\ \A c \in Caches :
       total_free[c] = Cardinality(UNION {ToSet(header[p].free_list) : p \in SlabsOf(c)})

\* kfree tells a block from a page by the magic number at the start of the
\* page: a page of its own never shows the number a slab left there before.
KfreeDispatch ==
  \A e \in live : PageOf(e.addr) \in used
                  /\ (header[PageOf(e.addr)].magic <=> e.len <= MaxSlabSize)

\* Pages do not pile up in the caches: the step that takes a slab's last client
\* away gives the page back, and no slab is made without a client.  A slab of
\* a single block is the exception: slab_free looks for the first free block
\* before it looks for the last one out, and never gives that page back.
NoHoarding ==
  [][\A p \in Slabs' : Held(p)' = {} =>
       (p \in Slabs /\ Held(p) = {}) \/ header'[p].total = 1]_kvars

\* kmalloc and kfree implement the abstract heap: every request of up to a page
\* is granted until the pages run out, with an extent of at least the size
\* asked for, aligned, and apart from all others.
H == INSTANCE Heap WITH Limit <- NumPages * PageSize, Largest <- PageSize
ImplementsHeap == H!HeapSpec
=============================================================================
