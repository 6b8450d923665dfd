-------------------------- MODULE PageAlloc_proofs --------------------------
(***************************************************************************)
(* The page allocator for every number of pages, clients and tables.       *)
(*                                                                         *)
(* The inductive invariant has five parts: extents fit the pool (Fits),    *)
(* what holds even after an allocation has failed, of the page table       *)
(* (Confined) and of the translations cached from it (Cached), what ties   *)
(* the two bitmaps to the page table until then (Apart), and the lock-step *)
(* of the bitmaps while pages are taken one at a time (InStep).  The page  *)
(* directories have an invariant of their own (TablesInv).                 *)
(***************************************************************************)
EXTENDS PageAlloc, Bitmap_proofs, FiniteSetTheorems

USE ByteBitsAssumption, PoolAssumption, CountAssumption, NilAssumption

Fits ==
  /\ \A h \in Live : ptr[h].base + ptr[h].cnt <= CorePages
  /\ call # Nil => /\ call.base + call.cnt <= CorePages
                   /\ call.done < call.cnt
                   /\ ptr[call.h] = Nil

Confined ==
  \A v \in Mapped : pde[v] \in CoreFrames /\ pdpt[TableOf(v)] # Nil

\* The loader's directory exists; an entry that can be cached, and a cached
\* one, is the allocator's or older than its first write.
Cached ==
  /\ pdpt[0] # Nil
  /\ \A v \in present : pde[v] \in CoreFrames \cup Foreign(v)
  /\ \A v \in VPages : tlb[v] \in CoreFrames \cup {Nil} \cup Foreign(v)

Apart ==
  ~exhausted =>
    /\ \A g, h \in Live : g # h => Pages(ptr[g]) \cap Pages(ptr[h]) = {}
    /\ \A h \in Live : Pages(ptr[h]) \cap CallPages = {}
    /\ virt = Held \cup CallPages
    /\ virt \subseteq 0 .. (Bits - 1)
    /\ \A v, w \in Mapped : v # w => pde[v] # pde[w]
    /\ core = {pde[v] - CoreStart : v \in Mapped}
    /\ Mapped \subseteq present

InStep ==
  (~exhausted /\ ~multi) =>
    /\ \A v \in Mapped : pde[v] = CoreStart + v
    /\ \A v \in present : pde[v] \in {CoreStart + v} \cup Foreign(v)
    /\ \A v \in VPages : tlb[v] \in {Nil, CoreStart + v} \cup Foreign(v)
    /\ call # Nil => /\ call.cnt = 1
                     /\ call.base = AllocIndex(Held, Bits, 1)

IInv == TypeOK /\ Fits /\ Confined /\ Cached /\ Apart /\ InStep
-----------------------------------------------------------------------------
\* The bitmaps cover no more than the pool.
LEMMA BitsRange == Bits \in Nat /\ Bits <= CorePages
<1>1. CorePages \div ByteBits \in Nat
  OBVIOUS
<1>2. ByteBits * (CorePages \div ByteBits) <= CorePages
  OBVIOUS
<1>3. ByteBits * (CorePages \div ByteBits) \in Nat
  BY <1>1
<1> QED
  BY <1>2, <1>3 DEF Bits

\* Where the core pool begins, and what an index of it can be.
LEMMA Ranges ==
  /\ CoreStart \in Nat
  /\ CoreFrames \subseteq Nat
  /\ VPages \subseteq Nat
  /\ \A i \in VPages : CoreStart + i \in CoreFrames
  /\ \A f \in CoreFrames : f - CoreStart \in VPages
  /\ Nil \notin CoreFrames /\ Nil \notin VPages
BY DEF CoreStart, CoreFrames, VPages

\* Every extent a client holds lies in the pool.
LEMMA HeldRange ==
  ASSUME TypeOK, Fits
  PROVE  /\ \A h \in Live : ptr[h] \in Extents /\ Pages(ptr[h]) \subseteq VPages
         /\ Held \subseteq VPages
         /\ call # Nil => /\ call \in Calls
                          /\ CallPages \subseteq VPages
                          /\ call.base + call.done \in VPages
         /\ CallMapped \subseteq CallPages
         /\ Mapped \subseteq VPages
<1>1. ASSUME NEW h \in Live
      PROVE  ptr[h] \in Extents /\ Pages(ptr[h]) \subseteq VPages
  <2>1. ptr[h] \in Extents
    BY DEF Live, TypeOK
  <2> QED
    BY <2>1 DEF Fits, Extents, Pages, VPages
<1>2. Held \subseteq VPages
  BY <1>1 DEF Held
<1>3. ASSUME call # Nil
      PROVE  /\ call \in Calls /\ CallPages \subseteq VPages
             /\ call.base + call.done \in VPages
             /\ CallMapped \subseteq CallPages
  <2>1. call \in Calls
    BY <1>3 DEF TypeOK
  <2>2. call.base \in Nat /\ call.cnt \in Nat /\ call.done \in Nat
    BY <2>1 DEF Calls, VPages
  <2> QED
    BY <1>3, <2>1, <2>2 DEF Fits, CallPages, CallMapped, Pages, VPages
<1>4. CallMapped \subseteq CallPages
  BY <1>3 DEF CallMapped
<1>5. CallMapped \subseteq VPages
  BY <1>3, <1>4 DEF CallMapped
<1> QED
  BY <1>1, <1>2, <1>3, <1>4, <1>5 DEF Mapped

\* bitmap_alloc on a bitmap of the core size stays inside the pool, also when
\* it fails.
LEMMA PoolAlloc ==
  ASSUME NEW used \in SUBSET VPages, NEW cnt \in 1 .. MaxCount
  PROVE  /\ AllocIndex(used, Bits, cnt) \in VPages
         /\ AllocIndex(used, Bits, cnt) + cnt <= CorePages
         /\ AllocUsed(used, Bits, cnt) \in SUBSET VPages
<1>1. CASE AllocFails(used, Bits, cnt)
  <2>1. AllocIndex(used, Bits, cnt) = 0 /\ AllocUsed(used, Bits, cnt) = used
    BY <1>1, AllocNotFound, Zenon
  <2> QED
    BY <2>1 DEF VPages
<1>2. CASE ~AllocFails(used, Bits, cnt)
  <2> DEFINE idx == AllocIndex(used, Bits, cnt)
  <2>0. Bits \in Nat
    BY BitsRange
  <2>1. cnt \in Nat \ {0}
    OBVIOUS
  <2>2. /\ idx \in 0 .. (Bits - 1) /\ idx + cnt <= Bits
        /\ AllocUsed(used, Bits, cnt) = used \cup idx .. (idx + cnt - 1)
    BY <1>2, <2>1, AllocFound, <2>0, Zenon
  <2> HIDE DEF idx
  <2>3. idx \in VPages /\ idx + cnt <= CorePages
    BY <2>1, <2>2, BitsRange DEF VPages
  <2>4. idx .. (idx + cnt - 1) \subseteq VPages
    BY <2>1, <2>2, <2>3 DEF VPages
  <2> QED
    BY <2>2, <2>3, <2>4 DEF idx
<1> QED
  BY <1>1, <1>2

\* palloc(MEM_4K) stays inside the 4 KB pool.
LEMMA TableAlloc ==
  ASSUME pool4k \in SUBSET (0 .. (Bits4K - 1))
  PROVE  /\ AllocIndex(pool4k, Bits4K, 1) \in Nat
         /\ AllocUsed(pool4k, Bits4K, 1) \in SUBSET (0 .. (Bits4K - 1))
<1>1. CASE AllocFails(pool4k, Bits4K, 1)
  <2>1. /\ AllocIndex(pool4k, Bits4K, 1) = 0
        /\ AllocUsed(pool4k, Bits4K, 1) = pool4k
    BY <1>1, AllocNotFound, Zenon
  <2>2. 0 \in Nat
    OBVIOUS
  <2> QED
    BY <2>1, <2>2, Zenon
<1>2. CASE ~AllocFails(pool4k, Bits4K, 1)
  <2> DEFINE idx == AllocIndex(pool4k, Bits4K, 1)
  <2>1. 1 \in Nat \ {0} /\ Bits4K \in Nat
    OBVIOUS
  <2>2. /\ idx \in 0 .. (Bits4K - 1)
        /\ AllocUsed(pool4k, Bits4K, 1) = pool4k \cup idx .. (idx + 1 - 1)
    BY <1>2, <2>1, AllocFound
  <2> HIDE DEF idx
  <2>3. idx .. (idx + 1 - 1) \subseteq 0 .. (Bits4K - 1) /\ idx \in Nat
    BY <2>2
  <2> QED
    BY <2>2, <2>3 DEF idx
<1> QED
  BY <1>1, <1>2

\* palloc(KERNEL_2M) returns a frame of the core pool, also when it fails.
LEMMA FrameRange ==
  ASSUME TypeOK
  PROVE  /\ PallocFrame \in CoreFrames
         /\ PallocFrame \in Nat
         /\ PallocFrame - CoreStart = AllocIndex(core, Bits, 1)
         /\ AllocUsed(core, Bits, 1) \in SUBSET VPages
<1>1. 1 \in 1 .. MaxCount /\ core \in SUBSET VPages
  BY DEF TypeOK
<1>2. /\ AllocIndex(core, Bits, 1) \in VPages
      /\ AllocUsed(core, Bits, 1) \in SUBSET VPages
  BY <1>1, PoolAlloc, Zenon
<1> DEFINE idx == AllocIndex(core, Bits, 1)
<1>3. PallocFrame = CoreStart + idx
  BY DEF PallocFrame
<1> HIDE DEF idx
<1>4. idx \in Nat /\ CoreStart + idx \in CoreFrames /\ CoreStart \in Nat
  BY <1>2, Ranges DEF idx, VPages
<1> QED
  BY <1>2, <1>3, <1>4 DEF idx
-----------------------------------------------------------------------------
\* What page_alloc's first half does to the derived sets.
LEMMA BeginShape ==
  ASSUME TypeOK, NEW h \in Handles, NEW cnt \in 1 .. MaxCount,
         PageAllocBegin(h, cnt)
  PROVE  /\ call = Nil /\ CallMapped = {} /\ CallPages = {} /\ Mapped = Held
         /\ call' \in Calls /\ call' # Nil
         /\ call'.h = h /\ call'.cnt = cnt /\ call'.done = 0
         /\ call'.base = AllocIndex(virt, Bits, cnt)
         /\ call'.base \in VPages /\ call'.base + cnt <= CorePages
         /\ Live' = Live /\ Held' = Held /\ CallMapped' = {} /\ Mapped' = Mapped
         /\ CallPages' = call'.base .. (call'.base + cnt - 1)
<1> DEFINE base == AllocIndex(virt, Bits, cnt)
<1>1. virt \in SUBSET VPages
  BY DEF TypeOK
<1>2. base \in VPages /\ base + cnt <= CorePages
  BY <1>1, PoolAlloc, Zenon
<1>3. /\ call = Nil /\ ptr' = ptr
      /\ call' = [h |-> h, base |-> base, cnt |-> cnt, done |-> 0]
  BY DEF PageAllocBegin
<1> HIDE DEF base
<1>4. /\ call' \in Calls
      /\ call'.h = h /\ call'.cnt = cnt /\ call'.done = 0 /\ call'.base = base
  BY <1>2, <1>3 DEF Calls
<1>5. call' # Nil
  BY <1>4
<1>6. Live' = Live
  BY <1>3 DEF Live
<1>7. Held' = Held
  BY <1>3, <1>6 DEF Held, Pages
<1>8. CallMapped = {} /\ CallPages = {}
  BY <1>3 DEF CallMapped, CallPages
<1>9. CallMapped' = {}
  BY <1>2, <1>4, <1>5 DEF CallMapped, VPages
<1>10. CallPages' = base .. (base + cnt - 1)
  BY <1>4, <1>5 DEF CallPages, Pages
<1> QED
  BY <1>2, <1>3, <1>4, <1>5, <1>6, <1>7, <1>8, <1>9, <1>10 DEF Mapped, base

LEMMA BeginIInv ==
  ASSUME IInv, NEW h \in Handles, NEW cnt \in 1 .. MaxCount,
         PageAllocBegin(h, cnt)
  PROVE  IInv'
<1> USE DEF IInv
<1>1. PICK base \in VPages :
        /\ base = AllocIndex(virt, Bits, cnt) /\ base + cnt <= CorePages
        /\ call'.base = base /\ CallPages' = base .. (base + cnt - 1)
  BY BeginShape, Zenon
<1>2. /\ call = Nil /\ CallMapped = {} /\ CallPages = {} /\ Mapped = Held
      /\ call' \in Calls /\ call' # Nil
      /\ call'.h = h /\ call'.cnt = cnt /\ call'.done = 0
      /\ Live' = Live /\ Held' = Held /\ CallMapped' = {} /\ Mapped' = Mapped
  BY BeginShape, Zenon
<1>3. /\ ptr' = ptr /\ core' = core /\ pool4k' = pool4k /\ pdpt' = pdpt
      /\ pde' = pde /\ present' = present /\ tlb' = tlb /\ ptr[h] = Nil
      /\ virt' = AllocUsed(virt, Bits, cnt)
      /\ exhausted' = (exhausted \/ AllocFails(virt, Bits, cnt))
      /\ multi' = (multi \/ cnt > 1)
  BY DEF PageAllocBegin
<1>4. TypeOK'
  <2>1. virt \in SUBSET VPages
    BY DEF TypeOK
  <2>2. virt' \in SUBSET VPages
    BY <1>3, <2>1, PoolAlloc, Zenon
  <2>3. exhausted' \in BOOLEAN /\ multi' \in BOOLEAN
    BY <1>3 DEF TypeOK
  <2> QED
    BY <1>2, <1>3, <2>2, <2>3 DEF TypeOK
<1>5. Fits'
  BY <1>1, <1>2, <1>3 DEF Fits
<1>6. Confined' /\ Cached'
  BY <1>2, <1>3 DEF Confined, Cached
<1>7. ASSUME ~exhausted'
      PROVE  /\ ~exhausted /\ ~AllocFails(virt, Bits, cnt)
             /\ base + cnt <= Bits
             /\ \A i \in base .. (base + cnt - 1) : i \notin virt
             /\ virt' = virt \cup base .. (base + cnt - 1)
  <2>1. ~exhausted /\ ~AllocFails(virt, Bits, cnt)
    BY <1>3, <1>7 DEF TypeOK
  <2>2. Bits \in Nat /\ cnt \in Nat \ {0}
    BY BitsRange
  <2>3. LET idx == AllocIndex(virt, Bits, cnt)
        IN  /\ idx + cnt <= Bits
            /\ \A i \in idx .. (idx + cnt - 1) : i \notin virt
            /\ AllocUsed(virt, Bits, cnt) = virt \cup idx .. (idx + cnt - 1)
    BY <2>1, <2>2, AllocFound, Zenon
  <2> QED
    BY <1>1, <1>3, <2>1, <2>3, Zenon
<1>8. Apart'
  <2> SUFFICES ASSUME ~exhausted'
               PROVE  /\ \A g, k \in Live' : g # k => Pages(ptr'[g]) \cap Pages(ptr'[k]) = {}
                      /\ \A k \in Live' : Pages(ptr'[k]) \cap CallPages' = {}
                      /\ virt' = Held' \cup CallPages'
                      /\ virt' \subseteq 0 .. (Bits - 1)
                      /\ \A v, w \in Mapped' : v # w => pde'[v] # pde'[w]
                      /\ core' = {pde'[v] - CoreStart : v \in Mapped'}
                      /\ Mapped' \subseteq present'
    BY DEF Apart, Pages
  <2>1. virt = Held /\ virt \subseteq 0 .. (Bits - 1)
    BY <1>2, <1>7 DEF Apart
  <2>2. /\ base + cnt <= Bits
        /\ \A i \in base .. (base + cnt - 1) : i \notin virt
        /\ virt' = virt \cup base .. (base + cnt - 1)
        /\ ~exhausted
    BY <1>7, Zenon
  <2>3. virt' \subseteq 0 .. (Bits - 1)
    <3>1. base .. (base + cnt - 1) \subseteq 0 .. (Bits - 1)
      BY <2>2, BitsRange DEF VPages
    <3> QED
      BY <2>1, <2>2, <3>1, Zenon
  <2>4. \A k \in Live : Pages(ptr[k]) \cap CallPages' = {}
    BY <1>1, <2>1, <2>2 DEF Held
  <2>5. virt' = Held' \cup CallPages'
    BY <1>1, <1>2, <2>1, <2>2, Zenon
  <2>6. /\ \A v, w \in Mapped : v # w => pde[v] # pde[w]
        /\ core = {pde[v] - CoreStart : v \in Mapped}
        /\ Mapped \subseteq present
        /\ \A g, k \in Live : g # k => Pages(ptr[g]) \cap Pages(ptr[k]) = {}
    BY <2>2, Zenon DEF Apart
  <2> QED
    BY <1>2, <1>3, <2>3, <2>4, <2>5, <2>6
<1>9. InStep'
  <2> SUFFICES ASSUME ~exhausted', ~multi'
               PROVE  /\ \A v \in Mapped' : pde'[v] = CoreStart + v
                      /\ \A v \in present' : pde'[v] \in {CoreStart + v} \cup Foreign(v)
                      /\ \A v \in VPages : tlb'[v] \in {Nil, CoreStart + v} \cup Foreign(v)
                      /\ call'.cnt = 1
                      /\ call'.base = AllocIndex(Held', Bits, 1)
    BY DEF InStep, CoreStart, VPages, Foreign, TableOf, Slot
  <2>1. ~multi /\ cnt = 1
    <3>1. ~multi /\ ~(cnt > 1)
      BY <1>3, Zenon
    <3> QED
      BY <3>1
  <2>2. virt = Held
    BY <1>2, <1>7 DEF Apart
  <2> QED
    BY <1>1, <1>2, <1>3, <1>7, <2>1, <2>2 DEF InStep
<1> QED
  BY <1>4, <1>5, <1>6, <1>8, <1>9
-----------------------------------------------------------------------------
\* page_table_add writes one entry; the entries of mapped pages stay, because
\* their page directory exists and is not zeroed.
LEMMA TableStep ==
  ASSUME TypeOK, NEW v \in VPages, NEW frame \in Nat, PageTableAdd(v, frame)
  PROVE  /\ pool4k' \in SUBSET (0 .. (Bits4K - 1))
         /\ pdpt' \in [Tables -> Nat \cup {Nil}]
         /\ pde' \in [VPages -> Nat]
         /\ present' \in SUBSET VPages
         /\ pde'[v] = frame /\ v \in present' /\ pdpt'[TableOf(v)] # Nil
         /\ \A w \in VPages : pdpt[TableOf(w)] # Nil /\ w # v =>
              /\ pde'[w] = pde[w] /\ (w \in present <=> w \in present')
         /\ \A w \in VPages : pdpt[TableOf(w)] # Nil => pdpt'[TableOf(w)] # Nil
         /\ pdpt[0] # Nil =>
              /\ pdpt'[0] # Nil
              /\ \A w \in present' : w # v => w \in present /\ pde'[w] = pde[w]
              /\ tlb' \in [VPages -> Nat \cup {Nil}]
              /\ \A w \in VPages : tlb'[w] = tlb[w] \/ tlb'[w] \in Foreign(w)
<1> DEFINE table == TableOf(v)
           absent == pdpt[table] = Nil
           fresh == {w \in VPages : absent /\ TableOf(w) = table}
           f4k == AllocIndex(pool4k, Bits4K, 1)
<1>1. /\ f4k \in Nat
      /\ AllocUsed(pool4k, Bits4K, 1) \in SUBSET (0 .. (Bits4K - 1))
  BY TableAlloc DEF TypeOK
<1>2. /\ pdpt' = IF absent THEN [pdpt EXCEPT ![table] = f4k] ELSE pdpt
      /\ pool4k' = IF absent THEN AllocUsed(pool4k, Bits4K, 1) ELSE pool4k
      /\ pde' = [w \in VPages |-> IF w = v THEN frame
                                  ELSE IF w \in fresh THEN 0 ELSE pde[w]]
      /\ present' = (present \ fresh) \cup {v}
  BY DEF PageTableAdd
<1>3. \A w \in VPages : TableOf(w) \in Tables
  BY DEF Tables
<1> HIDE DEF f4k
<1>4. pool4k' \in SUBSET (0 .. (Bits4K - 1))
  <2>1. pool4k \in SUBSET (0 .. (Bits4K - 1))
    BY DEF TypeOK
  <2> HIDE DEF absent
  <2> QED
    BY <1>1, <1>2, <2>1, Zenon
<1>5. pdpt' \in [Tables -> Nat \cup {Nil}]
  BY <1>1, <1>2, <1>3 DEF TypeOK
<1>6. pde' \in [VPages -> Nat] /\ present' \in SUBSET VPages
  BY <1>2 DEF TypeOK
<1>7. pde'[v] = frame /\ v \in present'
  BY <1>2
<1>8. pdpt'[table] # Nil
  BY <1>1, <1>2, <1>3 DEF TypeOK
<1>9. ASSUME NEW w \in VPages, pdpt[TableOf(w)] # Nil
      PROVE  /\ w # v => pde'[w] = pde[w] /\ (w \in present <=> w \in present')
             /\ pdpt'[TableOf(w)] # Nil
  <2>1. w \notin fresh
    BY <1>9
  <2> QED
    BY <1>1, <1>2, <1>3, <1>9, <2>1 DEF TypeOK
<1>10. ASSUME pdpt[0] # Nil
       PROVE  /\ pdpt'[0] # Nil
              /\ \A w \in present' : w # v => w \in present /\ pde'[w] = pde[w]
              /\ tlb' \in [VPages -> Nat \cup {Nil}]
              /\ \A w \in VPages : tlb'[w] = tlb[w] \/ tlb'[w] \in Foreign(w)
  <2>1. pdpt'[0] # Nil
    BY <1>1, <1>2, <1>3, <1>10 DEF TypeOK, Tables
  <2>2. ASSUME NEW w \in present', w # v
        PROVE  w \in present /\ pde'[w] = pde[w]
    BY <1>2, <1>6, <2>2
  <2>3. PICK part \in SUBSET fresh : \E word1 \in [part -> Garbage] :
               tlb' = [w \in VPages |-> IF w \in part THEN word1[w] ELSE tlb[w]]
    BY DEF PageTableAdd
  <2>4. PICK word1 \in [part -> Garbage] :
               tlb' = [w \in VPages |-> IF w \in part THEN word1[w] ELSE tlb[w]]
    BY <2>3
  <2>5. \A w \in part : word1[w] \in Garbage /\ word1[w] \in Nat
    BY <2>4
  <2>6. \A w \in part : Garbage \subseteq Foreign(w)
    <3>1. \A w \in fresh : TableOf(w) # 0
      BY <1>10
    <3> QED
      BY <2>3, <3>1 DEF Foreign
  <2>7. tlb' \in [VPages -> Nat \cup {Nil}]
    BY <2>4, <2>5 DEF TypeOK
  <2>8. \A w \in VPages : tlb'[w] = tlb[w] \/ tlb'[w] \in Foreign(w)
    BY <2>4, <2>5, <2>6
  <2> QED
    BY <2>1, <2>2, <2>7, <2>8
<1> QED
  BY <1>4, <1>5, <1>6, <1>7, <1>8, <1>9, <1>10

\* What a turn of page_alloc's loop does to the derived sets.
LEMMA MapShape ==
  ASSUME TypeOK, Fits, PageAllocMap
  PROVE  LET v == call.base + call.done
         IN  /\ v \in VPages /\ v \notin CallMapped /\ v \in CallPages
             /\ PageTableAdd(v, PallocFrame)
             /\ Mapped' = Mapped \cup {v}
             /\ Held' \cup CallPages' = Held \cup CallPages
             /\ call' \in Calls \cup {Nil}
             /\ ptr' \in [Handles -> Extents \cup {Nil}]
             /\ Fits'
             /\ \/ Live' = Live /\ ptr' = ptr /\ CallPages' = CallPages
                   /\ call'.cnt = call.cnt /\ call.cnt > 1
                \/ /\ Live' = Live \cup {call.h} /\ CallPages' = {} /\ call' = Nil
                   /\ Pages(ptr'[call.h]) = CallPages
                   /\ \A h \in Live : h # call.h /\ ptr'[h] = ptr[h]
<1> DEFINE v == call.base + call.done
<1>1. call # Nil /\ call \in Calls /\ PageTableAdd(v, PallocFrame)
  BY DEF PageAllocMap, TypeOK
<1>2. /\ call.base \in VPages /\ call.cnt \in 1 .. MaxCount
      /\ call.done \in 0 .. (MaxCount - 1) /\ call.h \in Handles
      /\ call.base + call.cnt <= CorePages /\ call.done < call.cnt
      /\ ptr[call.h] = Nil /\ call.h \notin Live
  BY <1>1 DEF Calls, Fits, Live
<1>3. v \in VPages /\ v \notin CallMapped /\ v \in CallPages
  BY <1>1, <1>2 DEF CallMapped, CallPages, Pages, VPages
<1>4. CASE call.done + 1 = call.cnt
  <2>1. /\ ptr' = [ptr EXCEPT ![call.h] = [base |-> call.base, cnt |-> call.cnt]]
        /\ call' = Nil
    BY <1>4 DEF PageAllocMap
  <2> DEFINE e == [base |-> call.base, cnt |-> call.cnt]
  <2>2. e \in Extents
    BY <1>2 DEF Extents
  <2>3. ptr' \in [Handles -> Extents \cup {Nil}]
    BY <1>2, <2>1, <2>2 DEF TypeOK
  <2>4. ptr'[call.h] = e /\ e # Nil
    BY <1>2, <2>1, <2>2 DEF TypeOK
  <2>5. \A h \in Live : h # call.h /\ ptr'[h] = ptr[h]
    BY <1>2, <2>1 DEF TypeOK, Live
  <2>6. Live' = Live \cup {call.h}
    BY <1>2, <2>1, <2>4 DEF TypeOK, Live
  <2>7. Pages(ptr'[call.h]) = CallPages
    BY <1>1, <2>4 DEF CallPages, Pages
  <2>8. CallPages' = {} /\ CallMapped' = {}
    BY <2>1 DEF CallPages, CallMapped
  <2>9. Held' = Held \cup CallPages
    <3>1. Held' = UNION {Pages(ptr'[h]) : h \in Live'}
      BY DEF Held, Pages
    <3> QED
      BY <3>1, <2>5, <2>6, <2>7 DEF Held
  <2>10. CallPages = CallMapped \cup {v}
    BY <1>1, <1>2, <1>4 DEF CallMapped, CallPages, Pages, VPages
  <2>11. Fits'
    <3>1. \A h \in Live' : ptr'[h].base + ptr'[h].cnt <= CorePages
      BY <1>2, <2>4, <2>5, <2>6 DEF Fits
    <3> QED
      BY <2>1, <3>1 DEF Fits
  <2>12. Mapped' = Mapped \cup {v}
    BY <2>8, <2>9, <2>10 DEF Mapped
  <2> QED
    BY <1>1, <1>3, <2>1, <2>3, <2>5, <2>6, <2>7, <2>8, <2>9, <2>11, <2>12
<1>5. CASE call.done + 1 # call.cnt
  <2>1. call' = [call EXCEPT !.done = @ + 1] /\ ptr' = ptr
    BY <1>5 DEF PageAllocMap
  <2>2. /\ call' \in Calls /\ call'.cnt = call.cnt /\ call'.base = call.base
        /\ call'.done = call.done + 1 /\ call'.h = call.h /\ call.cnt > 1
    BY <1>1, <1>2, <1>5, <2>1 DEF Calls
  <2>3. call' # Nil
    BY <2>2
  <2>4. Live' = Live /\ Held' = Held
    BY <2>1 DEF Live, Held, Pages
  <2>5. CallPages' = CallPages
    BY <1>1, <2>2, <2>3 DEF CallPages, Pages
  <2>6. CallMapped' = CallMapped \cup {v}
    BY <1>1, <1>2, <2>2, <2>3 DEF CallMapped, VPages
  <2>7. Fits'
    <3>1. call'.base + call'.cnt <= CorePages /\ call'.done < call'.cnt
      BY <1>2, <1>5, <2>2 DEF VPages
    <3>2. \A h \in Live : ptr[h].base + ptr[h].cnt <= CorePages
      BY DEF Fits
    <3> QED
      BY <1>2, <2>1, <2>2, <2>4, <3>1, <3>2 DEF Fits
  <2>8. Mapped' = Mapped \cup {v}
    BY <2>4, <2>6 DEF Mapped
  <2>9. ptr' \in [Handles -> Extents \cup {Nil}]
    BY <2>1 DEF TypeOK
  <2> QED
    BY <1>1, <1>3, <2>1, <2>2, <2>4, <2>5, <2>7, <2>8, <2>9
<1> QED
  BY <1>4, <1>5
LEMMA MapIInv ==
  ASSUME IInv, PageAllocMap
  PROVE  IInv'
<1> USE DEF IInv
<1> DEFINE v == call.base + call.done
           idx == AllocIndex(core, Bits, 1)
<1>1. /\ v \in VPages /\ v \notin CallMapped /\ v \in CallPages
      /\ PageTableAdd(v, PallocFrame)
      /\ Mapped' = Mapped \cup {v}
      /\ Held' \cup CallPages' = Held \cup CallPages
      /\ call' \in Calls \cup {Nil}
      /\ ptr' \in [Handles -> Extents \cup {Nil}]
      /\ Fits'
  BY MapShape, Zenon
<1>2. \/ Live' = Live /\ ptr' = ptr /\ CallPages' = CallPages
         /\ call'.cnt = call.cnt /\ call.cnt > 1
      \/ /\ Live' = Live \cup {call.h} /\ CallPages' = {} /\ call' = Nil
         /\ Pages(ptr'[call.h]) = CallPages
         /\ \A h \in Live : h # call.h /\ ptr'[h] = ptr[h]
  BY MapShape, Zenon
<1>3. /\ virt' = virt /\ multi' = multi /\ call # Nil
      /\ core' = AllocUsed(core, Bits, 1)
      /\ exhausted' = (exhausted \/ AllocFails(core, Bits, 1))
  BY DEF PageAllocMap
<1>4. /\ PallocFrame \in CoreFrames /\ PallocFrame \in Nat
      /\ PallocFrame - CoreStart = idx
      /\ AllocUsed(core, Bits, 1) \in SUBSET VPages
  BY FrameRange
<1> HIDE DEF v, idx
<1>5. /\ pool4k' \in SUBSET (0 .. (Bits4K - 1))
      /\ pdpt' \in [Tables -> Nat \cup {Nil}]
      /\ pde' \in [VPages -> Nat]
      /\ present' \in SUBSET VPages
      /\ pde'[v] = PallocFrame /\ v \in present' /\ pdpt'[TableOf(v)] # Nil
      /\ \A w \in VPages : pdpt[TableOf(w)] # Nil /\ w # v =>
              /\ pde'[w] = pde[w] /\ (w \in present <=> w \in present')
      /\ \A w \in VPages : pdpt[TableOf(w)] # Nil => pdpt'[TableOf(w)] # Nil
      /\ pdpt'[0] # Nil
      /\ \A w \in present' : w # v => w \in present /\ pde'[w] = pde[w]
      /\ tlb' \in [VPages -> Nat \cup {Nil}]
      /\ \A w \in VPages : tlb'[w] = tlb[w] \/ tlb'[w] \in Foreign(w)
  BY <1>1, <1>4, TableStep DEF Cached
<1>6. TypeOK'
  <2>1. core' \in SUBSET VPages /\ exhausted' \in BOOLEAN
    BY <1>3, <1>4
  <2> QED
    BY <1>1, <1>3, <1>5, <2>1 DEF TypeOK
<1>7. Mapped \subseteq VPages /\ \A w \in Mapped : pdpt[TableOf(w)] # Nil /\ pde[w] \in CoreFrames
  BY HeldRange DEF Confined
<1>8. Confined' /\ Cached'
  <2>1. \A w \in Mapped' : pde'[w] \in CoreFrames /\ pdpt'[TableOf(w)] # Nil
    BY <1>1, <1>4, <1>5, <1>7
  <2>2. \A w \in present' : pde'[w] \in CoreFrames \cup Foreign(w)
    BY <1>4, <1>5 DEF Cached
  <2>3. \A w \in VPages : tlb'[w] \in CoreFrames \cup {Nil} \cup Foreign(w)
    BY <1>5 DEF Cached
  <2>4. Confined'
    BY <2>1 DEF Confined, CoreFrames, CoreStart, TableOf, Slot, VPages
  <2>5. Cached'
    BY <1>5, <2>2, <2>3
       DEF Cached, CoreFrames, CoreStart, TableOf, Slot, VPages, Foreign
  <2> QED
    BY <2>4, <2>5
<1>9. ASSUME ~exhausted'
      PROVE  /\ ~exhausted /\ idx \notin core /\ core' = core \cup {idx}
             /\ v \notin Mapped
             /\ \A w \in Mapped : w # v /\ pde'[w] = pde[w] /\ w \in present'
  <2>1. ~exhausted /\ ~AllocFails(core, Bits, 1)
    BY <1>3, <1>9, Zenon
  <2>2. Bits \in Nat /\ 1 \in Nat \ {0}
    BY BitsRange
  <2>3. LET i == AllocIndex(core, Bits, 1)
        IN  /\ i \in 0 .. (Bits - 1)
            /\ \A j \in i .. (i + 1 - 1) : j \notin core
            /\ AllocUsed(core, Bits, 1) = core \cup i .. (i + 1 - 1)
    BY <2>1, <2>2, AllocFound, Zenon
  <2>4. idx \in 0 .. (Bits - 1) /\ idx \notin core /\ core' = core \cup {idx}
    <3>1. /\ idx \in 0 .. (Bits - 1)
          /\ \A j \in idx .. (idx + 1 - 1) : j \notin core
          /\ core' = core \cup idx .. (idx + 1 - 1)
      BY <1>3, <2>3 DEF idx
    <3>2. idx .. (idx + 1 - 1) = {idx}
      BY <3>1
    <3> QED
      BY <3>1, <3>2, Zenon
  <2>5. v \notin Mapped
    BY <1>1, <2>1 DEF Apart, Mapped, Held
  <2>6. Mapped \subseteq present
    BY <2>1 DEF Apart
  <2> QED
    BY <1>5, <1>7, <2>1, <2>4, <2>5, <2>6
<1>10. Apart'
  <2> SUFFICES ASSUME ~exhausted'
               PROVE  /\ \A g, k \in Live' : g # k => Pages(ptr'[g]) \cap Pages(ptr'[k]) = {}
                      /\ \A k \in Live' : Pages(ptr'[k]) \cap CallPages' = {}
                      /\ virt' = Held' \cup CallPages'
                      /\ virt' \subseteq 0 .. (Bits - 1)
                      /\ \A x, w \in Mapped' : x # w => pde'[x] # pde'[w]
                      /\ core' = {pde'[x] - CoreStart : x \in Mapped'}
                      /\ Mapped' \subseteq present'
    BY DEF Apart, Pages, Bits, CoreStart
  <2>1. /\ ~exhausted /\ idx \notin core /\ core' = core \cup {idx}
        /\ v \notin Mapped
        /\ \A w \in Mapped : w # v /\ pde'[w] = pde[w] /\ w \in present'
    BY <1>9, Zenon
  <2>2. /\ \A g, k \in Live : g # k => Pages(ptr[g]) \cap Pages(ptr[k]) = {}
        /\ \A k \in Live : Pages(ptr[k]) \cap CallPages = {}
        /\ virt = Held \cup CallPages
        /\ virt \subseteq 0 .. (Bits - 1)
        /\ \A x, w \in Mapped : x # w => pde[x] # pde[w]
        /\ core = {pde[x] - CoreStart : x \in Mapped}
    BY <2>1, Zenon DEF Apart
  <2>3. /\ \A g, k \in Live' : g # k => Pages(ptr'[g]) \cap Pages(ptr'[k]) = {}
        /\ \A k \in Live' : Pages(ptr'[k]) \cap CallPages' = {}
    <3>1. CASE Live' = Live /\ ptr' = ptr /\ CallPages' = CallPages
      BY <3>1, <2>2
    <3>2. CASE /\ Live' = Live \cup {call.h} /\ CallPages' = {}
               /\ Pages(ptr'[call.h]) = CallPages
               /\ \A h \in Live : h # call.h /\ ptr'[h] = ptr[h]
      <4>1. \A k \in Live : Pages(ptr'[k]) = Pages(ptr[k])
        BY <3>2
      <4> QED
        BY <3>2, <4>1, <2>2
    <3> QED
      BY <3>1, <3>2, <1>2, Zenon
  <2>4. virt' = Held' \cup CallPages' /\ virt' \subseteq 0 .. (Bits - 1)
    BY <1>1, <1>3, <2>2
  <2>5. \A x \in Mapped : pde[x] - CoreStart # idx
    BY <2>1, <2>2
  <2>6. \A x \in Mapped : pde'[x] # pde'[v]
    BY <1>4, <1>5, <2>1, <2>5
  <2>7. \A x, w \in Mapped' : x # w => pde'[x] # pde'[w]
    BY <1>1, <2>1, <2>2, <2>6
  <2>8. core' = {pde'[x] - CoreStart : x \in Mapped'}
    <3>1. pde'[v] - CoreStart = idx
      BY <1>4, <1>5
    <3> QED
      BY <1>1, <2>1, <2>2, <3>1
  <2>9. Mapped' \subseteq present'
    BY <1>1, <1>5, <2>1
  <2> QED
    BY <2>3, <2>4, <2>7, <2>8, <2>9
<1>11. InStep'
  <2> SUFFICES ASSUME ~exhausted', ~multi'
               PROVE  /\ \A w \in Mapped' : pde'[w] = CoreStart + w
                      /\ \A w \in present' : pde'[w] \in {CoreStart + w} \cup Foreign(w)
                      /\ \A w \in VPages : tlb'[w] \in {Nil, CoreStart + w} \cup Foreign(w)
                      /\ call' = Nil
    BY DEF InStep, CoreStart, VPages, Foreign, TableOf, Slot
  <2>1. /\ ~exhausted /\ v \notin Mapped
        /\ \A w \in Mapped : w # v /\ pde'[w] = pde[w]
    BY <1>9, Zenon
  <2>2. /\ \A w \in Mapped : pde[w] = CoreStart + w
        /\ \A w \in present : pde[w] \in {CoreStart + w} \cup Foreign(w)
        /\ \A w \in VPages : tlb[w] \in {Nil, CoreStart + w} \cup Foreign(w)
        /\ call.cnt = 1 /\ call.base = AllocIndex(Held, Bits, 1)
    BY <1>3, <2>1, Zenon DEF InStep
  <2>3. call.done = 0 /\ v = call.base /\ call.base \in VPages
    BY <1>3, <2>2 DEF TypeOK, Calls, Fits, VPages, v
  <2>4. CallMapped = {} /\ Mapped = Held
    BY <2>3 DEF CallMapped, Mapped, VPages
  <2>5. core = Held
    <3>1. core = {pde[x] - CoreStart : x \in Mapped}
      BY <2>1, Zenon DEF Apart
    <3>2. \A x \in Mapped : pde[x] - CoreStart = x
      BY <1>7, <2>2, Ranges DEF VPages
    <3> QED
      BY <2>4, <3>1, <3>2
  <2>6. idx = v
    BY <2>2, <2>3, <2>5, Zenon DEF idx
  <2>7. pde'[v] = CoreStart + v
    BY <1>4, <1>5, <2>6, Ranges
  <2>8. call' = Nil
    BY <1>2, <2>2
  <2>9. \A w \in present' : pde'[w] \in {CoreStart + w} \cup Foreign(w)
    BY <1>5, <2>2, <2>7
  <2>10. \A w \in VPages : tlb'[w] \in {Nil, CoreStart + w} \cup Foreign(w)
    BY <1>5, <2>2
  <2> QED
    BY <1>1, <1>3, <2>1, <2>2, <2>7, <2>8, <2>9, <2>10
<1> QED
  BY <1>1, <1>6, <1>8, <1>10, <1>11
-----------------------------------------------------------------------------
LEMMA FreeIInv ==
  ASSUME IInv, NEW h \in Handles, PageFree(h)
  PROVE  IInv'
<1> USE DEF IInv
<1> DEFINE run == Pages(ptr[h])
           freed == PfreeCore({pde[v] : v \in run})
<1>1. /\ call = Nil /\ call' = Nil /\ ptr[h] # Nil /\ h \in Live
      /\ virt' = ConClear(virt, Bits, ptr[h].base, ptr[h].cnt)
      /\ core' = core \ freed
      /\ present' = present \ run
      /\ ptr' = [ptr EXCEPT ![h] = Nil]
      /\ pool4k' = pool4k /\ pdpt' = pdpt /\ pde' = pde /\ tlb' = tlb
      /\ exhausted' = exhausted /\ multi' = multi
  BY DEF PageFree, Live
<1>2. /\ ptr[h] \in Extents /\ run \subseteq VPages
      /\ Mapped \subseteq VPages /\ Held \subseteq VPages
  BY <1>1, HeldRange
<1>3. Live' = Live \ {h} /\ \A k \in Live' : ptr'[k] = ptr[k]
  BY <1>1 DEF Live, TypeOK
<1>4. /\ CallPages = {} /\ CallMapped = {} /\ CallPages' = {} /\ CallMapped' = {}
  BY <1>1 DEF CallPages, CallMapped
<1>5. /\ Held = UNION {Pages(ptr[k]) : k \in Live}
      /\ Held' = UNION {Pages(ptr[k]) : k \in Live'}
  <2>1. Held' = UNION {Pages(ptr'[k]) : k \in Live'}
    BY DEF Held, Pages
  <2> QED
    BY <1>3, <2>1 DEF Held
<1>6. Mapped = Held /\ Mapped' = Held' /\ Held' \subseteq Held /\ run \subseteq Held
  BY <1>1, <1>3, <1>4, <1>5 DEF Mapped
<1>7. TypeOK'
  <2>1. virt' \in SUBSET VPages
    BY <1>1 DEF TypeOK, ConClear
  <2>2. ptr' \in [Handles -> Extents \cup {Nil}]
    BY <1>1 DEF TypeOK
  <2> QED
    BY <1>1, <2>1, <2>2 DEF TypeOK
<1>8. Fits'
  BY <1>1, <1>3 DEF Fits
<1>9. Confined' /\ Cached'
  BY <1>1, <1>6
     DEF Confined, Cached, CoreFrames, CoreStart, TableOf, Slot, VPages, Foreign
<1>10. Apart'
  <2> SUFFICES ASSUME ~exhausted
               PROVE  /\ \A g, k \in Live' : g # k => Pages(ptr'[g]) \cap Pages(ptr'[k]) = {}
                      /\ \A k \in Live' : Pages(ptr'[k]) \cap CallPages' = {}
                      /\ virt' = Held' \cup CallPages'
                      /\ virt' \subseteq 0 .. (Bits - 1)
                      /\ \A x, w \in Mapped' : x # w => pde'[x] # pde'[w]
                      /\ core' = {pde'[x] - CoreStart : x \in Mapped'}
                      /\ Mapped' \subseteq present'
    BY <1>1 DEF Apart, Pages, Bits, CoreStart
  <2>1. /\ \A g, k \in Live : g # k => Pages(ptr[g]) \cap Pages(ptr[k]) = {}
        /\ virt = Held
        /\ virt \subseteq 0 .. (Bits - 1)
        /\ \A x, w \in Held : x # w => pde[x] # pde[w]
        /\ core = {pde[x] - CoreStart : x \in Held}
        /\ Held \subseteq present
    BY <1>4, <1>6 DEF Apart
  <2>2. Held' = Held \ run
    BY <1>1, <1>3, <1>5, <2>1
  <2>3. /\ ptr[h].base \in VPages /\ ptr[h].cnt \in 1 .. MaxCount
        /\ run = ptr[h].base .. (ptr[h].base + ptr[h].cnt - 1)
    BY <1>2 DEF Extents, Pages
  <2>4. ptr[h].base + ptr[h].cnt <= Bits
    <3>1. (ptr[h].base + ptr[h].cnt - 1) \in run
      BY <2>3 DEF VPages
    <3>2. (ptr[h].base + ptr[h].cnt - 1) \in 0 .. (Bits - 1)
      BY <1>6, <2>1, <3>1
    <3> QED
      BY <2>3, <3>2, BitsRange DEF VPages
  <2>5. virt' = Held'
    <3>1. ~(ptr[h].base + ptr[h].cnt > Bits)
      BY <2>3, <2>4, BitsRange DEF VPages
    <3>2. virt' = virt \ (ptr[h].base .. (ptr[h].base + ptr[h].cnt - 1))
      BY <1>1, <3>1 DEF ConClear
    <3> QED
      BY <2>1, <2>2, <2>3, <3>2
  <2>6. freed = {pde[x] - CoreStart : x \in run}
    <3>1. \A x \in run : pde[x] \in CoreFrames
      BY <1>6 DEF Confined
    <3> QED
      BY <3>1 DEF PfreeCore
  <2>7. core' = {pde[x] - CoreStart : x \in Held'}
    <3>1. \A x, w \in Held : x # w => pde[x] - CoreStart # pde[w] - CoreStart
      <4>1. \A x \in Held : pde[x] \in Int
        BY <1>2 DEF TypeOK
      <4> QED
        BY <2>1, <4>1, Ranges
    <3> HIDE DEF freed
    <3> QED
      BY <1>1, <1>6, <2>1, <2>2, <2>6, <3>1
  <2>8. \A g, k \in Live' : g # k => Pages(ptr'[g]) \cap Pages(ptr'[k]) = {}
    BY <1>3, <2>1
  <2>9. Held' \subseteq present'
    BY <1>1, <2>1, <2>2
  <2> QED
    BY <1>1, <1>4, <1>6, <2>1, <2>2, <2>5, <2>7, <2>8, <2>9
<1>11. InStep'
  BY <1>1, <1>6 DEF InStep, CoreStart, VPages, Foreign, TableOf, Slot
<1> QED
  BY <1>7, <1>8, <1>9, <1>10, <1>11

\* The processor's own steps change nothing but the TLB.
LEMMA SameSets ==
  ASSUME UNCHANGED <<ptr, call>>
  PROVE  /\ Live' = Live /\ Held' = Held /\ CallPages' = CallPages
         /\ CallMapped' = CallMapped /\ Mapped' = Mapped
BY DEF Live, Held, CallPages, CallMapped, Mapped, Pages

LEMMA TlbIInv ==
  ASSUME IInv, UNCHANGED <<virt, core, pool4k, pdpt, pde, present, ptr, call, exhausted, multi>>,
         tlb' \in [VPages -> Nat \cup {Nil}],
         \A v \in VPages : tlb'[v] = tlb[v] \/ tlb'[v] = Nil
                           \/ (v \in present /\ tlb'[v] = pde[v])
  PROVE  IInv'
<1> USE DEF IInv
<1>1. /\ Live' = Live /\ Held' = Held /\ CallPages' = CallPages
      /\ CallMapped' = CallMapped /\ Mapped' = Mapped
  BY SameSets
<1>3. TypeOK' /\ Fits'
  BY <1>1 DEF TypeOK, Fits
<1>4. Confined' /\ Cached'
  <2>1. \A v \in VPages : tlb'[v] \in CoreFrames \cup {Nil} \cup Foreign(v)
    BY DEF Cached
  <2> QED
    BY <1>1, <2>1
       DEF Confined, Cached, CoreFrames, CoreStart, TableOf, Slot, VPages, Foreign
<1>5. Apart'
  BY <1>1 DEF Apart, Pages, Bits, CoreStart
<1>6. InStep'
  <2> SUFFICES ASSUME ~exhausted, ~multi
               PROVE  /\ \A v \in Mapped : pde[v] = CoreStart + v
                      /\ \A v \in present : pde[v] \in {CoreStart + v} \cup Foreign(v)
                      /\ \A v \in VPages : tlb'[v] \in {Nil, CoreStart + v} \cup Foreign(v)
                      /\ call # Nil => /\ call.cnt = 1
                                       /\ call.base = AllocIndex(Held, Bits, 1)
    BY <1>1 DEF InStep, CoreStart, VPages, Bits, Foreign, TableOf, Slot
  <2> QED
    BY DEF InStep
<1> QED
  BY <1>3, <1>4, <1>5, <1>6
-----------------------------------------------------------------------------
LEMMA InitIInv == Init => IInv
<1> SUFFICES ASSUME Init PROVE IInv
  OBVIOUS
<1> USE DEF Init
<1>1. Live = {} /\ CallPages = {} /\ CallMapped = {}
  BY DEF Live, CallPages, CallMapped
<1>2. Held = {} /\ Mapped = {}
  BY <1>1 DEF Held, Mapped
<1>3. TypeOK
  <2>1. pdpt \in [Tables -> Nat \cup {Nil}]
    BY DEF BootTable
  <2>2. pde \in [VPages -> Nat]
    BY DEF Slot, VPages
  <2>3. /\ virt \in SUBSET VPages /\ core \in SUBSET VPages
        /\ pool4k \in SUBSET (0 .. (Bits4K - 1)) /\ present \in SUBSET VPages
    OBVIOUS
  <2> QED
    BY <2>1, <2>2, <2>3 DEF TypeOK
<1>4. Fits /\ Confined /\ Cached
  <2>1. pdpt[0] # Nil
    BY DEF Tables, BootTable
  <2>2. \A v \in present : pde[v] \in Foreign(v)
    BY DEF Foreign
  <2> QED
    BY <1>1, <1>2, <2>1, <2>2 DEF Fits, Confined, Cached
<1>5. Apart
  BY <1>1, <1>2 DEF Apart
<1>6. InStep
  BY <1>1, <1>2 DEF InStep, Foreign
<1> QED
  BY <1>3, <1>4, <1>5, <1>6 DEF IInv

LEMMA StepIInv == IInv /\ [Next]_vars => IInv'
<1> SUFFICES ASSUME IInv, [Next]_vars PROVE IInv'
  OBVIOUS
<1>1. ASSUME NEW h \in Handles, NEW cnt \in 1 .. MaxCount, PageAllocBegin(h, cnt)
      PROVE  IInv'
  BY <1>1, BeginIInv
<1>2. CASE PageAllocMap
  BY <1>2, MapIInv
<1>3. ASSUME NEW h \in Handles, PageFree(h)
      PROVE  IInv'
  BY <1>3, FreeIInv
<1>4. ASSUME NEW v \in VPages, Cache(v)
      PROVE  IInv'
  <2>1. /\ tlb' \in [VPages -> Nat \cup {Nil}]
        /\ \A w \in VPages : tlb'[w] = tlb[w] \/ (w \in present /\ tlb'[w] = pde[w])
    BY <1>4 DEF Cache, IInv, TypeOK
  <2>2. UNCHANGED <<virt, core, pool4k, pdpt, pde, present, ptr, call, exhausted, multi>>
    BY <1>4 DEF Cache
  <2> QED
    BY <2>1, <2>2, TlbIInv
<1>5. ASSUME NEW v \in VPages, Evict(v)
      PROVE  IInv'
  <2>1. /\ tlb' \in [VPages -> Nat \cup {Nil}]
        /\ \A w \in VPages : tlb'[w] = tlb[w] \/ tlb'[w] = Nil
    BY <1>5 DEF Evict, IInv, TypeOK
  <2>2. UNCHANGED <<virt, core, pool4k, pdpt, pde, present, ptr, call, exhausted, multi>>
    BY <1>5 DEF Evict
  <2> QED
    BY <2>1, <2>2, TlbIInv
<1>6. CASE UNCHANGED vars
  <2>1. UNCHANGED <<virt, core, pool4k, pdpt, pde, present, ptr, call, exhausted, multi>>
    BY <1>6 DEF vars
  <2>2. /\ tlb' \in [VPages -> Nat \cup {Nil}]
        /\ \A w \in VPages : tlb'[w] = tlb[w]
    BY <1>6 DEF vars, IInv, TypeOK
  <2> QED
    BY <2>1, <2>2, TlbIInv
<1> QED
  BY <1>1, <1>2, <1>3, <1>4, <1>5, <1>6 DEF Next

LEMMA InductiveIInv == Spec => []IInv
BY InitIInv, StepIInv, PTL DEF Spec
-----------------------------------------------------------------------------
\* Every variable keeps its type: no bit is set outside the maps, whatever
\* fails.
THEOREM TypeCorrect == Spec => []TypeOK
<1>1. IInv => TypeOK
  BY DEF IInv
<1> QED
  BY <1>1, InductiveIInv, PTL

\* Until an allocation fails, no page and no frame has two owners.
THEOREM SoleOwnership == Spec => []SoleOwner
<1>1. IInv => SoleOwner
  <2> SUFFICES ASSUME IInv, ~exhausted
               PROVE  /\ \A g, h \in Live : g # h => Pages(ptr[g]) \cap Pages(ptr[h]) = {}
                      /\ \A v, w \in Held : v # w => pde[v] # pde[w]
                      /\ Held \subseteq present
    BY DEF SoleOwner
  <2> QED
    BY DEF IInv, Apart, Mapped
<1> QED
  BY <1>1, InductiveIInv, PTL

\* Between calls the bitmaps account for exactly what is held.
THEOREM ExactAccounting == Spec => []Accounting
<1>1. IInv => Accounting
  <2> SUFFICES ASSUME IInv, ~exhausted, call = Nil
               PROVE  virt = Held /\ core = {pde[v] - CoreStart : v \in Held}
    BY DEF Accounting
  <2> QED
    BY DEF IInv, Apart, Mapped, CallPages, CallMapped
<1> QED
  BY <1>1, InductiveIInv, PTL

\* As long as pages are taken one at a time, the invlpg that page_table_remove
\* aims at the wrong address is not missed: a held page is reached through the
\* page table's frame, or through a translation from before the allocator's
\* first write of its entry, which page_table_add does not invalidate.
THEOREM Coherence == Spec => []CoherentWhileSingle
<1>1. IInv => CoherentWhileSingle
  <2> SUFFICES ASSUME IInv, ~exhausted, ~multi, NEW v \in Held
               PROVE  tlb[v] \in {Nil, pde[v]} \cup Foreign(v)
    BY DEF CoherentWhileSingle
  <2>1. v \in VPages /\ v \in Mapped
    BY HeldRange DEF IInv, Mapped
  <2> QED
    BY <2>1 DEF IInv, InStep
<1> QED
  BY <1>1, InductiveIInv, PTL

\* What the allocator hands out lies in the core pool, also after failures; a
\* translation that leads elsewhere is older than the page's first allocation.
THEOREM Confinement == Spec => []PoolConfined
<1>1. IInv => PoolConfined
  <2> SUFFICES ASSUME IInv, NEW v \in Held
               PROVE  /\ pde[v] \in CoreFrames
                      /\ tlb[v] \in CoreFrames \cup {Nil} \cup Foreign(v)
    BY DEF PoolConfined
  <2>1. v \in VPages /\ v \in Mapped
    BY HeldRange DEF IInv, Mapped
  <2> QED
    BY <2>1 DEF IInv, Confined, Cached
<1> QED
  BY <1>1, InductiveIInv, PTL
-----------------------------------------------------------------------------
\* The page directories that were taken from the 4 KB pool.
Filled == {t \in Tables : t # 0 /\ pdpt[t] # Nil}

\* The 4 KB pool's bitmap is the set of their frames.
TablesInv ==
  /\ pdpt[0] = BootTable
  /\ pool4k = {pdpt[t] : t \in Filled}
  /\ TablesApart

LEMMA TablesRange == Tables \subseteq 0 .. Bits4K
BY TableRoom DEF Tables

\* While a directory is missing there is a frame for it.
LEMMA TableFree ==
  ASSUME TypeOK, TablesInv, NEW t \in Tables, pdpt[t] = Nil
  PROVE  ~AllocFails(pool4k, Bits4K, 1)
<1> DEFINE others == (1 .. Bits4K) \ {t}
           f == [s \in Filled |-> pdpt[s]]
<1>1. t \in 1 .. Bits4K
  <2>1. t # 0
    BY DEF TablesInv, BootTable
  <2> QED
    BY <2>1, TablesRange
<1>2. IsFiniteSet(others) /\ Cardinality(others) = Bits4K - 1
  <2> DEFINE all == 1 .. Bits4K
  <2>1. IsFiniteSet(all) /\ Cardinality(all) = Bits4K /\ t \in all
    BY <1>1, FS_Interval
  <2> HIDE DEF all
  <2>2. IsFiniteSet(all \ {t}) /\ Cardinality(all \ {t}) = Cardinality(all) - 1
    BY <2>1, FS_RemoveElement
  <2> QED
    BY <2>1, <2>2 DEF all
<1>3. IsFiniteSet(Filled) /\ Cardinality(Filled) <= Bits4K - 1
  <2>1. Filled \in SUBSET others
    <3> SUFFICES ASSUME NEW s \in Filled PROVE s \in others
      OBVIOUS
    <3>1. s \in Tables /\ s # 0 /\ s # t
      BY DEF Filled
    <3>2. s \in 0 .. Bits4K
      BY <3>1, TablesRange
    <3> QED
      BY <3>1, <3>2
  <2> HIDE DEF others
  <2> QED
    BY <1>2, <2>1, FS_Subset
<1>4. f \in Surjection(Filled, pool4k)
  BY DEF TablesInv, Surjection
<1>5. IsFiniteSet(pool4k) /\ Cardinality(pool4k) <= Cardinality(Filled)
  <2> HIDE DEF f
  <2> QED
    BY <1>3, <1>4, FS_Surjection
<1>6. PICK i \in 0 .. (Bits4K - 1) : i \notin pool4k
  <2> SUFFICES ASSUME pool4k = 0 .. (Bits4K - 1) PROVE FALSE
    BY DEF TypeOK
  <2>1. Cardinality(pool4k) = Bits4K
    BY <1>1, FS_Interval
  <2>2. Cardinality(Filled) \in Nat
    BY <1>3, FS_CardinalityType
  <2> QED
    BY <1>3, <1>5, <2>1, <2>2
<1>7. i \in FreeRuns(pool4k, Bits4K, 1)
  BY <1>6 DEF FreeRuns, RunFree
<1> DEFINE runs == FreeRuns(pool4k, Bits4K, 1)
           first == CHOOSE s \in runs : \A r \in runs : s <= r
<1>8. runs \subseteq Nat /\ runs # {}
  BY <1>7 DEF FreeRuns
<1>9. first \in Nat
  <2> HIDE DEF runs
  <2> QED
    BY <1>8, NatMin
<1>10. Scan(pool4k, Bits4K, 1) = first
  BY <1>8 DEF Scan
<1> HIDE DEF first
<1> QED
  BY <1>9, <1>10 DEF AllocFails, NotFound

\* page_table_add takes a frame that no other directory has.
LEMMA TableApart ==
  ASSUME TypeOK, TablesInv, NEW v \in VPages, NEW frame, PageTableAdd(v, frame)
  PROVE  TablesInv'
<1> DEFINE t == TableOf(v)
           f4k == AllocIndex(pool4k, Bits4K, 1)
<1>0. t \in Tables /\ 0 \in Tables
  BY DEF Tables
<1>1. CASE pdpt[t] # Nil
  <2>1. pdpt' = pdpt /\ pool4k' = pool4k
    BY <1>1 DEF PageTableAdd
  <2> QED
    BY <2>1 DEF TablesInv, Filled, TablesApart
<1>2. CASE pdpt[t] = Nil
  <2>1. ~AllocFails(pool4k, Bits4K, 1)
    BY <1>0, <1>2, TableFree
  <2>2. /\ f4k \in 0 .. (Bits4K - 1) /\ f4k \notin pool4k
        /\ AllocUsed(pool4k, Bits4K, 1) = pool4k \cup {f4k}
    <3>1. 1 \in Nat \ {0} /\ Bits4K \in Nat
      OBVIOUS
    <3>2. /\ f4k \in 0 .. (Bits4K - 1)
          /\ \A i \in f4k .. (f4k + 1 - 1) : i \notin pool4k
          /\ AllocUsed(pool4k, Bits4K, 1) = pool4k \cup f4k .. (f4k + 1 - 1)
      BY <2>1, <3>1, AllocFound, Zenon
    <3> HIDE DEF f4k
    <3>3. f4k .. (f4k + 1 - 1) = {f4k}
      BY <3>2
    <3> QED
      BY <3>2, <3>3
  <2>3. pdpt' = [pdpt EXCEPT ![t] = f4k] /\ pool4k' = pool4k \cup {f4k}
    BY <1>2, <2>2 DEF PageTableAdd
  <2>4. t # 0 /\ f4k # Nil /\ f4k # BootTable
    BY <1>2, <2>2 DEF TablesInv, BootTable
  <2> HIDE DEF f4k, t
  <2>5. /\ pdpt'[t] = f4k
        /\ \A s \in Tables : s # t => pdpt'[s] = pdpt[s]
    BY <1>0, <2>3 DEF TypeOK
  <2>6. Filled' = Filled \cup {t} /\ t \notin Filled
    BY <1>0, <1>2, <2>4, <2>5 DEF Filled
  <2>7. pool4k' = {pdpt'[s] : s \in Filled'}
    <3>1. \A s \in Filled : s # t /\ pdpt'[s] = pdpt[s]
      BY <2>5, <2>6 DEF Filled
    <3>2. pool4k = {pdpt[s] : s \in Filled}
      BY DEF TablesInv
    <3>3. {pdpt[s] : s \in Filled} = {pdpt'[s] : s \in Filled}
      BY <3>1
    <3> QED
      BY <2>3, <2>5, <2>6, <3>2, <3>3
  <2>8. \A s \in Tables : s # t => pdpt[s] # f4k
    <3>1. \A s \in Filled : pdpt[s] \in pool4k
      BY DEF TablesInv
    <3> QED
      BY <2>2, <2>4, <3>1 DEF Filled, TablesInv, BootTable
  <2>9. TablesApart'
    <3> SUFFICES ASSUME NEW r \in Tables, NEW s \in Tables, r # s, pdpt'[r] # Nil
                 PROVE  pdpt'[r] # pdpt'[s]
      BY DEF TablesApart
    <3> QED
      BY <2>4, <2>5, <2>8 DEF TablesInv, TablesApart
  <2> QED
    BY <1>0, <2>4, <2>5, <2>7, <2>9 DEF TablesInv, BootTable
<1> QED
  BY <1>1, <1>2

LEMMA InductiveTables == Spec => []TablesInv
<1>1. Init => TablesInv
  <2> SUFFICES ASSUME Init PROVE TablesInv
    OBVIOUS
  <2>1. 0 \in Tables /\ pdpt = [t \in Tables |-> IF t = 0 THEN BootTable ELSE Nil] /\ pool4k = {}
    BY DEF Init, Tables
  <2>2. Filled = {}
    BY <2>1 DEF Filled
  <2>3. BootTable # Nil
    BY DEF BootTable
  <2> QED
    BY <2>1, <2>2, <2>3 DEF TablesInv, TablesApart
<1>2. TablesInv /\ IInv /\ [Next]_vars => TablesInv'
  <2> SUFFICES ASSUME TablesInv, IInv, [Next]_vars PROVE TablesInv'
    OBVIOUS
  <2>1. CASE PageAllocMap
    <3>1. TypeOK /\ call.base + call.done \in VPages
      BY <2>1, MapShape DEF IInv
    <3> QED
      BY <2>1, <3>1, TableApart DEF PageAllocMap
  <2>2. CASE UNCHANGED <<pdpt, pool4k>>
    BY <2>2 DEF TablesInv, Filled, TablesApart
  <2> QED
    BY <2>1, <2>2 DEF Next, PageAllocBegin, PageFree, Cache, Evict, vars
<1> QED
  BY <1>1, <1>2, InductiveIInv, PTL DEF Spec

\* Every page directory has a 4 KB frame of its own, as long as the pool's
\* bitmap has a bit for each, whatever fails in the other pools.
THEOREM DirectoriesApart == Spec => []TablesApart
<1>1. TablesInv => TablesApart
  BY DEF TablesInv
<1> QED
  BY <1>1, InductiveTables, PTL
-----------------------------------------------------------------------------
\* The mapping: what the abstract pool calls held is held, and until a failure
\* all of it is mapped.
LEMMA PoolSets ==
  /\ Pool!Live = Live /\ Pool!Held = Held
  /\ (IInv /\ ~exhausted) => heldFrame = [v \in Held |-> pde[v]]
<1>1. Pool!Live = Live /\ Pool!Held = Held
  BY DEF Pool!Live, Pool!Held, Live, Held
<1>2. ASSUME IInv, ~exhausted PROVE heldFrame = [v \in Held |-> pde[v]]
  <2>1. Held \subseteq present
    BY <1>2 DEF IInv, Apart, Mapped
  <2>2. Held \cap present = Held
    BY <2>1
  <2> QED
    BY <2>2 DEF heldFrame
<1> QED
  BY <1>1, <1>2

LEMMA PoolInit == Init => Pool!Init
<1> SUFFICES ASSUME Init PROVE Pool!Init
  OBVIOUS
<1>1. ptr = [h \in Handles |-> Nil] /\ exhausted = FALSE
  BY DEF Init
<1>2. Held = {}
  BY <1>1 DEF Held, Live
<1>3. heldFrame = [v \in {} |-> pde[v]]
  BY <1>2 DEF heldFrame
<1>4. heldFrame = [v \in {} |-> Nil]
  BY <1>3
<1> QED
  BY <1>1, <1>4 DEF Pool!Init

\* The last turn of page_alloc's loop is the abstract allocation.
LEMMA MapAlloc ==
  ASSUME IInv, IInv', ~exhausted', PageAllocMap
  PROVE  [Pool!Next]_(Pool!vars)
<1> DEFINE v == call.base + call.done
<1>1. /\ call # Nil /\ call \in Calls /\ call.h \in Handles /\ ptr[call.h] = Nil
      /\ exhausted \in BOOLEAN /\ ~exhausted
  BY DEF PageAllocMap, IInv, TypeOK, Fits, Calls
<1>2. /\ v \in VPages /\ v \in CallPages /\ PageTableAdd(v, PallocFrame)
      /\ Mapped' = Mapped \cup {v}
      /\ Held' \cup CallPages' = Held \cup CallPages
      /\ \/ Live' = Live /\ ptr' = ptr /\ CallPages' = CallPages
         \/ CallPages' = {} /\ call' = Nil
  BY MapShape, Zenon DEF IInv
<1>3. PallocFrame \in Nat
  BY FrameRange DEF IInv
<1> HIDE DEF v
<1>4. \A w \in VPages : pdpt[TableOf(w)] # Nil /\ w # v => pde'[w] = pde[w]
  BY <1>2, <1>3, TableStep DEF IInv
<1>5. /\ \A h \in Live : Pages(ptr[h]) \cap CallPages = {}
      /\ Held \subseteq VPages /\ Held \subseteq Mapped
  BY <1>1, HeldRange DEF IInv, Apart, Mapped
<1>6. \A w \in Held : w # v
  BY <1>2, <1>5 DEF Held
<1>7. \A w \in Held : pde'[w] = pde[w]
  BY <1>4, <1>5, <1>6 DEF IInv, Confined
<1>8. heldFrame = [w \in Held |-> pde[w]]
  BY <1>1, PoolSets
<1>9. heldFrame' = [w \in Held' |-> pde'[w]]
  <2>1. Held' \subseteq present'
    BY DEF IInv, Apart, Mapped
  <2>2. (Held \cap present)' = Held'
    BY <2>1
  <2> QED
    BY <2>2 DEF heldFrame
<1>10. CASE ptr' = ptr
  <2>1. Held' = Held
    BY <1>10 DEF Held, Live, Pages
  <2>2. heldFrame' = heldFrame
    BY <1>7, <1>8, <1>9, <2>1
  <2>3. exhausted' = exhausted
    BY <1>1, Zenon DEF IInv, TypeOK
  <2> QED
    BY <1>10, <2>2, <2>3 DEF Pool!vars
<1>11. CASE ptr' # ptr
  <2> DEFINE e == [base |-> call.base, cnt |-> call.cnt]
  <2>1. ptr' = [ptr EXCEPT ![call.h] = e]
    BY <1>11 DEF PageAllocMap
  <2>2. e \in Extents /\ Pages(e) = CallPages
    BY <1>1 DEF Calls, Extents, Pages, CallPages
  <2>3. Held' = Held \cup Pages(e)
    BY <1>2, <1>11, <2>2
  <2>4. Pages(e) \cap Held = {}
    BY <1>5, <2>2 DEF Held
  <2>5. DOMAIN heldFrame' = Held \cup Pages(e)
    BY <1>9, <2>3
  <2>6. \A w \in Held : heldFrame'[w] = heldFrame[w]
    BY <1>7, <1>8, <1>9, <2>3
  <2>7. \A w \in DOMAIN heldFrame' : heldFrame'[w] \in CoreFrames
    <3>1. \A w \in Held' : pde'[w] \in CoreFrames
      BY DEF IInv, Confined, Mapped, CoreFrames, CoreStart
    <3> QED
      BY <1>9, <3>1
  <2>8. \A w, x \in DOMAIN heldFrame' : w # x => heldFrame'[w] # heldFrame'[x]
    <3>1. \A w, x \in Held' : w # x => pde'[w] # pde'[x]
      BY DEF IInv, Apart, Mapped
    <3> QED
      BY <1>9, <3>1
  <2> HIDE DEF e
  <2>9. Pool!Alloc(call.h)
    BY <1>1, <2>1, <2>2, <2>4, <2>5, <2>6, <2>7, <2>8, PoolSets DEF Pool!Alloc
  <2> QED
    BY <1>1, <2>9 DEF Pool!Next
<1> QED
  BY <1>10, <1>11

LEMMA FreeFree ==
  ASSUME IInv, ~exhausted', NEW h \in Handles, PageFree(h)
  PROVE  Pool!Next
<1>1. /\ ptr[h] # Nil /\ ptr' = [ptr EXCEPT ![h] = Nil] /\ pde' = pde
      /\ present' = present \ Pages(ptr[h]) /\ ~exhausted
  BY DEF PageFree
<1>2. /\ Held = UNION {Pages(ptr[k]) : k \in Live}
      /\ \A g, k \in Live : g # k => Pages(ptr[g]) \cap Pages(ptr[k]) = {}
      /\ Held \subseteq present
  BY <1>1 DEF IInv, Apart, Mapped, Held
<1>3. Live' = Live \ {h} /\ h \in Live /\ \A k \in Live' : ptr'[k] = ptr[k]
  BY <1>1 DEF Live, IInv, TypeOK
<1>4. Held' = UNION {Pages(ptr[k]) : k \in Live'}
  <2>1. Held' = UNION {Pages(ptr'[k]) : k \in Live'}
    BY DEF Held, Pages
  <2> QED
    BY <1>3, <2>1
<1>5. Held' = Held \ Pages(ptr[h])
  BY <1>2, <1>3, <1>4
<1>6. heldFrame = [v \in Held |-> pde[v]]
  BY <1>1, PoolSets
<1>7. heldFrame' = [v \in Held \ Pages(ptr[h]) |-> pde[v]]
  <2>1. Held' \cap present' = Held \ Pages(ptr[h])
    BY <1>1, <1>2, <1>5
  <2> QED
    BY <1>1, <2>1 DEF heldFrame
<1>8. heldFrame' = [v \in Held \ Pages(ptr[h]) |-> heldFrame[v]]
  BY <1>6, <1>7
<1>9. Pool!Free(h)
  BY <1>1, <1>8, PoolSets DEF Pool!Free
<1> QED
  BY <1>9 DEF Pool!Next

LEMMA PoolStep == IInv /\ IInv' /\ [Next]_vars => [Pool!Next]_(Pool!vars)
<1> SUFFICES ASSUME IInv, IInv', [Next]_vars, ~exhausted'
             PROVE  [Pool!Next]_(Pool!vars)
  BY DEF Pool!Next, Pool!RunOut
<1>1. ASSUME UNCHANGED <<ptr, pde, present>>, exhausted' = exhausted
      PROVE  UNCHANGED Pool!vars
  <2>1. heldFrame' = heldFrame
    BY <1>1 DEF heldFrame, Held, Live, Pages
  <2> QED
    BY <1>1, <2>1 DEF Pool!vars
<1>2. ASSUME NEW h \in Handles, NEW cnt \in 1 .. MaxCount, PageAllocBegin(h, cnt)
      PROVE  [Pool!Next]_(Pool!vars)
  <2>1. UNCHANGED <<ptr, pde, present>> /\ exhausted' = exhausted
    BY <1>2 DEF PageAllocBegin, IInv, TypeOK
  <2> QED
    BY <1>1, <2>1
<1>3. CASE PageAllocMap
  BY <1>3, MapAlloc
<1>4. ASSUME NEW h \in Handles, PageFree(h)
      PROVE  [Pool!Next]_(Pool!vars)
  BY <1>4, FreeFree
<1>5. ASSUME NEW v \in VPages, Cache(v)
      PROVE  [Pool!Next]_(Pool!vars)
  BY <1>1, <1>5 DEF Cache
<1>6. ASSUME NEW v \in VPages, Evict(v)
      PROVE  [Pool!Next]_(Pool!vars)
  BY <1>1, <1>6 DEF Evict
<1>7. CASE UNCHANGED vars
  BY <1>1, <1>7 DEF vars
<1> QED
  BY <1>2, <1>3, <1>4, <1>5, <1>6, <1>7 DEF Next

\* page_alloc and page_free, turn by turn of their loops, keep the promise the
\* abstract pool makes to the clients.
THEOREM PoolImplemented == Spec => ImplementsPool
<1>1. Spec => Pool!Init /\ [][Pool!Next]_(Pool!vars)
  BY PoolInit, PoolStep, InductiveIInv, PTL DEF Spec
<1> QED
  BY <1>1 DEF ImplementsPool, Pool!Spec
=============================================================================
