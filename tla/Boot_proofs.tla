------------------------------ MODULE Boot_proofs ------------------------------
(***************************************************************************)
(* The two boot stages for every memory map, kernel end and size of the    *)
(* kernel on the disk: what MemoryLayout promises holds after a real boot, *)
(* the loader survives its own list and reads the kernel whole, and the    *)
(* slab caches get pages of their own.                                     *)
(***************************************************************************)
EXTENDS Boot, Bitmap_proofs, FiniteSetTheorems, SequenceTheorems

-----------------------------------------------------------------------------
(* The division of memory: every memory size and kernel end. *)

\* Alignment goes up to the next multiple of the page size, less than a page.
LEMMA AlignUpRange ==
  ASSUME NEW a \in Nat
  PROVE  /\ AlignUp(a) \in Nat /\ a <= AlignUp(a) /\ AlignUp(a) < a + PAGE_SIZE
BY DEF AlignUp, PAGE_SIZE

\* A number below the word is its own remainder.
LEMMA SmallMod ==
  ASSUME NEW a \in Nat, a < Word
  PROVE  a % Word = a
BY LayoutAssumption

\* A bitmap is never larger than its pool, whatever the width of its size.
LEMMA BytesRange ==
  ASSUME NEW b \in Nat
  PROVE  Bytes(b) \in Nat /\ 8 * Bytes(b) <= b
<1>1. b \div 8 \in Nat /\ 8 * (b \div 8) <= b
  OBVIOUS
<1>2. \A x \in Nat : x % Word32 \in Nat /\ x % Word32 <= x
  BY LayoutAssumption
<1> QED
  BY <1>1, <1>2 DEF Bytes

\* The number of pages, when there is at least one.
LEMMA PagesRange ==
  ASSUME end \in Nat, phy_memory_size \in Nat, EnoughRam
  PROVE  /\ pages \in Nat \ {0} /\ pages < Word
         /\ pages * PAGE_SIZE <= phy_memory_size - AlignUp(end)
<1> DEFINE room == phy_memory_size - AlignUp(end)
<1>1. room \in Nat /\ room >= 2048 /\ room < Word
  BY AlignUpRange, LayoutAssumption DEF EnoughRam, PAGE_SIZE
<1> HIDE DEF room
<1>2. room % Word = room
  BY <1>1, SmallMod
<1>3. pages = room \div 2048
  BY <1>2 DEF pages, TotalPages, PAGE_SIZE, room
<1> QED
  BY <1>1, <1>3, LayoutAssumption DEF PAGE_SIZE, room

\* The shares of the pools, in whole numbers.
LEMMA Shares ==
  ASSUME NEW n \in Nat \ {0}, n < Word
  PROVE  /\ Pages2M(n) = n - (n \div 4) - 1 /\ Pages2M(n) \in Nat
         /\ UserPages(n) \in Nat /\ CorePages(n) \in Nat
         /\ UserPages(n) <= CorePages(n) /\ CorePages(n) <= UserPages(n) + 1
         /\ UserPages(n) + CorePages(n) + (n \div 4) + 1 = n
         /\ Pages4K(n) = 512 * (n \div 4) /\ Pages4K(n) \in Nat
<1>1. n - (n \div 4) - 1 \in Nat /\ n - (n \div 4) - 1 < Word /\ n \div 4 \in Nat
  BY LayoutAssumption
<1>2. Pages2M(n) = n - (n \div 4) - 1
  BY <1>1, SmallMod DEF Pages2M
<1>3. Pages4K(n) = 512 * (n \div 4)
  BY <1>1 DEF Pages4K, PAGE_SIZE, PAGE_SIZE_4K
<1> QED
  BY <1>1, <1>2, <1>3 DEF UserPages, CorePages

\* The pools end within the counted memory: the page kept back pays for the
\* remainders of the divisions.
LEMMA PoolArithmetic ==
  ASSUME end \in Nat, phy_memory_size \in Nat, EnoughRam
  PROVE  /\ end <= UserStart(end) /\ UserStart(end) <= CoreStart(pages, end)
         /\ pages > 1 => CoreStart(pages, end) < Start4K(pages, end)
         /\ Start4K(pages, end) <= End4K(pages, end)
         /\ End4K(pages, end) <= phy_memory_size
<1> DEFINE u == UserPages(pages)
           c == CorePages(pages)
           q == pages \div 4
           a == AlignUp(end)
<1>1. a \in Nat /\ end <= a
  BY AlignUpRange
<1>2. pages \in Nat \ {0} /\ pages < Word /\ pages * 2048 <= phy_memory_size - a
  BY PagesRange DEF PAGE_SIZE
<1>3. /\ u \in Nat /\ c \in Nat /\ q \in Nat /\ u <= c /\ c <= u + 1
      /\ u + c + q + 1 = pages
      /\ Pages4K(pages) = 512 * q
  <2>1. q \in Nat
    BY <1>2
  <2> QED
    <3>1. /\ UserPages(pages) \in Nat /\ CorePages(pages) \in Nat
          /\ UserPages(pages) <= CorePages(pages) /\ CorePages(pages) <= UserPages(pages) + 1
          /\ UserPages(pages) + CorePages(pages) + (pages \div 4) + 1 = pages
          /\ Pages4K(pages) = 512 * (pages \div 4)
      BY <1>2, Shares
    <3> QED
      BY <2>1, <3>1, Zenon
<1>4. pages > 1 => c > 0
  <2>1. pages > 1 => q + 1 < pages
    BY <1>2
  <2> HIDE DEF u, c, q
  <2> QED
    BY <2>1, <1>2, <1>3
<1>5. /\ UserStart(end) = a /\ CoreStart(pages, end) = a + u * 2048
      /\ Start4K(pages, end) = a + u * 2048 + c * 2048
      /\ End4K(pages, end) = a + u * 2048 + c * 2048 + 512 * q * 4
  BY <1>3 DEF UserStart, CoreStart, Start4K, End4K, PAGE_SIZE, PAGE_SIZE_4K
<1> HIDE DEF u, c, q, a
<1> QED
  BY <1>1, <1>2, <1>3, <1>4, <1>5

\* What the maps and the bitmaps take, for any number of pages.
LEMMA BitmapArithmetic ==
  ASSUME NEW n \in Nat \ {0}, n < Word
  PROVE  /\ 8 * Bytes(Pages4K(n)) <= Pages4K(n)
         /\ 8 * Bytes(UserPages(n)) <= UserPages(n)
         /\ 8 * Bytes(CorePages(n)) <= CorePages(n)
         /\ n <= 2031 => BitmapEnd(n) <= IDT_ADDR
<1>0. /\ UserPages(n) \in Nat /\ CorePages(n) \in Nat
      /\ UserPages(n) <= CorePages(n) /\ CorePages(n) <= UserPages(n) + 1
      /\ UserPages(n) + CorePages(n) + (n \div 4) + 1 = n
      /\ Pages4K(n) = 512 * (n \div 4)
  <2>1. n \in Nat \ {0} /\ n < Word
    OBVIOUS
  <2> QED
    BY <2>1, Shares
<1> DEFINE u == UserPages(n)
           c == CorePages(n)
           q == n \div 4
<1>1. /\ u \in Nat /\ c \in Nat /\ q \in Nat /\ u <= c /\ c <= u + 1
      /\ u + c + q + 1 = n /\ Pages4K(n) = 512 * q
      /\ 4 * q <= n /\ n <= 4 * q + 3
  <2>1. /\ u \in Nat /\ c \in Nat /\ u <= c /\ c <= u + 1
        /\ u + c + q + 1 = n /\ Pages4K(n) = 512 * q
    BY <1>0
  <2>2. q \in Nat /\ 4 * q <= n /\ n <= 4 * q + 3
    OBVIOUS
  <2> QED
    BY <2>1, <2>2
<1>2. /\ Bytes(512 * q) \in Nat /\ 8 * Bytes(512 * q) <= 512 * q
      /\ Bytes(u) \in Nat /\ 8 * Bytes(u) <= u
      /\ Bytes(c) \in Nat /\ 8 * Bytes(c) <= c
  <2>1. 512 * q \in Nat
    BY <1>1
  <2> HIDE DEF u, c, q
  <2> QED
    BY <1>1, <2>1, BytesRange
<1>3. n <= 2031 => BitmapEnd(n) <= IDT_ADDR
  <2>1. BitmapUser(n) = (32768 + Bytes(512 * q)) % Word32
    BY <1>1 DEF BitmapUser, BITMAP_4K_ADDR
  <2>2. \A x \in Nat : x % Word32 \in Nat /\ x % Word32 <= x
    BY LayoutAssumption
  <2>3. BitmapUser(n) \in Nat /\ BitmapUser(n) <= 32768 + Bytes(512 * q)
    <3> DEFINE x == 32768 + Bytes(512 * q)
    <3>1. x \in Nat
      BY <1>2
    <3> HIDE DEF x
    <3>2. x % Word32 \in Nat /\ x % Word32 <= x
      BY <2>2, <3>1
    <3> QED
      BY <2>1, <3>2 DEF x
  <2>4. BitmapEnd(n) = BitmapUser(n) + Bytes(u) + Bytes(c) + Bytes(c)
    BY DEF BitmapEnd, BitmapVirt, BitmapCore
  <2> DEFINE b4 == Bytes(512 * q)
             bu == Bytes(u)
             bc == Bytes(c)
  <2>5. /\ b4 \in Nat /\ 8 * b4 <= 512 * q /\ bu \in Nat /\ 8 * bu <= u
        /\ bc \in Nat /\ 8 * bc <= c
        /\ BitmapUser(n) \in Nat /\ BitmapUser(n) <= 32768 + b4
        /\ BitmapEnd(n) = BitmapUser(n) + bu + bc + bc
    BY <1>2, <2>3, <2>4
  <2> HIDE DEF b4, bu, bc, u, c, q
  <2> QED
    BY <1>1, <2>5 DEF IDT_ADDR
<1> QED
  BY <1>1, <1>2, <1>3
-----------------------------------------------------------------------------
LayoutInv ==
  /\ map \in Maps /\ end \in Nat /\ phy_memory_size \in Nat
  /\ stored \in Seq(Ranges) /\ mem \in Nat \ {0}
  /\ pc = "e820" => Len(stored) < Len(map)

LEMMA LayoutInductive == Spec => []LayoutInv
<1>1. Init => LayoutInv
  BY MapsAssumption, LayoutAssumption DEF Init, LayoutInv
<1>2. LayoutInv /\ [Next]_vars => LayoutInv'
  <2> SUFFICES ASSUME LayoutInv, [Next]_vars PROVE LayoutInv'
    OBVIOUS
  <2>1. map \in Seq(Ranges)
    BY MapsAssumption DEF LayoutInv
  <2>2. CASE GetMemSize
    <3>1. map[Len(stored) + 1] \in Ranges
      BY <2>1, <2>2 DEF LayoutInv, GetMemSize
    <3> QED
      BY <2>1, <2>2, <3>1 DEF LayoutInv, GetMemSize
  <2>3. CASE AddRange
    <3>1. Entry \in Ranges
      <4>1. Zero \in Ranges
        BY DEF Zero, Ranges
      <4>2. mem <= Len(stored) => stored[mem] \in Ranges
        BY DEF LayoutInv
      <4> QED
        BY <4>1, <4>2 DEF Entry
    <3>2. Entry.size \in Nat
      BY <3>1 DEF Ranges
    <3> QED
      BY <2>3, <3>2 DEF LayoutInv, AddRange
  <2>4. CASE EndScan
    BY <2>4 DEF LayoutInv, EndScan
  <2>5. CASE Done \/ UNCHANGED vars
    BY <2>5 DEF LayoutInv, Done, vars
  <2> QED
    BY <2>2, <2>3, <2>4, <2>5 DEF Next
<1> QED
  BY <1>1, <1>2, PTL DEF Spec

\* The pools never overlap the kernel, each other, or the end of the memory
\* that was counted, for every memory size of at least one page.
THEOREM PoolsSound == Spec => []PoolsApart
<1>1. LayoutInv => PoolsApart
  BY PoolArithmetic DEF LayoutInv, PoolsApart
<1> QED
  BY <1>1, LayoutInductive, PTL

\* No bitmap has a bit for a page that is not in its pool.
THEOREM BitmapsSound == Spec => []BitmapsFitPools
<1>1. LayoutInv => BitmapsFitPools
  BY BitmapArithmetic, PagesRange DEF LayoutInv, BitmapsFitPools
<1> QED
  BY <1>1, LayoutInductive, PTL

\* On machines of up to 2031 pages the bitmaps leave the gates alone.
THEOREM GatesSafe == Spec => []BitmapsBelowIdt
<1>1. LayoutInv => BitmapsBelowIdt
  BY BitmapArithmetic, PagesRange DEF LayoutInv, BitmapsBelowIdt
<1> QED
  BY <1>1, LayoutInductive, PTL
-----------------------------------------------------------------------------
(* The scan of the list. *)

LEMMA RangeFacts ==
  ASSUME NEW ranges \in Seq(Ranges), NEW j \in 1 .. Len(ranges)
  PROVE  /\ j \in Nat /\ Len(ranges) \in Nat /\ DOMAIN ranges = 1 .. Len(ranges)
         /\ ranges[j].start \in Nat /\ ranges[j].size \in Nat
<1>1. j \in Nat /\ Len(ranges) \in Nat /\ DOMAIN ranges = 1 .. Len(ranges)
  OBVIOUS
<1>2. ranges[j] \in Ranges
  BY ElementOfSeq
<1> QED
  BY <1>1, <1>2 DEF Ranges

\* What the first n ranges amount to.
RamSum(ranges) ==
  CHOOSE f : f = [n \in 0 .. Len(ranges) |->
                    IF n = 0 THEN 0 ELSE f[n - 1] + Usable(ranges[n])]

\* The recursion has a solution: a shortest prefix without one would extend the
\* solution for the prefix before.
LEMMA RamSumFacts ==
  ASSUME NEW ranges \in Seq(Ranges)
  PROVE  /\ UsableRam(ranges) = RamSum(ranges)[Len(ranges)]
         /\ RamSum(ranges)[0] = 0
         /\ \A n \in 1 .. Len(ranges) :
              RamSum(ranges)[n] = RamSum(ranges)[n - 1] + Usable(ranges[n])
<1> DEFINE Solves(f, m) ==
             f = [n \in 0 .. m |-> IF n = 0 THEN 0 ELSE f[n - 1] + Usable(ranges[n])]
           Bad == {m \in Nat : ~ \E f : Solves(f, m)}
<1>1. Bad = {}
  <2> SUFFICES ASSUME Bad # {} PROVE FALSE
    OBVIOUS
  <2>1. PICK m \in Bad : \A k \in Bad : m <= k
    <3>1. Bad \subseteq Nat
      OBVIOUS
    <3> HIDE DEF Bad
    <3> QED BY <3>1, NatMin
  <2>2. CASE m = 0
    <3>1. Solves([n \in 0 .. 0 |-> 0], 0)
      OBVIOUS
    <3> QED BY <2>1, <2>2, <3>1
  <2>3. CASE m # 0
    <3>1. m \in Nat /\ m - 1 \in Nat /\ ~(m <= m - 1) /\ m - 1 \notin Bad
      <4>1. m \in Nat
        BY <2>1
      <4>2. m - 1 \in Nat /\ ~(m <= m - 1)
        BY <2>3, <4>1
      <4> QED BY <2>1, <4>1, <4>2
    <3>2. PICK f : Solves(f, m - 1)
      BY <3>1
    <3> DEFINE g == [n \in 0 .. m |-> IF n = m THEN f[m - 1] + Usable(ranges[m]) ELSE f[n]]
    <3>3. ASSUME NEW n \in 0 .. m
          PROVE  g[n] = IF n = 0 THEN 0 ELSE g[n - 1] + Usable(ranges[n])
      <4>1. CASE n = m
        <5>1. m - 1 \in 0 .. m /\ m - 1 # m
          BY <3>1
        <5> QED BY <2>3, <4>1, <5>1
      <4>2. CASE n # m
        <5>1. n \in 0 .. (m - 1) /\ (n # 0 => n - 1 \in 0 .. m /\ n - 1 # m)
          BY <3>1, <4>2
        <5>2. f[n] = IF n = 0 THEN 0 ELSE f[n - 1] + Usable(ranges[n])
          BY <3>2, <5>1
        <5> QED BY <4>2, <5>1, <5>2
      <4> QED BY <4>1, <4>2
    <3>4. Solves(g, m)
      <4>1. g = [n \in 0 .. m |-> g[n]]
        OBVIOUS
      <4> HIDE DEF g
      <4> QED BY <3>3, <4>1
    <3> QED BY <2>1, <3>4
  <2> QED BY <2>2, <2>3
<1>2. Len(ranges) \in Nat
  OBVIOUS
<1>3. \E f : Solves(f, Len(ranges))
  BY <1>1, <1>2
<1>4. Solves(RamSum(ranges), Len(ranges))
  <2>1. RamSum(ranges) = CHOOSE f : Solves(f, Len(ranges))
    BY DEF RamSum
  <2> HIDE DEF Solves
  <2> QED BY <1>3, <2>1
<1> DEFINE sum == RamSum(ranges)
<1>5. UsableRam(ranges) = sum[Len(ranges)]
  BY DEF UsableRam, RamSum
<1> HIDE DEF sum
<1>6. sum = [n \in 0 .. Len(ranges) |-> IF n = 0 THEN 0 ELSE sum[n - 1] + Usable(ranges[n])]
  BY <1>4 DEF sum
<1>7. sum[0] = 0 /\ \A n \in 1 .. Len(ranges) : sum[n] = sum[n - 1] + Usable(ranges[n])
  <2>1. 0 \in 0 .. Len(ranges) /\ \A n \in 1 .. Len(ranges) : n \in 0 .. Len(ranges) /\ n # 0
    BY <1>2
  <2> QED BY <1>6, <2>1
<1> QED BY <1>5, <1>7 DEF sum

\* The addresses of a usable range, and of those among the first n.
Span(range) ==
  IF range.type = 1 THEN range.start .. (range.start + range.size - 1) ELSE {}
Covered(ranges, n) == UNION {Span(ranges[j]) : j \in 1 .. n}

\* What init_memory has added up is what it has passed: as a sum, and, if no
\* memory is listed twice, as the number of addresses.
ScanInv ==
  /\ map \in Seq(Ranges) /\ pc \in {"e820", "scan", "done"}
  /\ \A j \in 1 .. Len(stored) : stored[j] = map[j]
  /\ Len(stored) \in Nat /\ Len(stored) <= Len(map)
  /\ pc = "e820" => Len(stored) < Len(map) /\ mem = 1
  /\ pc # "e820" => Len(stored) = Len(map)
  /\ mem \in 1 .. Len(map) + 1
  /\ (pc = "done" /\ mem <= Len(map)) => ~(map[mem].type \in 1 .. 4 /\ map[mem].size # 0)
  /\ phy_memory_size \in Nat /\ phy_memory_size = RamSum(map)[mem - 1]
  /\ IsFiniteSet(Covered(map, mem - 1))
  /\ UsableApart => phy_memory_size = Cardinality(Covered(map, mem - 1))

\* One range more.
LEMMA CoveredStep ==
  ASSUME map \in Seq(Ranges), NEW n \in 1 .. Len(map), IsFiniteSet(Covered(map, n - 1))
  PROVE  /\ IsFiniteSet(Covered(map, n))
         /\ UsableApart => Cardinality(Covered(map, n))
                             = Cardinality(Covered(map, n - 1)) + Usable(map[n])
<1> DEFINE new == Span(map[n])
<1>1. /\ n \in Nat /\ Len(map) \in Nat /\ DOMAIN map = 1 .. Len(map)
      /\ map[n].start \in Nat /\ map[n].size \in Nat
  BY RangeFacts
<1>2. IsFiniteSet(new) /\ Cardinality(new) = Usable(map[n])
  <2>1. CASE map[n].type = 1
    <3>1. \A a, l \in Nat : /\ IsFiniteSet(a .. (a + l - 1))
                             /\ Cardinality(a .. (a + l - 1)) = l
      <4> SUFFICES ASSUME NEW a \in Nat, NEW l \in Nat
                   PROVE  IsFiniteSet(a .. (a + l - 1)) /\ Cardinality(a .. (a + l - 1)) = l
        OBVIOUS
      <4> DEFINE b == a + l - 1
      <4>1. b \in Int /\ (a > b => l = 0) /\ b - a + 1 = l /\ a \in Int
        OBVIOUS
      <4> HIDE DEF b
      <4>2. IsFiniteSet(a .. b) /\ Cardinality(a .. b) = IF a > b THEN 0 ELSE b - a + 1
        BY <4>1, FS_Interval
      <4> QED BY <4>1, <4>2 DEF b
    <3> QED BY <1>1, <2>1, <3>1, Zenon DEF Span, Usable
  <2>2. CASE map[n].type # 1
    BY <2>2, FS_EmptySet DEF Span, Usable
  <2> QED BY <2>1, <2>2
<1>3. Covered(map, n) = Covered(map, n - 1) \cup new
  <2>1. \A j : j \in 1 .. n <=> j \in 1 .. (n - 1) \/ j = n
    BY <1>1
  <2> QED BY <2>1, Zenon DEF Covered
<1>4. UsableApart => Covered(map, n - 1) \cap new = {}
  <2> SUFFICES ASSUME UsableApart, NEW a \in new, NEW j \in 1 .. (n - 1), a \in Span(map[j])
               PROVE  FALSE
    BY DEF Covered
  <2>1. j \in 1 .. Len(map) /\ j # n
    BY <1>1
  <2>2. map[j].type = 1 /\ map[n].type = 1
    BY DEF Span
  <2>3. Behind(map[n], map[j]) \/ Behind(map[j], map[n])
    BY <1>1, <2>1, <2>2, Zenon DEF UsableApart
  <2>4. map[j].start \in Nat /\ map[j].size \in Nat
    BY <2>1, RangeFacts
  <2>5. /\ a \in map[j].start .. (map[j].start + map[j].size - 1)
        /\ a \in map[n].start .. (map[n].start + map[n].size - 1)
    BY <2>2, Zenon DEF Span
  <2>6. \A p, q, k, l \in Nat : (a \in p .. (p + q - 1) /\ a \in k .. (k + l - 1)) =>
                                 ~(p + q <= k) /\ ~(k + l <= p)
    OBVIOUS
  <2> QED BY <1>1, <2>3, <2>4, <2>5, <2>6, Zenon DEF Behind
<1> HIDE DEF new
<1>5. IsFiniteSet(Covered(map, n - 1) \cup new)
      /\ Cardinality(Covered(map, n - 1) \cup new)
           = Cardinality(Covered(map, n - 1)) + Cardinality(new) - Cardinality(Covered(map, n - 1) \cap new)
  BY <1>2, FS_Union
<1>6. /\ Cardinality({}) = 0 /\ Cardinality(Covered(map, n - 1)) \in Nat
      /\ Cardinality(new) \in Nat
  BY <1>2, FS_EmptySet, FS_CardinalityType
<1>7. UsableApart => Cardinality(Covered(map, n - 1) \cap new) = 0
  BY <1>4, <1>6, Zenon
<1> DEFINE before == Cardinality(Covered(map, n - 1))
           common == Cardinality(Covered(map, n - 1) \cap new)
           use == Usable(map[n])
           all == Cardinality(Covered(map, n))
<1>8. before \in Nat /\ use \in Nat /\ all = before + use - common /\ (UsableApart => common = 0)
  BY <1>2, <1>3, <1>5, <1>6, <1>7, Zenon
<1> HIDE DEF before, common, use, all
<1>9. UsableApart => all = before + use
  BY <1>8
<1> QED
  BY <1>3, <1>5, <1>9, Zenon DEF before, use, all

LEMMA ScanInductive == Spec => []ScanInv
<1>1. Init => ScanInv
  <2> SUFFICES ASSUME Init PROVE ScanInv
    OBVIOUS
  <2>1. map \in Seq(Ranges) /\ Len(map) \in Nat \ {0} /\ stored = <<>> /\ mem = 1
    BY MapsAssumption DEF Init
  <2>2. Covered(map, 0) = {}
    BY DEF Covered
  <2>3. RamSum(map)[0] = 0 /\ IsFiniteSet({}) /\ Cardinality({}) = 0
    BY <2>1, RamSumFacts, FS_EmptySet
  <2>4. mem - 1 = 0 /\ Len(stored) = 0
    BY <2>1
  <2>5. map \in Seq(Ranges) /\ pc = "e820" /\ phy_memory_size = 0
    BY <2>1 DEF Init
  <2>6. mem \in 1 .. Len(map) + 1 /\ Len(stored) < Len(map)
    BY <2>1, <2>4
  <2>7. IsFiniteSet(Covered(map, mem - 1)) /\ phy_memory_size = Cardinality(Covered(map, mem - 1))
    BY <2>2, <2>3, <2>4, <2>5
  <2>8. phy_memory_size = RamSum(map)[mem - 1]
    BY <2>3, <2>4, <2>5
  <2>9. \A j \in 1 .. Len(stored) : stored[j] = map[j]
    BY <2>4
  <2> QED BY <2>1, <2>4, <2>5, <2>6, <2>7, <2>8, <2>9 DEF ScanInv
<1>2. ScanInv /\ [Next]_vars => ScanInv'
  <2> SUFFICES ASSUME ScanInv, [Next]_vars PROVE ScanInv'
    OBVIOUS
  <2>1. CASE GetMemSize
    <3>1. /\ stored' = Append(stored, map[Len(stored) + 1]) /\ pc = "e820"
          /\ map' = map /\ mem' = mem /\ phy_memory_size' = phy_memory_size
          /\ pc' = IF Len(stored') = Len(map) THEN "scan" ELSE "e820"
      BY <2>1 DEF GetMemSize
    <3> QED BY <3>1 DEF ScanInv, Covered, UsableApart
  <2>2. CASE AddRange
    <3> DEFINE n == mem
    <3>1. /\ pc = "scan" /\ Entry.type \in 1 .. 4 /\ Entry.size # 0
          /\ phy_memory_size' = IF Counts(Entry) THEN phy_memory_size + Entry.size
                                                ELSE phy_memory_size
          /\ mem' = n + 1 /\ map' = map /\ stored' = stored /\ pc' = pc
      BY <2>2 DEF AddRange
    <3>2. /\ Len(stored) = Len(map) /\ n \in 1 .. Len(map) + 1 /\ Len(map) \in Nat
          /\ map \in Seq(Ranges)
      BY <3>1 DEF ScanInv
    <3>3. n <= Len(map)
      BY <3>1, <3>2 DEF Entry, Zero
    <3>4. n \in 1 .. Len(map) /\ Entry = map[n]
      BY <3>2, <3>3 DEF ScanInv, Entry
    <3>5. phy_memory_size' = phy_memory_size + Usable(map[n]) /\ phy_memory_size' \in Nat
      <4>1. phy_memory_size \in Nat /\ map[n].size \in Nat
        BY <3>2, <3>4, RangeFacts DEF ScanInv
      <4> QED BY <3>1, <3>4, <4>1 DEF Counts, Usable
    <3>6. RamSum(map)[n] = RamSum(map)[n - 1] + Usable(map[n])
      BY <3>2, <3>4, RamSumFacts
    <3>7. /\ IsFiniteSet(Covered(map, n))
          /\ UsableApart => Cardinality(Covered(map, n)) = Cardinality(Covered(map, n - 1)) + Usable(map[n])
      BY <3>2, <3>4, CoveredStep DEF ScanInv
    <3>8. mem' - 1 = n /\ mem' \in 1 .. Len(map) + 1 /\ mem' - 1 = mem
      BY <3>1, <3>4
    <3>9. UsableApart' = UsableApart
      BY <3>1 DEF UsableApart
    <3>10. /\ IsFiniteSet(Covered(map', mem' - 1))
           /\ UsableApart' => phy_memory_size' = Cardinality(Covered(map', mem' - 1))
      <4>1. UsableApart => phy_memory_size = Cardinality(Covered(map, n - 1))
        BY DEF ScanInv
      <4> QED BY <3>1, <3>5, <3>7, <3>8, <3>9, <4>1, Zenon
    <3>11. phy_memory_size' = RamSum(map')[mem' - 1]
      <4>1. phy_memory_size = RamSum(map)[n - 1]
        BY DEF ScanInv
      <4> QED BY <3>1, <3>5, <3>6, <3>8, <4>1, Zenon
    <3>12. /\ map' \in Seq(Ranges) /\ pc' = "scan" /\ Len(stored') = Len(map')
           /\ \A j \in 1 .. Len(stored') : stored'[j] = map'[j]
      BY <3>1, <3>2 DEF ScanInv
    <3> QED BY <3>1, <3>2, <3>5, <3>8, <3>10, <3>11, <3>12 DEF ScanInv
  <2>3. CASE EndScan
    <3>1. /\ pc = "scan" /\ ~(Entry.type \in 1 .. 4 /\ Entry.size # 0) /\ pc' = "done"
          /\ map' = map /\ stored' = stored /\ mem' = mem /\ phy_memory_size' = phy_memory_size
      BY <2>3 DEF EndScan
    <3>2. mem <= Len(map) => Entry = map[mem]
      BY <3>1 DEF ScanInv, Entry
    <3> QED BY <3>1, <3>2 DEF ScanInv, Covered, UsableApart
  <2>4. CASE Done \/ UNCHANGED vars
    BY <2>4 DEF Done, vars, ScanInv, Covered, UsableApart
  <2> QED BY <2>1, <2>2, <2>3, <2>4 DEF Next
<1> QED BY <1>1, <1>2, PTL DEF Spec

\* Every usable range of a map that init_memory reads to its end is counted.
THEOREM AllRamCounted == Spec => []CountsAllRam
<1>1. ScanInv => CountsAllRam
  <2> SUFFICES ASSUME ScanInv, pc = "done",
                      \A j \in DOMAIN map : map[j].type \in 1 .. 4 /\ map[j].size # 0
               PROVE  phy_memory_size = UsableRam(map)
    BY DEF CountsAllRam
  <2>1. mem = Len(map) + 1 /\ mem - 1 = Len(map)
    BY DEF ScanInv
  <2> QED BY <2>1, RamSumFacts DEF ScanInv
<1> QED BY <1>1, ScanInductive, PTL

\* With one usable range behind everything else the pools lie in memory that is
\* there, though the scan has ignored where the ranges are.
THEOREM PoolsAreRam == Spec => []PoolsInRam
<1>1. ScanInv /\ LayoutInv => PoolsInRam
  <2> SUFFICES ASSUME ScanInv, LayoutInv, EnoughRam, UsableApart, NEW k \in DOMAIN map,
                      map[k].type = 1,
                      \A j \in DOMAIN map \ {k} : map[j].type = 1 => Behind(map[k], map[j])
               PROVE  End4K(pages, end) <= map[k].start + map[k].size
    BY DEF PoolsInRam
  <2> DEFINE S == map[k].start + map[k].size
  <2>1. /\ map[k].start \in Nat /\ map[k].size \in Nat /\ S \in Nat
        /\ DOMAIN map = 1 .. Len(map) /\ mem \in 1 .. Len(map) + 1 /\ Len(map) \in Nat
    <3>1. map \in Seq(Ranges) /\ mem \in 1 .. Len(map) + 1
      BY DEF ScanInv
    <3>2. DOMAIN map = 1 .. Len(map) /\ Len(map) \in Nat /\ k \in 1 .. Len(map)
      BY <3>1
    <3>3. map[k].start \in Nat /\ map[k].size \in Nat
      BY <3>1, <3>2, RangeFacts
    <3> QED BY <3>1, <3>2, <3>3
  <2>2. Covered(map, mem - 1) \subseteq 0 .. (S - 1)
    <3> SUFFICES ASSUME NEW j \in 1 .. (mem - 1), NEW a \in Span(map[j])
                 PROVE  a \in 0 .. (S - 1)
      BY DEF Covered
    <3>1. j \in 1 .. Len(map) /\ map[j].type = 1 /\ map[j].start \in Nat /\ map[j].size \in Nat
      <4>1. j \in 1 .. Len(map)
        BY <2>1
      <4>2. map[j].type = 1
        BY Zenon DEF Span
      <4> QED BY <4>1, <4>2, RangeFacts DEF ScanInv
    <3>2. a \in map[j].start .. (map[j].start + map[j].size - 1)
      BY <3>1 DEF Span
    <3>3. j = k \/ map[j].start + map[j].size <= map[k].start
      BY <2>1, <3>1 DEF Behind
    <3>4. \A p, q, x, l \in Nat : a \in p .. (p + q - 1) =>
            /\ p + q <= x => a \in 0 .. ((x + l) - 1)
            /\ (p = x /\ q = l) => a \in 0 .. ((x + l) - 1)
      OBVIOUS
    <3>5. CASE j = k
      BY <2>1, <3>2, <3>4, <3>5
    <3>6. CASE map[j].start + map[j].size <= map[k].start
      BY <2>1, <3>1, <3>2, <3>4, <3>6, Zenon
    <3> QED BY <3>3, <3>5, <3>6
  <2>3. phy_memory_size <= S
    <3> HIDE DEF S
    <3>1. IsFiniteSet(0 .. (S - 1)) /\ Cardinality(0 .. (S - 1)) = S
      <4> DEFINE b == S - 1
      <4>1. b \in Int /\ 0 \in Int /\ (0 > b => S = 0) /\ b - 0 + 1 = S
        BY <2>1
      <4> HIDE DEF b
      <4>2. IsFiniteSet(0 .. b) /\ Cardinality(0 .. b) = IF 0 > b THEN 0 ELSE b - 0 + 1
        BY <4>1, FS_Interval
      <4> QED BY <4>1, <4>2 DEF b
    <3>2. Cardinality(Covered(map, mem - 1)) <= Cardinality(0 .. (S - 1))
      BY <2>2, <3>1, FS_Subset
    <3> QED BY <3>1, <3>2 DEF ScanInv
  <2>4. End4K(pages, end) <= phy_memory_size
    BY PoolArithmetic DEF LayoutInv
  <2>5. phy_memory_size \in Nat /\ End4K(pages, end) \in Int
    <3>1. /\ pages \in Nat \ {0} /\ pages < Word
      BY PagesRange DEF LayoutInv
    <3>2. /\ UserPages(pages) \in Nat /\ CorePages(pages) \in Nat /\ Pages4K(pages) \in Nat
      BY <3>1, Shares
    <3> DEFINE u == UserPages(pages)
               c == CorePages(pages)
               f == Pages4K(pages)
               s == AlignUp(end)
    <3>3. u \in Nat /\ c \in Nat /\ f \in Nat /\ s \in Nat
      BY <3>2, AlignUpRange, Zenon DEF LayoutInv
    <3>4. End4K(pages, end) = s + u * 2048 + c * 2048 + f * 4
      BY DEF End4K, Start4K, CoreStart, UserStart, PAGE_SIZE, PAGE_SIZE_4K
    <3> HIDE DEF u, c, f, s
    <3> QED BY <3>3, <3>4 DEF ScanInv
  <2> QED BY <2>1, <2>3, <2>4, <2>5
<1> QED BY <1>1, ScanInductive, LayoutInductive, PTL
-----------------------------------------------------------------------------
(* The boot. *)

\* The loader calls the BIOS and the kernel scans its list exactly as
\* MemoryLayout says; every other step of the boot leaves its state alone.
LEMMA BootRefines == BootSpec => Spec
<1>1. BootInit => Init
  BY DEF BootInit
<1>2. [BootNext]_allVars => [Next]_vars
  BY DEF BootNext, BootStep, allVars, Mbr, ListMemory, EndOfList, Command, Poll,
         LoadToMem, SetPaging, EnterKernel, AddMemory, InitPools, InitCache,
         DriveAnswers, BiosInterrupt, Stopped, Next
<1> QED
  BY <1>1, <1>2, PTL DEF BootSpec, Spec

\* The pools are apart and inside counted memory after every boot.
THEOREM BootPools == BootSpec => []PoolsApart
BY BootRefines, PoolsSound, PTL

\* The bitmaps leave the gates alone after every boot.
THEOREM BootGates == BootSpec => []BitmapsBelowIdt
BY BootRefines, GatesSafe, PTL
-----------------------------------------------------------------------------
Size == KERNEL_SECTOR_CNT * SECTOR_SIZE

LEMMA DiskFacts ==
  /\ Size \in Nat \ {0} /\ LoadCount = Size
  /\ OnDisk \in Seq(Nat) /\ Len(OnDisk) = Size
  /\ \A w \in 1 .. Size : OnDisk[w] = w
<1>1. Size \in Nat \ {0}
  BY DiskAssumption DEF Size
<1>2. OnDisk = [w \in 1 .. Size |-> w]
  BY DEF OnDisk, Size
<1> QED
  BY <1>1, <1>2 DEF LoadCount, Size

\* The loader has what the drive has handed out, in order.
Whole ==
  /\ Len(loaded) = taken /\ taken <= Size
  /\ \A w \in 1 .. taken : loaded[w] = w

DriveInv ==
  /\ loaded \in Seq(Nat) /\ taken \in Nat /\ taken <= Len(loaded)
  /\ step \in {"mbr", "e820", "command"} => drive = "idle" /\ taken = 0 /\ loaded = <<>>
  /\ step = "poll" => taken = 0 /\ loaded = <<>>
  /\ (step = "read" /\ fault # "drive_waits") =>
       Whole /\ drive = (IF taken = Size THEN "idle" ELSE "data")
  /\ (step \in {"paging", "kernel"} /\ fault # "drive_waits") => loaded = OnDisk

LostInv ==
  step = "lost" =>
    \/ fault \in {"read_fails", "drive_waits", "ram_dirty", "interrupt"}
    \/ Len(stored) > 15

ListInv ==
  /\ map \in Seq(Ranges) /\ stored \in Seq(Ranges) /\ Len(stored) <= Len(map)
  /\ pc = "e820" => Len(stored) < Len(map)

BInv == ListInv /\ DriveInv /\ LostInv

LEMMA BInvInit == BootInit => BInv
<1> SUFFICES ASSUME BootInit PROVE BInv
  OBVIOUS
<1>1. map \in Seq(Ranges) /\ map # <<>>
  BY MapsAssumption DEF BootInit, Init
<1>2. ListInv
  BY <1>1 DEF BootInit, Init, ListInv
<1>3. DriveInv /\ LostInv
  BY DEF BootInit, DriveInv, LostInv
<1> QED
  BY <1>2, <1>3 DEF BInv

LEMMA LoadStep ==
  ASSUME BInv, LoadToMem
  PROVE  DriveInv'
<1> USE DEF BInv
<1>1. /\ step = "read" /\ step' = step /\ fault' = fault
      /\ loaded \in Seq(Nat) /\ taken \in Nat /\ Len(loaded) < Size
  BY DiskFacts DEF LoadToMem, DriveInv
<1>2. CASE drive = "data"
  <2>1. /\ taken' = taken + 1 /\ loaded' = Append(loaded, OnDisk[taken + 1])
        /\ drive' = IF taken' = Len(OnDisk) THEN "idle"
                    ELSE IF taken' % SECTOR_SIZE = 0 /\ fault = "drive_waits" THEN "busy"
                    ELSE "data"
    BY <1>2 DEF LoadToMem, HandOut
  <2>2. OnDisk[taken + 1] \in Nat
    <3>1. taken + 1 \in 1 .. Size
      BY <1>1, DiskFacts DEF DriveInv
    <3> QED
      BY <3>1, DiskFacts
  <2>3. loaded' \in Seq(Nat) /\ taken' \in Nat /\ taken' <= Len(loaded')
    BY <1>1, <2>1, <2>2 DEF DriveInv
  <2>4. ASSUME fault # "drive_waits"
        PROVE  Whole' /\ drive' = (IF taken' = Size THEN "idle" ELSE "data")
    <3>1. Len(loaded) = taken /\ \A w \in 1 .. taken : loaded[w] = w
      BY <1>1, <2>4 DEF DriveInv, Whole
    <3>2. OnDisk[taken + 1] = taken + 1 /\ Len(OnDisk) = Size
      BY <1>1, <3>1, DiskFacts
    <3>3. Whole'
      BY <1>1, <2>1, <3>1, <3>2, DiskFacts DEF Whole, Size
    <3> QED
      BY <2>1, <2>4, <3>2, <3>3
  <2> QED
    BY <1>1, <2>3, <2>4 DEF DriveInv, Size
<1>3. CASE drive # "data"
  <2>1. loaded' = Append(loaded, Garbage) /\ taken' = taken /\ drive' = drive
    BY <1>3 DEF LoadToMem
  <2>2. fault = "drive_waits"
    BY <1>1, <1>3, DiskFacts DEF DriveInv, Whole
  <2> QED
    BY <1>1, <2>1, <2>2 DEF DriveInv, Garbage
<1> QED
  BY <1>2, <1>3

LEMMA PagingStep ==
  ASSUME BInv, SetPaging
  PROVE  DriveInv'
<1> USE DEF BInv
<1>1. /\ step = "read" /\ step' = "paging" /\ fault' = fault /\ loaded' = loaded
      /\ taken' = taken /\ Len(loaded) = Size /\ loaded \in Seq(Nat) /\ taken \in Nat
  BY DiskFacts DEF SetPaging, DriveInv
<1>2. ASSUME fault # "drive_waits" PROVE loaded = OnDisk
  <2>1. \A w \in 1 .. Size : loaded[w] = w
    BY <1>1, <1>2 DEF DriveInv, Whole
  <2> QED
    BY <1>1, <2>1, DiskFacts, SeqEqual
<1> QED
  BY <1>1, <1>2 DEF DriveInv

LEMMA BInvStep == BInv /\ [BootNext]_allVars => BInv'
<1> SUFFICES ASSUME BInv, [BootNext]_allVars PROVE BInv'
  OBVIOUS
<1> USE DEF BInv
<1>1. CASE Mbr
  <2>1. /\ step = "mbr" /\ step' \in {"lost", "e820"}
        /\ step' = "lost" => fault = "read_fails"
        /\ UNCHANGED <<map, stored, pc, fault, drive, taken, loaded>>
    BY <1>1 DEF Mbr, vars
  <2>2. ListInv'
    BY <2>1 DEF ListInv
  <2>3. DriveInv'
    BY <2>1 DEF DriveInv
  <2>4. LostInv'
    BY <2>1 DEF LostInv
  <2> QED
    BY <2>2, <2>3, <2>4
<1>2. CASE ListMemory
  <2>1. map[Len(stored) + 1] \in Ranges
    BY <1>2 DEF ListMemory, GetMemSize, ListInv
  <2>2. ListInv'
    BY <1>2, <2>1 DEF ListMemory, GetMemSize, ListInv, bootVars
  <2> QED
    BY <1>2, <2>2 DEF ListMemory, GetMemSize, bootVars, DriveInv, LostInv, Whole
<1>3. CASE EndOfList
  <2>1. TableEnd > CODE_DESCRIPTOR => Len(stored) > 15
    BY DEF TableEnd, RangeBytes, PHY_MEM_SIZE, CODE_DESCRIPTOR,
           LOADER_START_ADDRESS, ListInv
  <2> QED
    BY <1>3, <2>1 DEF EndOfList, vars, ListInv, DriveInv, LostInv, Whole
<1>4. CASE Command \/ Poll
  BY <1>4, DiskFacts DEF Command, Poll, DriveReady, vars, ListInv, DriveInv, LostInv, Whole
<1>5. CASE LoadToMem
  BY <1>5, LoadStep DEF LoadToMem, vars, ListInv, LostInv
<1>6. CASE SetPaging
  BY <1>6, PagingStep DEF SetPaging, vars, ListInv, LostInv
<1>7. CASE EnterKernel
  BY <1>7 DEF EnterKernel, vars, ListInv, DriveInv, LostInv, Whole
<1>8. CASE AddMemory
  BY <1>8 DEF AddMemory, AddRange, bootVars, ListInv, DriveInv, LostInv, Whole
<1>11. CASE InitPools
  BY <1>11 DEF InitPools, EndScan, ListInv, DriveInv, LostInv, Whole
<1>12. CASE InitCache
  BY <1>12 DEF InitCache, vars, ListInv, DriveInv, LostInv, Whole
<1>9. CASE DriveAnswers
  BY <1>9 DEF DriveAnswers, vars, ListInv, DriveInv, LostInv, Whole
<1>13. CASE BiosInterrupt
  BY <1>13 DEF BiosInterrupt, vars, ListInv, DriveInv, LostInv, Whole
<1>10. CASE UNCHANGED allVars
  BY <1>10 DEF allVars, vars, bootVars, ListInv, DriveInv, LostInv, Whole
<1> QED
  BY <1>1, <1>2, <1>3, <1>4, <1>5, <1>6, <1>7, <1>8, <1>9, <1>10,
     <1>11, <1>12, <1>13
     DEF BootNext, BootStep, Stopped

LEMMA BootInductive == BootSpec => []BInv
BY BInvInit, BInvStep, PTL DEF BootSpec

\* At most fifteen ranges never destroy the loader that lists them.
THEOREM LoaderSafe == BootSpec => []LoaderSurvives
<1>1. BInv => LoaderSurvives
  BY DEF BInv, ListInv, LostInv, LoaderSurvives
<1> QED
  BY <1>1, BootInductive, PTL

\* A drive that keeps up gives the loader the whole kernel, whatever the number
\* of sectors and words in one.
THEOREM KernelLoaded == BootSpec => []KernelWhole
<1>1. BInv => KernelWhole
  BY DEF BInv, DriveInv, KernelWhole
<1> QED
  BY <1>1, BootInductive, PTL
-----------------------------------------------------------------------------
\* With 42 pages the kernel's share and its bitmap have room for sixteen.
LEMMA RoomForCaches ==
  ASSUME NEW n \in 42 .. Word32, n < Word
  PROVE  /\ CorePages(n) \in Nat /\ CorePages(n) >= 16
         /\ 8 * Bytes(CorePages(n)) \in Nat /\ 8 * Bytes(CorePages(n)) >= 16
<1> DEFINE c == CorePages(n)
           q == n \div 4
<1>1. /\ UserPages(n) \in Nat /\ c \in Nat /\ UserPages(n) <= c /\ UserPages(n) + c + q + 1 = n
  <2>1. n \in Nat \ {0} /\ n < Word
    OBVIOUS
  <2> QED
    BY <2>1, Shares
<1>2. q \in Nat /\ 4 * q <= n
  OBVIOUS
<1>3. c >= 16
  <2> HIDE DEF c, q
  <2> QED
    BY <1>1, <1>2
<1> HIDE DEF c
<1>4. c \div 8 \in Nat /\ c \div 8 >= 2 /\ c \div 8 < Word32
  <2>1. n \in Nat /\ n <= Word32 /\ Word32 \in Nat /\ c < n
    <3> HIDE DEF q
    <3> QED
      BY <1>1, <1>2, LayoutAssumption
  <2> QED
    BY <1>1, <1>3, <2>1
<1>5. (c \div 8) % Word32 = c \div 8
  <2> DEFINE d == c \div 8
  <2> HIDE DEF d
  <2>1. \A x \in Nat : x < Word32 => x % Word32 = x
    BY LayoutAssumption
  <2> QED
    BY <1>4, <2>1 DEF d
<1> QED
  BY <1>1, <1>3, <1>4, <1>5 DEF Bytes, c

\* The caches get the pages from 0 on, one after the other.
CacheInv ==
  /\ caches \in Seq(Int) /\ Len(caches) <= SLAB_CACHE_SIZE
  /\ pc # "done" => caches = <<>>
  /\ (EnoughRam /\ pages \in 42 .. Word32) => \A i \in 1 .. Len(caches) : caches[i] = i - 1

\* The first free bit behind a full beginning.
LEMMA NextPage ==
  ASSUME NEW k \in Nat, NEW bits \in Nat, k < bits
  PROVE  AllocIndex(0 .. (k - 1), bits, 1) = k
<1> DEFINE used == 0 .. (k - 1)
<1>1. RunFree(used, bits, k, 1)
  BY DEF RunFree
<1>2. Scan(used, bits, 1) # NotFound
  <2> DEFINE runs == FreeRuns(used, bits, 1)
  <2>1. runs # {} /\ runs \subseteq Nat
    BY <1>1 DEF FreeRuns
  <2>2. Scan(used, bits, 1) = CHOOSE s \in runs : \A t \in runs : s <= t
    BY <2>1 DEF Scan
  <2> HIDE DEF runs
  <2>3. Scan(used, bits, 1) \in Nat
    BY <2>1, <2>2, NatMin
  <2> QED
    BY <2>3 DEF NotFound
<1>3. ~AllocFails(used, bits, 1)
  BY <1>2 DEF AllocFails
<1> DEFINE idx == AllocIndex(used, bits, 1)
<1>4. /\ idx \in 0 .. (bits - 1)
      /\ \A i \in idx .. (idx + 1 - 1) : i \notin used
      /\ \A s \in 0 .. (idx - 1) : ~RunFree(used, bits, s, 1)
  <2>1. 1 \in Nat \ {0}
    OBVIOUS
  <2> HIDE DEF used
  <2> QED
    BY <1>3, <2>1, AllocFound, Zenon
<1> HIDE DEF idx
<1>5. idx \in Nat /\ ~(k \in 0 .. (idx - 1))
  BY <1>1, <1>4
<1>6. idx \notin used
  <2> HIDE DEF used
  <2> QED
    BY <1>4, <1>5
<1> QED
  BY <1>5, <1>6 DEF idx

LEMMA CacheStep ==
  ASSUME CacheInv, LayoutInv, InitCache
  PROVE  CacheInv'
<1> DEFINE page == AllocIndex(ToSet(caches), VirtBits, 1)
<1>1. /\ pc = "done" /\ pc' = pc /\ Len(caches) < 16 /\ caches' = Append(caches, page)
      /\ phy_memory_size' = phy_memory_size /\ end' = end
  BY DEF InitCache, vars, SLAB_CACHE_SIZE
<1>2. (EnoughRam <=> EnoughRam') /\ pages' = pages
  BY <1>1 DEF EnoughRam, pages
<1>3. page \in Int
  <2> DEFINE runs == FreeRuns(ToSet(caches), VirtBits, 1)
             first == CHOOSE s \in runs : \A t \in runs : s <= t
  <2>1. runs \subseteq Nat
    BY DEF FreeRuns
  <2>2. page = 0 \/ (runs # {} /\ page = first)
    BY DEF AllocIndex, Scan
  <2>3. runs # {} => first \in Nat
    <3> HIDE DEF runs
    <3> QED
      BY <2>1, NatMin
  <2> HIDE DEF page, runs, first
  <2> QED
    BY <2>2, <2>3
<1>4. ASSUME EnoughRam, pages \in 42 .. Word32
      PROVE  page = Len(caches)
  <2>1. \A i \in 1 .. Len(caches) : caches[i] = i - 1
    BY <1>4 DEF CacheInv
  <2>2. ToSet(caches) = 0 .. (Len(caches) - 1)
    <3>1. Len(caches) \in Nat /\ DOMAIN caches = 1 .. Len(caches)
      BY DEF CacheInv
    <3>2. \A i \in 1 .. Len(caches) : caches[i] \in 0 .. (Len(caches) - 1)
      BY <2>1, <3>1
    <3>3. \A x \in 0 .. (Len(caches) - 1) : \E i \in 1 .. Len(caches) : x = caches[i]
      <4>1. \A x \in 0 .. (Len(caches) - 1) : x + 1 \in 1 .. Len(caches) /\ caches[x + 1] = x
        BY <2>1, <3>1
      <4> QED
        BY <4>1
    <3>4. ToSet(caches) = {caches[i] : i \in 1 .. Len(caches)}
      BY <3>1 DEF ToSet
    <3> QED
      BY <3>2, <3>3, <3>4, Zenon
  <2>3. VirtBits \in Nat /\ VirtBits >= 16
    <3>1. pages \in Nat /\ pages < Word
      BY <1>4, PagesRange DEF LayoutInv
    <3> HIDE DEF pages
    <3> QED
      BY <1>4, <3>1, RoomForCaches DEF VirtBits
  <2>4. Len(caches) \in Nat /\ Len(caches) < VirtBits
    BY <1>1, <2>3 DEF CacheInv
  <2> HIDE DEF VirtBits
  <2> QED
    BY <2>2, <2>3, <2>4, NextPage
<1> HIDE DEF page
<1>5. caches' \in Seq(Int) /\ Len(caches') = Len(caches) + 1
  BY <1>1, <1>3 DEF CacheInv
<1>6. ASSUME EnoughRam', pages' \in 42 .. Word32
      PROVE  \A i \in 1 .. Len(caches') : caches'[i] = i - 1
  <2>1. EnoughRam /\ pages \in 42 .. Word32
    BY <1>2, <1>6, Zenon
  <2>2. page = Len(caches)
    BY <1>4, <2>1, Zenon
  <2>3. \A i \in 1 .. Len(caches) : caches[i] = i - 1
    BY <2>1, Zenon DEF CacheInv
  <2> QED
    BY <1>1, <1>3, <2>2, <2>3 DEF CacheInv
<1> QED
  BY <1>1, <1>5, <1>6 DEF CacheInv, SLAB_CACHE_SIZE

LEMMA CachesInductive == BootSpec => []CacheInv
<1>1. BootInit => CacheInv
  BY DEF BootInit, Init, CacheInv, SLAB_CACHE_SIZE
<1>2. CacheInv /\ LayoutInv /\ [BootNext]_allVars => CacheInv'
  <2> SUFFICES ASSUME CacheInv, LayoutInv, [BootNext]_allVars PROVE CacheInv'
    OBVIOUS
  <2>1. CASE ListMemory \/ AddMemory \/ InitPools
    <3>1. caches' = caches /\ pc # "done"
      BY <2>1 DEF ListMemory, GetMemSize, AddMemory, AddRange, InitPools, EndScan, bootVars
    <3> QED
      BY <3>1 DEF CacheInv, SLAB_CACHE_SIZE
  <2>2. CASE InitCache
    BY <2>2, CacheStep
  <2>3. CASE UNCHANGED <<vars, caches>>
    <3>1. UNCHANGED <<phy_memory_size, end, pc, caches>>
      BY <2>3 DEF vars
    <3> QED
      BY <3>1 DEF CacheInv, EnoughRam, pages
  <2>4. CASE Mbr \/ EndOfList \/ Command \/ Poll \/ LoadToMem \/ SetPaging \/ EnterKernel
    BY <2>3, <2>4 DEF Mbr, EndOfList, Command, Poll, LoadToMem, SetPaging, EnterKernel
  <2>5. CASE DriveAnswers \/ BiosInterrupt \/ Stopped \/ UNCHANGED allVars
    BY <2>3, <2>5 DEF DriveAnswers, BiosInterrupt, Stopped, allVars, bootVars
  <2> QED
    BY <2>1, <2>2, <2>4, <2>5 DEF BootNext, BootStep
<1> QED
  BY <1>1, <1>2, BootRefines, LayoutInductive, PTL DEF BootSpec

\* Every cache of init_memory gets a page of its own, for every memory of 42
\* to 2^32 pages.
THEOREM CachesOwn == BootSpec => []CachesApart
<1>1. CacheInv /\ LayoutInv => CachesApart
  <2> SUFFICES ASSUME CacheInv, LayoutInv, EnoughRam, pages \in 42 .. Word32
               PROVE  /\ \A i, j \in DOMAIN caches : i # j => caches[i] # caches[j]
                      /\ \A i \in DOMAIN caches : caches[i] < CorePages(pages)
    BY DEF CachesApart
  <2>1. CorePages(pages) \in Nat /\ CorePages(pages) >= 16
    <3>1. pages \in Nat /\ pages < Word
      BY PagesRange DEF LayoutInv
    <3> HIDE DEF pages
    <3> QED
      BY <3>1, RoomForCaches
  <2>2. /\ DOMAIN caches = 1 .. Len(caches) /\ Len(caches) \in Nat /\ Len(caches) <= 16
        /\ \A i \in 1 .. Len(caches) : caches[i] = i - 1
    BY DEF CacheInv, SLAB_CACHE_SIZE
  <2> HIDE DEF pages
  <2> QED
    BY <2>1, <2>2
<1> QED
  BY <1>1, CachesInductive, BootRefines, LayoutInductive, PTL
-----------------------------------------------------------------------------
(* The page tables. *)

\* The frames of the kernel in the tables hold 10 MB.
KernelMapped == KernelEnds \subseteq 0 .. 10240

\* What the processor's walk has reached after each of n levels.
Levels(path, n) ==
  CHOOSE f : f = [k \in 0 .. n |-> IF k = 0 THEN Root ELSE Follow(f[k - 1], path[k])]

\* The processor's walk, level by level, for as many levels as there are.
LEMMA WalkFacts ==
  ASSUME NEW path \in Seq(Nat)
  PROVE  /\ Len(path) = 1 => Walk(path) = Follow(Root, path[1])
         /\ Len(path) = 2 => Walk(path) = Follow(Follow(Root, path[1]), path[2])
         /\ Len(path) = 3 => Walk(path) = Follow(Follow(Follow(Root, path[1]), path[2]), path[3])
         /\ Len(path) = 4 =>
              Walk(path) = Follow(Follow(Follow(Follow(Root, path[1]), path[2]), path[3]), path[4])
<1> DEFINE Solves(f, n) ==
             f = [k \in 0 .. n |-> IF k = 0 THEN Root ELSE Follow(f[k - 1], path[k])]
           f1 == Follow(Root, path[1])
           f2 == Follow(f1, path[2])
           f3 == Follow(f2, path[3])
           f4 == Follow(f3, path[4])
<1>1. Walk(path) = Levels(path, Len(path))[Len(path)]
  BY DEF Walk, Levels
<1>2. ASSUME NEW n \in 1 .. 4
      PROVE  Levels(path, n)[n] = IF n = 1 THEN f1 ELSE IF n = 2 THEN f2
                                  ELSE IF n = 3 THEN f3 ELSE f4
  <2> DEFINE g == [k \in 0 .. n |-> IF k = 0 THEN Root ELSE IF k = 1 THEN f1
                                   ELSE IF k = 2 THEN f2 ELSE IF k = 3 THEN f3 ELSE f4]
  <2>1. ASSUME NEW k \in 0 .. n
        PROVE  g[k] = IF k = 0 THEN Root ELSE Follow(g[k - 1], path[k])
    <3>1. /\ k \in {0, 1, 2, 3, 4} /\ (k # 0 => k - 1 \in 0 .. n)
          /\ (k = 1 => k - 1 = 0) /\ (k = 2 => k - 1 = 1)
          /\ (k = 3 => k - 1 = 2) /\ (k = 4 => k - 1 = 3)
      OBVIOUS
    <3> HIDE DEF f1, f2, f3, f4
    <3>2. g[k] = IF k = 0 THEN Root ELSE IF k = 1 THEN f1
                 ELSE IF k = 2 THEN f2 ELSE IF k = 3 THEN f3 ELSE f4
      OBVIOUS
    <3>3. k # 0 => g[k - 1] = IF k = 1 THEN Root ELSE IF k = 2 THEN f1
                              ELSE IF k = 3 THEN f2 ELSE f3
      BY <3>1
    <3> HIDE DEF g
    <3>4. /\ f1 = Follow(Root, path[1]) /\ f2 = Follow(f1, path[2])
          /\ f3 = Follow(f2, path[3]) /\ f4 = Follow(f3, path[4])
      BY DEF f1, f2, f3, f4
    <3> QED BY <3>1, <3>2, <3>3, <3>4
  <2>2. Solves(g, n)
    <3>1. g = [k \in 0 .. n |-> g[k]]
      OBVIOUS
    <3> HIDE DEF g
    <3> QED BY <2>1, <3>1
  <2>3. Levels(path, n) = CHOOSE f : Solves(f, n)
    BY DEF Levels
  <2> DEFINE h == Levels(path, n)
  <2>4. Solves(h, n)
    <3> HIDE DEF Solves, g
    <3> QED BY <2>2, <2>3
  <2> HIDE DEF h
  <2>5. \A k \in 0 .. n : h[k] = IF k = 0 THEN Root ELSE Follow(h[k - 1], path[k])
    <3>1. h = [k \in 0 .. n |-> IF k = 0 THEN Root ELSE Follow(h[k - 1], path[k])]
      BY <2>4
    <3> QED BY <3>1
  <2>6. h[0] = Root /\ h[1] = f1 /\ (n >= 2 => h[2] = f2) /\ (n >= 3 => h[3] = f3)
        /\ (n >= 4 => h[4] = f4)
    <3>1. h[0] = Root /\ h[1] = Follow(h[0], path[1])
      <4>1. 0 \in 0 .. n /\ 1 \in 0 .. n /\ 1 - 1 = 0
        OBVIOUS
      <4> QED BY <2>5, <4>1
    <3>2. n >= 2 => h[2] = Follow(h[1], path[2])
      <4>1. n >= 2 => 2 \in 0 .. n /\ 2 - 1 = 1
        OBVIOUS
      <4> QED BY <2>5, <4>1
    <3>3. n >= 3 => h[3] = Follow(h[2], path[3])
      <4>1. n >= 3 => 3 \in 0 .. n /\ 3 - 1 = 2
        OBVIOUS
      <4> QED BY <2>5, <4>1
    <3>4. n >= 4 => h[4] = Follow(h[3], path[4])
      <4>1. n >= 4 => 4 \in 0 .. n /\ 4 - 1 = 3
        OBVIOUS
      <4> QED BY <2>5, <4>1
    <3>5. (n >= 4 => n >= 3) /\ (n >= 3 => n >= 2)
      OBVIOUS
    <3> QED BY <3>1, <3>2, <3>3, <3>4, <3>5
  <2> HIDE DEF f1, f2, f3, f4
  <2>7. n = 1 \/ n = 2 \/ n = 3 \/ n = 4
    OBVIOUS
  <2> QED BY <2>6, <2>7 DEF h
<1> HIDE DEF f1, f2, f3, f4
<1>3. /\ Levels(path, 1)[1] = f1 /\ Levels(path, 2)[2] = f2
      /\ Levels(path, 3)[3] = f3 /\ Levels(path, 4)[4] = f4
  BY <1>2
<1> QED BY <1>1, <1>3 DEF f1, f2, f3, f4

\* What the loader has written, entry by entry.
LEMMA TableFacts ==
  ASSUME tables = PageTables
  PROVE  /\ Follow(Root, 0) = To(1) /\ Follow(Root, 256) = To(1)
         /\ Follow(Root, 510) = To(3) /\ Follow(Root, 511) = Root
         /\ Follow(To(1), 0) = To(2) /\ Follow(To(3), 0) = To(4)
         /\ \A k \in 0 .. 4 : Follow(To(2), k) = Frame(k)
         /\ \A k \in 0 .. 2 : Follow(To(4), k) = Frame(SCREEN_FRAME + k)
         /\ Follow(To(4), 8) = Frame(APIC_FRAME)
<1>1. /\ tables[0 + 1] = RootEntries /\ tables[1 + 1] = [i \in {0} |-> To(2)]
      /\ tables[2 + 1] = KernelFrames /\ tables[3 + 1] = [i \in {0} |-> To(4)]
      /\ tables[4 + 1] = SystemFrames
  <2> DEFINE a == RootEntries
             b == [i \in {0} |-> To(2)]
             c == KernelFrames
             d == [i \in {0} |-> To(4)]
             e == SystemFrames
  <2>1. tables = <<a, b, c, d, e>>
    BY DEF PageTables
  <2> HIDE DEF a, b, c, d, e
  <2>2. tables[0 + 1] = a /\ tables[1 + 1] = b /\ tables[2 + 1] = c /\ tables[3 + 1] = d
        /\ tables[4 + 1] = e
    BY <2>1
  <2> QED BY <2>2 DEF a, b, c, d, e
<1>2. /\ Root.to = 0 /\ Root.large = FALSE
      /\ \A t : To(t).to = t /\ To(t).large = FALSE
  BY DEF Root, To
<1>3. ASSUME NEW i \in {0, 256, 510, 511} PROVE Follow(Root, i) = RootEntries[i]
  BY <1>1, <1>2 DEF Follow, RootEntries
<1>4. /\ RootEntries[0] = To(1) /\ RootEntries[256] = To(1) /\ RootEntries[510] = To(3)
      /\ RootEntries[511] = To(0)
  BY DEF RootEntries
<1>5. To(0) = Root
  BY DEF To, Root
<1>6. Follow(To(1), 0) = To(2) /\ Follow(To(3), 0) = To(4)
  <2>1. \A t : 0 \in DOMAIN [i \in {0} |-> t] /\ [i \in {0} |-> t][0] = t
    OBVIOUS
  <2> QED BY <1>1, <1>2, <2>1 DEF Follow
<1>7. ASSUME NEW k \in 0 .. 4 PROVE Follow(To(2), k) = Frame(k)
  <2>1. k \in DOMAIN KernelFrames /\ KernelFrames[k] = Frame(k)
    BY DEF KernelFrames
  <2> QED BY <1>1, <1>2, <2>1 DEF Follow
<1>8. /\ \A k \in 0 .. 2 : k \in DOMAIN SystemFrames /\ SystemFrames[k] = Frame(SCREEN_FRAME + k)
      /\ 8 \in DOMAIN SystemFrames /\ SystemFrames[8] = Frame(APIC_FRAME)
  BY DEF SystemFrames
<1>9. /\ \A k \in 0 .. 2 : Follow(To(4), k) = Frame(SCREEN_FRAME + k)
      /\ Follow(To(4), 8) = Frame(APIC_FRAME)
  <2>1. \A k \in DOMAIN SystemFrames : Follow(To(4), k) = SystemFrames[k]
    BY <1>1, <1>2 DEF Follow
  <2> QED BY <1>8, <2>1
<1> QED BY <1>3, <1>4, <1>5, <1>6, <1>7, <1>9

\* Each turn of the walk through the entry 511 stays on the root: a pointer the
\* kernel computes ends one level early, on the table instead of the page.
LEMMA SelfMap ==
  ASSUME tables = PageTables, NEW path \in Seq(Nat), Len(path) = 3
  PROVE  /\ Pointed(GET_PML4E(path)) = Walk(SubSeq(path, 1, 1))
         /\ Pointed(GET_PDPTE(path)) = Walk(SubSeq(path, 1, 2))
         /\ Pointed(GET_PDE(path)) = Walk(path)
<1>1. path[1] \in Nat /\ path[2] \in Nat /\ path[3] \in Nat
  <2>1. \A i \in 1 .. Len(path) : path[i] \in Nat
    BY ElementOfSeq
  <2> QED BY <2>1
<1>2. Follow(Root, 511) = Root
  BY TableFacts
<1>3. /\ Walk(<<511, 511, 511, 511>>) = Root
      /\ Walk(<<511, 511, 511, path[1]>>) = Follow(Root, path[1])
      /\ Walk(<<511, 511, path[1], path[2]>>) = Follow(Follow(Root, path[1]), path[2])
  <2>1. ASSUME NEW a \in Nat, NEW b \in Nat
        PROVE  Walk(<<511, 511, a, b>>) = Follow(Follow(Root, a), b)
    <3> DEFINE p == <<511, 511, a, b>>
    <3>1. p \in Seq(Nat) /\ Len(p) = 4 /\ p[1] = 511 /\ p[2] = 511 /\ p[3] = a /\ p[4] = b
      OBVIOUS
    <3> HIDE DEF p
    <3>2. Walk(p) = Follow(Follow(Follow(Follow(Root, p[1]), p[2]), p[3]), p[4])
      BY <3>1, WalkFacts
    <3>3. Walk(p) = Follow(Follow(Root, a), b)
      BY <1>2, <3>1, <3>2
    <3> QED BY <3>3 DEF p
  <2> QED BY <1>1, <1>2, <2>1
<1>4. /\ Walk(SubSeq(path, 1, 1)) = Follow(Root, path[1])
      /\ Walk(SubSeq(path, 1, 2)) = Follow(Follow(Root, path[1]), path[2])
  <2>1. \A i \in 1 .. 2 : path[i] \in Nat
    BY <1>1
  <2>2. ASSUME NEW n \in {1, 2}
        PROVE  /\ SubSeq(path, 1, n) \in Seq(Nat) /\ Len(SubSeq(path, 1, n)) = n
               /\ \A i \in 1 .. n : SubSeq(path, 1, n)[i] = path[i]
    BY <2>1
  <2> DEFINE one == SubSeq(path, 1, 1)
             two == SubSeq(path, 1, 2)
  <2>3. /\ one \in Seq(Nat) /\ Len(one) = 1 /\ one[1] = path[1]
        /\ two \in Seq(Nat) /\ Len(two) = 2 /\ two[1] = path[1] /\ two[2] = path[2]
    BY <2>2
  <2> HIDE DEF one, two
  <2>4. Walk(one) = Follow(Root, path[1]) /\ Walk(two) = Follow(Follow(Root, path[1]), path[2])
    BY <2>3, WalkFacts
  <2> QED BY <2>4 DEF one, two
<1>5. Walk(path) = Follow(Follow(Follow(Root, path[1]), path[2]), path[3])
  BY WalkFacts
<1> QED
  BY <1>3, <1>4, <1>5 DEF Pointed, GET_PML4E, GET_PDPTE, GET_PDE

\* The tables are written before the processor uses them, and never again.
TablesInv ==
  /\ end \in KernelEnds
  /\ step \in {"paging", "kernel"} => tables = PageTables

LEMMA TablesInductive == BootSpec => []TablesInv
<1>1. BootInit => TablesInv
  BY DEF BootInit, Init, TablesInv
<1>2. TablesInv /\ [BootNext]_allVars => TablesInv'
  <2> SUFFICES ASSUME TablesInv, [BootNext]_allVars PROVE TablesInv'
    OBVIOUS
  <2>1. CASE Mbr \/ EndOfList \/ Command \/ Poll \/ LoadToMem \/ DriveAnswers
                 \/ BiosInterrupt
    BY <2>1 DEF TablesInv, Mbr, EndOfList, Command, Poll, LoadToMem, DriveAnswers,
                BiosInterrupt, vars
  <2>2. CASE ListMemory \/ AddMemory
    BY <2>2 DEF TablesInv, ListMemory, AddMemory, GetMemSize, AddRange, bootVars
  <2>3. CASE SetPaging \/ EnterKernel \/ InitCache
    BY <2>3 DEF TablesInv, SetPaging, EnterKernel, InitCache, vars
  <2>4. CASE InitPools
    BY <2>4 DEF TablesInv, InitPools, EndScan
  <2>5. CASE UNCHANGED allVars
    BY <2>5 DEF TablesInv, allVars, vars, bootVars
  <2> QED
    BY <2>1, <2>2, <2>3, <2>4, <2>5 DEF BootNext, BootStep, Stopped
<1> QED BY <1>1, <1>2, PTL DEF BootSpec

\* Every address the kernel uses is mapped where it must be, and its pointers
\* into the page tables are right, wherever a kernel of up to 10 MB ends.
THEOREM KernelMaps == KernelMapped => (BootSpec => []KernelSees)
<1> SUFFICES ASSUME KernelMapped PROVE BootSpec => []KernelSees
  OBVIOUS
<1>1. TablesInv => KernelSees
  <2> SUFFICES ASSUME TablesInv, step = "kernel" PROVE KernelSees
    BY DEF KernelSees
  <2> DEFINE image == {<<256, 0, k>> : k \in 0 .. (end - 1) \div PAGE_SIZE}
             screen == {<<510, 0, k>> : k \in 0 .. 2}
             used == image \cup screen \cup {<<0, 0, 0>>, <<510, 0, 8>>}
  <2>1. tables = PageTables /\ end \in 0 .. 10240
    BY DEF TablesInv, KernelMapped
  <2>2. 0 .. (end - 1) \div PAGE_SIZE \subseteq 0 .. 4
    BY <2>1 DEF PAGE_SIZE
  <2>3. ASSUME NEW a \in Nat, NEW b \in Nat, NEW c \in Nat
        PROVE  /\ <<a, b, c>> \in Seq(Nat) /\ Len(<<a, b, c>>) = 3 /\ <<a, b, c>>[3] = c
               /\ Walk(<<a, b, c>>) = Follow(Follow(Follow(Root, a), b), c)
    <3> DEFINE p == <<a, b, c>>
    <3>1. p \in Seq(Nat) /\ Len(p) = 3 /\ p[1] = a /\ p[2] = b /\ p[3] = c
      OBVIOUS
    <3> HIDE DEF p
    <3>2. Walk(p) = Follow(Follow(Follow(Root, p[1]), p[2]), p[3])
      BY <3>1, WalkFacts
    <3>3. p \in Seq(Nat) /\ Len(p) = 3 /\ p[3] = c /\ Walk(p) = Follow(Follow(Follow(Root, a), b), c)
      BY <3>1, <3>2
    <3> QED BY <3>3 DEF p
  <2>4. \A path \in used : path \in Seq(Nat) /\ Len(path) = 3
    <3>1. ASSUME NEW path \in used
          PROVE  \E a, b, c \in Nat : path = <<a, b, c>>
      <4>1. \A k \in 0 .. (end - 1) \div PAGE_SIZE : k \in Nat
        BY <2>2
      <4>2. CASE path \in image
        BY <4>1, <4>2
      <4>3. CASE path \in screen
        BY <4>3
      <4>4. CASE path \in {<<0, 0, 0>>, <<510, 0, 8>>}
        BY <4>4
      <4> HIDE DEF image, screen
      <4> QED BY <4>2, <4>3, <4>4
    <3> HIDE DEF used
    <3>2. ASSUME NEW path \in used PROVE path \in Seq(Nat) /\ Len(path) = 3
      <4>1. PICK a, b, c \in Nat : path = <<a, b, c>>
        BY <3>1
      <4> QED BY <2>3, <4>1
    <3> QED BY <3>2
  <2>5. /\ \A k \in 0 .. 4 : Walk(<<256, 0, k>>) = Frame(k)
        /\ Walk(<<0, 0, 0>>) = Frame(0)
        /\ \A k \in 0 .. 2 : Walk(<<510, 0, k>>) = Frame(SCREEN_FRAME + k)
        /\ Walk(<<510, 0, 8>>) = Frame(APIC_FRAME)
    <3>1. \A k \in 0 .. 4 : Walk(<<256, 0, k>>) = Frame(k)
      BY <2>1, <2>3, TableFacts
    <3>2. Walk(<<0, 0, 0>>) = Frame(0)
      BY <2>1, <2>3, TableFacts
    <3>3. \A k \in 0 .. 2 : Walk(<<510, 0, k>>) = Frame(SCREEN_FRAME + k)
      BY <2>1, <2>3, TableFacts
    <3>4. Walk(<<510, 0, 8>>) = Frame(APIC_FRAME)
      BY <2>1, <2>3, TableFacts
    <3> QED BY <3>1, <3>2, <3>3, <3>4
  <2>6. \A path \in image \cup {<<0, 0, 0>>} : Walk(path) = Frame(path[3])
    BY <2>2, <2>3, <2>5
  <2>7. \A path \in screen : Walk(path) = Frame(SCREEN_FRAME + path[3])
    BY <2>3, <2>5
  <2>8. \A path \in used :
          /\ Pointed(GET_PML4E(path)) = Walk(SubSeq(path, 1, 1))
          /\ Pointed(GET_PDPTE(path)) = Walk(SubSeq(path, 1, 2))
          /\ Pointed(GET_PDE(path)) = Walk(path)
    <3> HIDE DEF used
    <3> QED BY <2>1, <2>4, SelfMap
  <2> QED BY <2>5, <2>6, <2>7, <2>8 DEF KernelSees
<1> QED BY <1>1, TablesInductive, PTL
=============================================================================
