--------------------------- MODULE Kmalloc_proofs ---------------------------
(***************************************************************************)
(* kmalloc and kfree keep their blocks, lists and counters consistent and  *)
(* implement the abstract heap, for every number of pages and caches.      *)
(***************************************************************************)
EXTENDS Kmalloc, Bitmap_proofs, FiniteSetTheorems, SequenceTheorems

-----------------------------------------------------------------------------
(* The sizes of the caches. *)

LEMMA Constants ==
  /\ NumCaches \in Nat /\ NumCaches >= 1 /\ NumPages \in Nat /\ NumCaches <= NumPages
  /\ PageSize \in Nat /\ HeaderSize \in Nat /\ HeaderSize >= 1
  /\ 2 * HeaderSize <= PageSize /\ 2 * MaxSlabSize = PageSize
  /\ MaxSlabSize \in Nat /\ MaxSlabSize >= 1 /\ PageSize >= 2
  /\ \A c \in Caches : SlabSize[c] \in Nat /\ SlabSize[c] >= 1
  /\ \A c \in Caches : c # 0 => SlabSize[c] = 2 * SlabSize[c - 1]
  /\ Caches = 0 .. (NumCaches - 1) /\ Caches \subseteq PageSet /\ Sizes \subseteq Nat
<1>1. NumCaches - 1 \in Caches
  BY SizeAssumption DEF Caches
<1>2. \A c \in Caches : SlabSize[c] \in Nat /\ SlabSize[c] >= 1
  BY SizeAssumption
<1>3. MaxSlabSize \in Nat /\ MaxSlabSize >= 1
  BY <1>1, <1>2 DEF MaxSlabSize
<1>4. Caches \subseteq PageSet
  BY SizeAssumption DEF Caches, PageSet
<1> QED
  BY <1>2, <1>3, <1>4, SizeAssumption DEF Caches

\* Each cache's size divides half a page.
LEMMA Divides == \A c \in Caches : \E m \in Nat : m >= 1 /\ MaxSlabSize = m * SlabSize[c]
<1> DEFINE P(c) == \E m \in Nat : m >= 1 /\ MaxSlabSize = m * SlabSize[c]
<1> DEFINE bad == {d \in Nat : d < NumCaches /\ ~P(NumCaches - 1 - d)}
<1>1. SUFFICES bad = {}
  <2> SUFFICES ASSUME NEW c \in Caches PROVE P(c)
    OBVIOUS
  <2>1. /\ NumCaches - 1 - c \in Nat /\ NumCaches - 1 - c < NumCaches
        /\ NumCaches - 1 - (NumCaches - 1 - c) = c
    BY Constants DEF Caches
  <2> QED
    BY <1>1, <2>1
<1>2. SUFFICES ASSUME bad # {} PROVE FALSE
  OBVIOUS
<1>3. PICK d \in bad : \A e \in bad : d <= e
  <2>1. bad \subseteq Nat
    OBVIOUS
  <2> HIDE DEF bad
  <2> QED BY <1>2, <2>1, NatMin
<1>4. d # 0
  <2>1. MaxSlabSize = 1 * MaxSlabSize
    BY Constants
  <2>2. P(NumCaches - 1)
    BY <2>1 DEF MaxSlabSize
  <2>3. NumCaches - 1 - 0 = NumCaches - 1
    BY Constants
  <2> QED BY <1>3, <2>2, <2>3
<1>5. d - 1 \in Nat /\ d - 1 < NumCaches /\ d - 1 \notin bad
  <2>1. d \in Nat /\ d - 1 \in Nat /\ d - 1 < NumCaches /\ ~(d <= d - 1)
    BY <1>3, <1>4, Constants
  <2> HIDE DEF bad
  <2> QED BY <1>3, <2>1
<1> DEFINE c == NumCaches - 1 - d
<1>6. /\ c \in Caches /\ c + 1 \in Caches /\ c + 1 # 0
      /\ c + 1 = NumCaches - 1 - (d - 1) /\ (c + 1) - 1 = c
  BY <1>3, <1>4, Constants DEF Caches
<1>7. PICK m \in Nat : m >= 1 /\ MaxSlabSize = m * SlabSize[c + 1]
  BY <1>5, <1>6
<1>8. SlabSize[c + 1] = 2 * SlabSize[c] /\ SlabSize[c] \in Nat
  BY <1>6, Constants
<1>9. MaxSlabSize = (2 * m) * SlabSize[c] /\ 2 * m \in Nat /\ 2 * m >= 1
  <2> HIDE DEF c
  <2> QED BY <1>7, <1>8
<1> QED
  <2>1. P(c)
    BY <1>9
  <2> QED BY <1>3, <2>1

\* A larger index is a larger size.
LEMMA Increasing == \A c, d \in Caches : c < d => SlabSize[c] < SlabSize[d]
<1> SUFFICES ASSUME NEW c \in Caches PROVE \A d \in Caches : c < d => SlabSize[c] < SlabSize[d]
  OBVIOUS
<1> DEFINE bad == {d \in Caches : c < d /\ ~(SlabSize[c] < SlabSize[d])}
<1>1. SUFFICES ASSUME bad # {} PROVE FALSE
  OBVIOUS
<1>2. PICK d \in bad : \A e \in bad : d <= e
  <2>1. bad \subseteq Nat
    BY DEF Caches
  <2> HIDE DEF bad
  <2> QED BY <1>1, <2>1, NatMin
<1>3. c \in Nat /\ d \in Nat /\ c < d /\ d \in Caches /\ d - 1 \in Caches /\ d # 0
  BY <1>2, Constants DEF Caches
<1>4. SlabSize[d] = 2 * SlabSize[d - 1] /\ SlabSize[d - 1] >= 1 /\ SlabSize[d - 1] \in Nat
  BY <1>3, Constants
<1>5. d - 1 \notin bad
  BY <1>2, <1>3
<1>6. SlabSize[c] < SlabSize[d] \/ c = d - 1 \/ SlabSize[c] < SlabSize[d - 1]
  BY <1>3, <1>5
<1>7. SlabSize[c] \in Nat /\ SlabSize[d] \in Nat
  BY <1>3, Constants
<1>8. SlabSize[c] < SlabSize[d]
  BY <1>4, <1>6, <1>7
<1> QED
  BY <1>2, <1>8

LEMMA SizesDiffer ==
  /\ \A c, d \in Caches : SlabSize[c] = SlabSize[d] => c = d
  /\ \A c \in Caches : SlabSize[c] <= MaxSlabSize
<1>1. \A c, d \in Caches : SlabSize[c] = SlabSize[d] => c = d
  BY Increasing, Constants
<1>2. ASSUME NEW c \in Caches PROVE SlabSize[c] <= MaxSlabSize
  <2>1. NumCaches - 1 \in Caches /\ (c < NumCaches - 1 \/ c = NumCaches - 1)
    BY Constants DEF Caches
  <2> QED
    BY <2>1, Increasing, Constants DEF MaxSlabSize
<1> QED
  BY <1>1, <1>2
-----------------------------------------------------------------------------
(* The blocks of a slab. *)

\* An injective sequence has as many elements as places.
LEMMA InjectiveLen ==
  ASSUME NEW S, NEW seq \in Seq(S), IsInjective(seq)
  PROVE  IsFiniteSet(ToSet(seq)) /\ Cardinality(ToSet(seq)) = Len(seq) /\ ToSet(seq) \subseteq S
<1>1. seq \in [1 .. Len(seq) -> ToSet(seq)] /\ ToSet(seq) \subseteq S
  BY DEF ToSet
<1>2. \A y \in ToSet(seq) : \E x \in 1 .. Len(seq) : seq[x] = y
  BY DEF ToSet
<1>3. seq \in Bijection(1 .. Len(seq), ToSet(seq))
  BY <1>1, <1>2, Zenon DEF Bijection, Injection, Surjection
<1>4. ExistsBijection(1 .. Len(seq), ToSet(seq))
  BY <1>3 DEF ExistsBijection
<1>5. IsFiniteSet(1 .. Len(seq)) /\ Cardinality(1 .. Len(seq)) = Len(seq)
  <2> DEFINE n == Len(seq)
  <2>1. n \in Nat
    OBVIOUS
  <2> HIDE DEF n, IsInjective
  <2>2. 1 \in Int /\ n \in Int /\ (1 > n => n = 0) /\ n - 1 + 1 = n
    BY <2>1
  <2>3. /\ IsFiniteSet(1 .. n)
        /\ Cardinality(1 .. n) = IF 1 > n THEN 0 ELSE n - 1 + 1
    BY <2>2, FS_Interval
  <2> QED BY <2>2, <2>3 DEF n
<1> QED
  BY <1>1, <1>4, <1>5, FS_Bijection

\* A page has room for a header and at least one block of each size.
LEMMA PageRoom ==
  ASSUME NEW p \in PageSet, NEW c \in Caches
  PROVE  LET s == SlabSize[c]
             first == FirstBlock(p, s)
         IN  /\ p * PageSize \in Nat /\ (p + 1) * PageSize = p * PageSize + PageSize
             /\ \E q \in Nat : first = q * s
             /\ first \in Nat /\ p * PageSize + HeaderSize <= first
             /\ first + s <= (p + 1) * PageSize
             /\ BlockCount(p, s) \in Nat /\ BlockCount(p, s) >= 1
             /\ first + BlockCount(p, s) * s <= (p + 1) * PageSize
<1> DEFINE s == SlabSize[c]
           base == p * PageSize
           a == base + HeaderSize + s - 1
           q == a \div s
           first == FirstBlock(p, s)
           end == (p + 1) * PageSize
           n == BlockCount(p, s)
<1>1. s \in Nat /\ s >= 1 /\ p \in Nat /\ PageSize \in Nat /\ HeaderSize \in Nat /\ HeaderSize >= 1
  BY Constants DEF PageSet
<1>2. base \in Nat /\ end = base + PageSize
  BY <1>1
<1>3. PICK m \in Nat : m >= 1 /\ MaxSlabSize = m * s
  BY Divides
<1>4. first = q * s
  BY DEF FirstBlock, AlignUp
<1>5. n = (end - first) \div s
  BY DEF BlockCount
<1> HIDE DEF s, n, first, end
<1>6. base = (2 * m * p) * s /\ m * s + m * s = PageSize /\ HeaderSize <= m * s
  <2>1. PageSize = 2 * (m * s) /\ HeaderSize <= m * s /\ m * s \in Nat
    BY <1>1, <1>3, Constants
  <2>2. base = p * (2 * (m * s))
    BY <2>1
  <2>3. p * (2 * (m * s)) = (2 * m * p) * s
    BY <1>1
  <2> HIDE DEF base
  <2> QED BY <2>1, <2>2, <2>3
<1>7. a \in Nat /\ q \in Nat /\ q * s <= a /\ a < q * s + s
  <2>1. a \in Nat
    BY <1>1, <1>2
  <2> HIDE DEF a
  <2> QED BY <1>1, <2>1, Division
<1> HIDE DEF q
<1>8. base + HeaderSize <= first
  BY <1>1, <1>2, <1>4, <1>7
<1>9. first <= base + m * s
  <2> DEFINE k == 2 * m * p + m
  <2>1. k \in Nat /\ k * s = base + m * s
    BY <1>1, <1>6
  <2> HIDE DEF k, base
  <2>2. q <= k
    <3>1. SUFFICES ASSUME k < q PROVE FALSE
      BY <1>7, <2>1
    <3>2. k * s + s <= q * s
      BY <1>1, <1>7, <2>1, <3>1, MulMono
    <3>3. q * s <= base + HeaderSize + s - 1
      BY <1>7
    <3>4. m * s \in Nat /\ q * s \in Nat
      BY <1>1, <1>3, <1>7
    <3> QED BY <1>1, <1>2, <1>6, <2>1, <3>2, <3>3, <3>4
  <2> QED BY <1>1, <1>4, <1>7, <2>1, <2>2, MulMono
<1>10. s <= m * s /\ m * s \in Nat /\ first \in Nat
  BY <1>1, <1>3, <1>4, <1>7, MulMono
<1> HIDE DEF a
<1>11. end - first \in Nat /\ s <= end - first
  <2> HIDE DEF base
  <2> QED BY <1>1, <1>2, <1>6, <1>9, <1>10
<1>12. n \in Nat /\ n * s <= end - first /\ end - first < n * s + s
  BY <1>1, <1>5, <1>11, Division
<1>13. n >= 1
  BY <1>1, <1>11, <1>12
<1>14. n * s \in Nat
  BY <1>1, <1>12
<1>15. first + n * s <= end /\ first + s <= end
  <2> HIDE DEF base
  <2> QED BY <1>1, <1>2, <1>10, <1>11, <1>12, <1>14
<1>16. /\ base \in Nat /\ end = base + PageSize
       /\ \E z \in Nat : first = z * s
       /\ first \in Nat /\ base + HeaderSize <= first
       /\ first + s <= end
       /\ n \in Nat /\ n >= 1
       /\ first + n * s <= end
  BY <1>2, <1>4, <1>7, <1>8, <1>10, <1>12, <1>13, <1>15
<1> QED
  BY <1>16 DEF s, n, first, end, base

\* Multiples of the size that are not the same are at least a block apart.
LEMMA Apart ==
  ASSUME NEW s \in Nat, s >= 1, NEW q \in Nat, NEW r \in Nat, q # r
  PROVE  q * s + s <= r * s \/ r * s + s <= q * s
BY MulMono

\* The blocks of a slab: as many as slab_create counts, each a multiple of the
\* size behind the header and inside the page, apart from one another.
LEMMA BlocksFacts ==
  ASSUME NEW p \in PageSet, NEW c \in Caches
  PROVE  LET s == SlabSize[c]
             bs == Blocks(p, s)
         IN  /\ bs \in Seq(Nat) /\ Len(bs) = BlockCount(p, s) /\ Len(bs) >= 1
             /\ IsInjective(bs)
             /\ IsFiniteSet(ToSet(bs)) /\ Cardinality(ToSet(bs)) = BlockCount(p, s)
             /\ \A b \in ToSet(bs) :
                  /\ b \in Nat /\ p * PageSize + HeaderSize <= b
                  /\ b + s <= (p + 1) * PageSize
                  /\ SlabItem(b, s) = b /\ b % s = 0 /\ PageOf(b) = p
             /\ \A b, d \in ToSet(bs) : b # d => b + s <= d \/ d + s <= b
<1> DEFINE s == SlabSize[c]
           n == BlockCount(p, s)
           first == FirstBlock(p, s)
           bs == Blocks(p, s)
           base == p * PageSize
           end == (p + 1) * PageSize
<1>1. s \in Nat /\ s >= 1 /\ p \in Nat /\ PageSize \in Nat /\ PageSize >= 1 /\ HeaderSize \in Nat
  BY Constants DEF PageSet
<1>2. /\ n \in Nat /\ n >= 1 /\ first \in Nat /\ base \in Nat /\ end = base + PageSize
      /\ base + HeaderSize <= first /\ first + n * s <= end
  BY PageRoom
<1>3. PICK q \in Nat : first = q * s
  BY PageRoom
<1>4. bs = [i \in 1 .. n |-> first + (i - 1) * s]
  BY DEF Blocks
<1> HIDE DEF s, n, first, bs, base, end
<1>5. ASSUME NEW i \in 1 .. n
      PROVE  /\ bs[i] = (q + i - 1) * s /\ q + i - 1 \in Nat
             /\ bs[i] \in Nat /\ base + HeaderSize <= bs[i] /\ bs[i] + s <= end
  <2>1. i - 1 \in Nat /\ i - 1 < n /\ bs[i] = first + (i - 1) * s
    BY <1>2, <1>4
  <2>2. (i - 1) * s \in Nat /\ (i - 1) * s + s <= n * s
    BY <1>1, <1>2, <2>1, MulMono
  <2>3. n * s \in Nat
    BY <1>1, <1>2
  <2>4. q * s + (i - 1) * s = (q + i - 1) * s /\ q + i - 1 \in Nat
    BY <1>1, <2>1
  <2> QED BY <1>1, <1>2, <1>3, <2>1, <2>2, <2>3, <2>4
<1>6. bs \in Seq(Nat) /\ Len(bs) = n /\ DOMAIN bs = 1 .. n
  <2>1. bs \in [1 .. n -> Nat]
    BY <1>4, <1>5
  <2> QED BY <1>2, <1>4, <2>1
<1>7. ASSUME NEW i \in 1 .. n, NEW j \in 1 .. n, i # j
      PROVE  bs[i] + s <= bs[j] \/ bs[j] + s <= bs[i]
  <2>1. q + i - 1 \in Nat /\ q + j - 1 \in Nat /\ q + i - 1 # q + j - 1
    BY <1>2, <1>7
  <2> QED BY <1>1, <1>5, <2>1, Apart
<1>8. IsInjective(bs)
  <2> SUFFICES ASSUME NEW i \in 1 .. n, NEW j \in 1 .. n, bs[i] = bs[j], i # j PROVE FALSE
    BY <1>6 DEF IsInjective
  <2> QED BY <1>1, <1>5, <1>7
<1>9. IsFiniteSet(ToSet(bs)) /\ Cardinality(ToSet(bs)) = n
  BY <1>6, <1>8, InjectiveLen
<1>10. ASSUME NEW b \in ToSet(bs)
       PROVE  /\ b \in Nat /\ base + HeaderSize <= b /\ b + s <= end
              /\ SlabItem(b, s) = b /\ b % s = 0 /\ PageOf(b) = p
  <2>1. PICK i \in 1 .. n : b = bs[i]
    BY <1>6 DEF ToSet
  <2>2. /\ b = (q + i - 1) * s /\ q + i - 1 \in Nat
        /\ b \in Nat /\ base + HeaderSize <= b /\ b + s <= end
    BY <1>5, <2>1
  <2>3. b \div s = q + i - 1
    BY <1>1, <2>2, Multiple
  <2>4. b % s = 0
    BY <1>1, <2>2
  <2>5. p * PageSize <= b /\ b < p * PageSize + PageSize
    BY <1>1, <1>2, <2>2 DEF base
  <2>6. b \div PageSize = p
    BY <1>1, <2>2, <2>5, Multiple
  <2> QED BY <2>2, <2>3, <2>4, <2>6 DEF SlabItem, PageOf
<1>11. ASSUME NEW b \in ToSet(bs), NEW d \in ToSet(bs), b # d
       PROVE  b + s <= d \/ d + s <= b
  <2>1. PICK i \in 1 .. n : b = bs[i]
    BY <1>6 DEF ToSet
  <2>2. PICK j \in 1 .. n : d = bs[j]
    BY <1>6 DEF ToSet
  <2> QED BY <1>7, <1>11, <2>1, <2>2
<1>12. /\ bs \in Seq(Nat) /\ Len(bs) = n /\ Len(bs) >= 1
       /\ IsInjective(bs)
       /\ IsFiniteSet(ToSet(bs)) /\ Cardinality(ToSet(bs)) = n
       /\ \A b \in ToSet(bs) :
            /\ b \in Nat /\ base + HeaderSize <= b /\ b + s <= end
            /\ SlabItem(b, s) = b /\ b % s = 0 /\ PageOf(b) = p
       /\ \A b, d \in ToSet(bs) : b # d => b + s <= d \/ d + s <= b
  BY <1>2, <1>6, <1>8, <1>9, <1>10, <1>11
<1> QED
  BY <1>12 DEF s, n, bs, base, end

\* The address of a page.
LEMMA PageOfWhole ==
  ASSUME NEW p \in PageSet
  PROVE  /\ p * PageSize \in Nat /\ PageOf(p * PageSize) = p
         /\ (p * PageSize) % PageSize = 0
         /\ p * PageSize + PageSize <= NumPages * PageSize
         /\ (p + 1) * PageSize = p * PageSize + PageSize
<1>1. p \in Nat /\ PageSize \in Nat /\ PageSize >= 1 /\ p < NumPages /\ NumPages \in Nat
  BY Constants DEF PageSet
<1>2. p * PageSize \in Nat /\ (p + 1) * PageSize = p * PageSize + PageSize
  BY <1>1
<1>3. (p * PageSize) \div PageSize = p
  BY <1>1, <1>2, Multiple
<1>4. (p * PageSize) % PageSize = 0
  BY <1>1
<1>5. p * PageSize + PageSize <= NumPages * PageSize
  BY <1>1, MulMono
<1> QED
  BY <1>2, <1>3, <1>4, <1>5 DEF PageOf
-----------------------------------------------------------------------------
(* Lists without duplicates: pop, push and unlink. *)

LEMMA NonEmpty ==
  ASSUME NEW S, NEW seq \in Seq(S)
  PROVE  seq # <<>> <=> Len(seq) # 0
OBVIOUS

LEMMA PopFacts ==
  ASSUME NEW S, NEW seq \in Seq(S), seq # <<>>, IsInjective(seq)
  PROVE  /\ Tail(seq) \in Seq(S) /\ Len(Tail(seq)) = Len(seq) - 1
         /\ IsInjective(Tail(seq)) /\ ToSet(Tail(seq)) = ToSet(seq) \ {Head(seq)}
         /\ Head(seq) \in ToSet(seq) /\ Head(seq) \in S
<1>1. /\ Tail(seq) \in Seq(S) /\ Len(Tail(seq)) = Len(seq) - 1 /\ Len(seq) \in Nat \ {0}
      /\ \A i \in 1 .. Len(seq) - 1 : Tail(seq)[i] = seq[i + 1]
      /\ Head(seq) = seq[1] /\ Head(seq) \in S
      /\ DOMAIN seq = 1 .. Len(seq) /\ DOMAIN Tail(seq) = 1 .. Len(seq) - 1
  OBVIOUS
<1>2. \A i, j \in 1 .. Len(seq) : seq[i] = seq[j] => i = j
  BY <1>1 DEF IsInjective
<1>3. IsInjective(Tail(seq))
  <2> SUFFICES ASSUME NEW i \in 1 .. Len(seq) - 1, NEW j \in 1 .. Len(seq) - 1,
                      Tail(seq)[i] = Tail(seq)[j] PROVE i = j
    BY <1>1 DEF IsInjective
  <2> QED BY <1>1, <1>2
<1>4. ASSUME NEW x \in ToSet(Tail(seq)) PROVE x \in ToSet(seq) \ {Head(seq)}
  <2>1. PICK i \in 1 .. Len(seq) - 1 : x = Tail(seq)[i]
    BY <1>1 DEF ToSet
  <2>2. i + 1 \in 1 .. Len(seq) /\ i + 1 # 1 /\ 1 \in 1 .. Len(seq) /\ x = seq[i + 1]
    BY <1>1, <2>1
  <2>3. x # seq[1]
    BY <1>2, <2>2
  <2> QED BY <1>1, <2>2, <2>3 DEF ToSet
<1>5. ASSUME NEW x \in ToSet(seq) \ {Head(seq)} PROVE x \in ToSet(Tail(seq))
  <2>1. PICK i \in 1 .. Len(seq) : x = seq[i]
    BY <1>1 DEF ToSet
  <2>2. i # 1
    BY <1>1, <2>1
  <2>3. i - 1 \in 1 .. Len(seq) - 1 /\ Tail(seq)[i - 1] = seq[(i - 1) + 1] /\ (i - 1) + 1 = i
    BY <1>1, <2>1, <2>2
  <2> QED BY <1>1, <2>1, <2>3 DEF ToSet
<1>6. Head(seq) \in ToSet(seq)
  BY <1>1 DEF ToSet
<1>7. ToSet(Tail(seq)) = ToSet(seq) \ {Head(seq)}
  BY <1>4, <1>5
<1> QED
  BY <1>1, <1>3, <1>6, <1>7

LEMMA PushFacts ==
  ASSUME NEW S, NEW seq \in Seq(S), NEW x \in S, IsInjective(seq), x \notin ToSet(seq)
  PROVE  /\ <<x>> \o seq \in Seq(S) /\ Len(<<x>> \o seq) = Len(seq) + 1
         /\ IsInjective(<<x>> \o seq) /\ ToSet(<<x>> \o seq) = ToSet(seq) \cup {x}
<1> DEFINE t == <<x>> \o seq
<1>1. /\ t \in Seq(S) /\ Len(t) = Len(seq) + 1 /\ Len(seq) \in Nat
      /\ t[1] = x /\ \A i \in 1 .. Len(seq) : t[i + 1] = seq[i]
      /\ DOMAIN seq = 1 .. Len(seq) /\ DOMAIN t = 1 .. Len(seq) + 1
  <2>1. <<x>> \in Seq(S) /\ Len(<<x>>) = 1 /\ <<x>>[1] = x
    OBVIOUS
  <2> HIDE DEF t
  <2>2. t \in Seq(S) /\ Len(t) = 1 + Len(seq)
        /\ \A i \in 1 .. (1 + Len(seq)) : t[i] = IF i <= 1 THEN <<x>>[i] ELSE seq[i - 1]
    BY <2>1, ConcatProperties DEF t
  <2> QED BY <2>1, <2>2
<1> HIDE DEF t
<1>2. \A i \in 1 .. Len(t) : i = 1 \/ (i - 1 \in 1 .. Len(seq) /\ t[i] = seq[i - 1])
  BY <1>1
<1>3. IsInjective(t)
  <2> SUFFICES ASSUME NEW i \in 1 .. Len(t), NEW j \in 1 .. Len(t), t[i] = t[j] PROVE i = j
    BY <1>1 DEF IsInjective
  <2>1. \A k \in 1 .. Len(seq) : seq[k] # x
    BY <1>1 DEF ToSet
  <2>2. i = 1 <=> j = 1
    BY <1>1, <1>2, <2>1
  <2>3. CASE i # 1 /\ j # 1
    <3>1. /\ i - 1 \in DOMAIN seq /\ j - 1 \in DOMAIN seq
          /\ seq[i - 1] = seq[j - 1]
      BY <1>1, <1>2, <2>3
    <3>2. i - 1 = j - 1
      BY <3>1, Zenon DEF IsInjective
    <3> QED BY <3>2
  <2> QED BY <2>2, <2>3
<1>4. ASSUME NEW y \in ToSet(t) PROVE y \in ToSet(seq) \cup {x}
  <2>1. PICK i \in 1 .. Len(t) : y = t[i]
    BY <1>1 DEF ToSet
  <2> QED BY <1>1, <1>2, <2>1 DEF ToSet
<1>5. ASSUME NEW y \in ToSet(seq) \cup {x} PROVE y \in ToSet(t)
  <2>1. CASE y = x
    BY <1>1, <2>1 DEF ToSet
  <2>2. CASE y # x
    <3>1. PICK i \in 1 .. Len(seq) : y = seq[i]
      BY <1>1, <2>2 DEF ToSet
    <3>2. i + 1 \in 1 .. Len(seq) + 1 /\ t[i + 1] = y
      BY <1>1, <3>1
    <3> QED BY <1>1, <3>2 DEF ToSet
  <2> QED BY <2>1, <2>2
<1>6. ToSet(t) = ToSet(seq) \cup {x}
  BY <1>4, <1>5
<1> QED
  BY <1>1, <1>3, <1>6 DEF t

LEMMA UnlinkFacts ==
  ASSUME NEW S, NEW seq \in Seq(S), NEW x \in ToSet(seq), IsInjective(seq)
  PROVE  /\ RemoveFirst(seq, x) \in Seq(S) /\ IsInjective(RemoveFirst(seq, x))
         /\ ToSet(RemoveFirst(seq, x)) = ToSet(seq) \ {x}
<1> DEFINE at == {i \in 1 .. Len(seq) : seq[i] = x}
           k == Min(at)
           t == SubSeq(seq, 1, k - 1) \o SubSeq(seq, k + 1, Len(seq))
<1>1. at # {} /\ at \subseteq Nat
  BY DEF ToSet
<1>2. RemoveFirst(seq, x) = t
  BY <1>1, Zenon DEF RemoveFirst, RemoveAt, SelectInSeq
<1>3. k \in 1 .. Len(seq) /\ seq[k] = x
  <2> HIDE DEF at
  <2>1. k \in at
    BY <1>1, NatMin DEF Min
  <2> QED BY <2>1 DEF at
<1> HIDE DEF at, k
<1> DEFINE n == Len(seq)
<1>4. /\ n \in Nat /\ n >= 1 /\ t \in Seq(S) /\ Len(t) = n - 1
      /\ DOMAIN seq = 1 .. n /\ DOMAIN t = 1 .. (n - 1)
      /\ \A i \in 1 .. (n - 1) : t[i] = IF i < k THEN seq[i] ELSE seq[i + 1]
  <2> DEFINE a == SubSeq(seq, 1, k - 1)
             b == SubSeq(seq, k + 1, Len(seq))
  <2>1. /\ a \in Seq(S) /\ Len(a) = k - 1 /\ \A i \in 1 .. (k - 1) : a[i] = seq[i]
        /\ b \in Seq(S) /\ Len(b) = n - k /\ \A i \in 1 .. (n - k) : b[i] = seq[k + i]
    BY <1>3
  <2> HIDE DEF a, b
  <2>2. a \o b \in Seq(S) /\ Len(a \o b) = n - 1 /\ n \in Nat /\ n >= 1
    <3>1. a \o b \in Seq(S) /\ Len(a \o b) = Len(a) + Len(b)
      BY <2>1, ConcatProperties
    <3>2. n \in Nat
      OBVIOUS
    <3> HIDE DEF n
    <3>3. k \in 1 .. n
      BY <1>3 DEF n
    <3> QED BY <2>1, <3>1, <3>2, <3>3
  <2>3. \A i \in 1 .. (n - 1) : (a \o b)[i] = IF i <= k - 1 THEN a[i] ELSE b[i - (k - 1)]
    BY <1>3, <2>1, <2>2, ConcatProperties
  <2>4. ASSUME NEW i \in 1 .. (n - 1)
        PROVE  (a \o b)[i] = IF i < k THEN seq[i] ELSE seq[i + 1]
    <3>1. CASE i < k
      BY <1>3, <2>1, <2>3, <3>1
    <3>2. CASE ~(i < k)
      <4>1. i - (k - 1) \in 1 .. (n - k) /\ k + (i - (k - 1)) = i + 1 /\ ~(i <= k - 1)
        BY <1>3, <2>2, <3>2
      <4> QED BY <2>1, <2>3, <3>2, <4>1
    <3> QED BY <3>1, <3>2
  <2>5. t = a \o b
    BY DEF a, b
  <2> HIDE DEF t
  <2>6. DOMAIN seq = 1 .. n /\ DOMAIN t = 1 .. (n - 1)
    BY <2>2, <2>5
  <2> QED BY <2>2, <2>4, <2>5, <2>6
<1> HIDE DEF t, n
<1> DEFINE old(i) == IF i < k THEN i ELSE i + 1
<1>5. ASSUME NEW i \in 1 .. (n - 1)
      PROVE  old(i) \in 1 .. n /\ old(i) # k /\ t[i] = seq[old(i)]
  BY <1>3, <1>4 DEF n
<1>6. \A i, j \in 1 .. n : seq[i] = seq[j] => i = j
  BY <1>4, Zenon DEF IsInjective
<1>7. IsInjective(t)
  <2> SUFFICES ASSUME NEW i \in 1 .. (n - 1), NEW j \in 1 .. (n - 1), t[i] = t[j] PROVE i = j
    BY <1>4 DEF IsInjective
  <2>1. old(i) = old(j)
    <3> HIDE DEF old
    <3> QED BY <1>5, <1>6
  <2> QED BY <1>3, <1>4, <2>1 DEF n
<1>8. ASSUME NEW y \in ToSet(t) PROVE y \in ToSet(seq) \ {x}
  <2>1. PICK i \in 1 .. (n - 1) : y = t[i]
    BY <1>4 DEF ToSet
  <2> HIDE DEF old
  <2>2. old(i) \in 1 .. n /\ y = seq[old(i)] /\ old(i) # k /\ k \in 1 .. n
    BY <1>3, <1>5, <2>1 DEF n
  <2> QED BY <1>3, <1>4, <1>6, <2>2 DEF ToSet
<1>9. ASSUME NEW y \in ToSet(seq) \ {x} PROVE y \in ToSet(t)
  <2>1. PICK i \in 1 .. n : y = seq[i]
    BY <1>4 DEF ToSet
  <2>2. i # k
    BY <1>3, <2>1
  <2>3. CASE i < k
    <3>1. i \in 1 .. (n - 1) /\ t[i] = y
      BY <1>3, <1>4, <2>1, <2>3 DEF n
    <3> QED BY <1>4, <3>1 DEF ToSet
  <2>4. CASE i > k
    <3>1. i - 1 \in 1 .. (n - 1) /\ ~(i - 1 < k) /\ (i - 1) + 1 = i
      BY <1>3, <1>4, <2>1, <2>4 DEF n
    <3>2. t[i - 1] = y
      BY <1>4, <2>1, <3>1
    <3> QED BY <1>4, <3>1, <3>2 DEF ToSet
  <2> QED BY <1>3, <1>4, <2>2, <2>3, <2>4 DEF n
<1>10. ToSet(t) = ToSet(seq) \ {x}
  BY <1>8, <1>9
<1> QED
  BY <1>2, <1>4, <1>7, <1>10
-----------------------------------------------------------------------------
(* The inductive invariant, as an operator on the state: u are the used    *)
(* pages, h the headers, l the lists, f the caches' counts of free blocks  *)
(* and v the live extents.  Operators rather than variables, because       *)
(* kmalloc and kfree each take two of the steps below.                     *)

Headers == [magic : BOOLEAN, slab_size : Nat, total : Nat, total_free : Nat, free_list : Seq(Nat)]

\* A function with one value replaced, and a header with another free list.
Put(g, x, y) == [g EXCEPT ![x] = y]
Plus(g, x, n) == [g EXCEPT ![x] = @ + n]
WithFree(slab, list, n) == [slab EXCEPT !.free_list = list, !.total_free = n]

\* The block at the head of the slab on page p, and what its cache c is left
\* with when it is taken; what is there when block b is given back.
Block(h, p, c) == [addr |-> SlabItem(Head(h[p].free_list), SlabSize[c]), len |-> SlabSize[c]]
Taken(h, p) == Put(h, p, WithFree(h[p], Tail(h[p].free_list), h[p].total_free - 1))
TakenList(h, p, list) == IF h[p].total_free - 1 = 0 THEN Tail(list) ELSE list
Given(h, p, b) == Put(h, p, WithFree(h[p], <<SlabItem(b, h[p].slab_size)>> \o h[p].free_list,
                                     h[p].total_free + 1))
GivenList(h, p, list) == IF h[p].total_free + 1 = 1 THEN <<p>> \o list ELSE list

HeldIn(v, p) == {e \in v : PageOf(e.addr) = p}
OfCache(u, h, c) == {p \in u : h[p].magic /\ h[p].slab_size = SlabSize[c]}
FreeOf(u, h, c) == UNION {ToSet(h[p].free_list) : p \in OfCache(u, h, c)}

Types(u, h, l, f, v) ==
  /\ u \subseteq PageSet
  /\ h \in [PageSet -> Headers]
  /\ l \in [Caches -> Seq(PageSet)]
  /\ f \in [Caches -> Int]
  /\ v \subseteq [addr : Nat, len : Nat]
  /\ \A e \in v : PageOf(e.addr) \in PageSet

\* Page p as a slab of cache c: cut into blocks, each free or held.
SlabGood(p, c, slab, held) ==
  /\ slab.slab_size = SlabSize[c] /\ slab.total = BlockCount(p, SlabSize[c])
  /\ IsInjective(slab.free_list) /\ slab.total_free = Len(slab.free_list)
  /\ ToSet(slab.free_list) \cup {e.addr : e \in held} = ToSet(Blocks(p, SlabSize[c]))
  /\ ToSet(slab.free_list) \cap {e.addr : e \in held} = {}
  /\ \A e \in held : e.len = SlabSize[c]

\* A free page is held by nobody; a used one is a slab of some cache, or a
\* page of its own that one client holds as a whole.
PageGood(p, u, h, v) ==
  /\ p \notin u => HeldIn(v, p) = {}
  /\ p \in u /\ h[p].magic => \E c \in Caches : SlabGood(p, c, h[p], HeldIn(v, p))
  /\ p \in u /\ ~h[p].magic => HeldIn(v, p) \subseteq {[addr |-> p * PageSize, len |-> PageSize]}

ListGood(c, u, h, l) ==
  /\ IsInjective(l[c])
  /\ ToSet(l[c]) = {p \in OfCache(u, h, c) : h[p].free_list # <<>>}

CountGood(c, u, h, f) == f[c] = Cardinality(FreeOf(u, h, c))

Good(u, h, l, f, v) ==
  /\ Types(u, h, l, f, v)
  /\ \A p \in PageSet : PageGood(p, u, h, v)
  /\ \A c \in Caches : ListGood(c, u, h, l) /\ CountGood(c, u, h, f)

\* Only the slabs of S, and those of one block, have no client.
Quiet(S, u, h, v) ==
  \A p \in u : h[p].magic /\ HeldIn(v, p) = {} => p \in S \/ h[p].total = 1

IInv ==
  /\ Good(used, header, slab_list, total_free, live)
  /\ broken \in BOOLEAN

\* The slab on a page of a cache, with its blocks.
LEMMA SlabFacts ==
  ASSUME NEW u, NEW h, NEW l, NEW f, NEW v, Good(u, h, l, f, v),
         NEW c \in Caches, NEW p \in OfCache(u, h, c)
  PROVE  /\ p \in PageSet /\ p \in u /\ h[p] \in Headers /\ h[p].magic
         /\ SlabGood(p, c, h[p], HeldIn(v, p))
         /\ ToSet(h[p].free_list) \subseteq ToSet(Blocks(p, SlabSize[c]))
         /\ \A b \in ToSet(h[p].free_list) : b \in Nat /\ PageOf(b) = p
<1>1. p \in u /\ h[p].magic /\ h[p].slab_size = SlabSize[c]
  BY DEF OfCache
<1>2. p \in PageSet /\ h[p] \in Headers
  BY <1>1 DEF Good, Types
<1>3. PICK d \in Caches : SlabGood(p, d, h[p], HeldIn(v, p))
  BY <1>1, <1>2 DEF Good, PageGood
<1>4. d = c
  BY <1>1, <1>3, SizesDiffer DEF SlabGood
<1>5. ToSet(h[p].free_list) \subseteq ToSet(Blocks(p, SlabSize[c]))
  BY <1>3, <1>4 DEF SlabGood
<1>6. \A b \in ToSet(Blocks(p, SlabSize[c])) : b \in Nat /\ PageOf(b) = p
  BY <1>2, BlocksFacts
<1> QED
  BY <1>1, <1>2, <1>3, <1>4, <1>5, <1>6

\* Finitely many blocks are free, each in one page.
LEMMA FreeFacts ==
  ASSUME NEW u, NEW h, NEW l, NEW f, NEW v, Good(u, h, l, f, v), NEW c \in Caches
  PROVE  /\ IsFiniteSet(FreeOf(u, h, c)) /\ Cardinality(FreeOf(u, h, c)) \in Nat
         /\ \A p \in OfCache(u, h, c) : \A b \in FreeOf(u, h, c) :
              PageOf(b) = p <=> b \in ToSet(h[p].free_list)
<1>1. ASSUME NEW b \in FreeOf(u, h, c)
      PROVE  b \in Nat /\ b <= NumPages * PageSize
             /\ \E p \in OfCache(u, h, c) : b \in ToSet(h[p].free_list) /\ PageOf(b) = p
  <2>1. PICK p \in OfCache(u, h, c) : b \in ToSet(h[p].free_list)
    BY DEF FreeOf
  <2>2. p \in PageSet /\ b \in ToSet(Blocks(p, SlabSize[c])) /\ b \in Nat /\ PageOf(b) = p
    BY <2>1, SlabFacts
  <2>3. b + SlabSize[c] <= (p + 1) * PageSize
    BY <2>2, BlocksFacts
  <2>4. (p + 1) * PageSize <= NumPages * PageSize /\ (p + 1) * PageSize \in Nat
    BY <2>2, PageOfWhole, Constants
  <2>5. SlabSize[c] \in Nat /\ NumPages * PageSize \in Nat
    BY Constants
  <2> QED BY <2>1, <2>2, <2>3, <2>4, <2>5
<1>2. NumPages * PageSize \in Nat
  BY Constants
<1>3. FreeOf(u, h, c) \in SUBSET Nat
  BY <1>1
<1>4. IsFiniteSet(FreeOf(u, h, c))
  <2> DEFINE N == NumPages * PageSize
  <2>1. N \in Nat /\ \A b \in FreeOf(u, h, c) : b <= N
    BY <1>1, <1>2
  <2> HIDE DEF N
  <2> QED BY <1>3, <2>1, FS_BoundedSetOfNaturals
<1>5. ASSUME NEW p \in OfCache(u, h, c), NEW b \in FreeOf(u, h, c)
      PROVE  PageOf(b) = p <=> b \in ToSet(h[p].free_list)
  BY <1>1, SlabFacts
<1> QED
  BY <1>4, <1>5, FS_CardinalityType

\* A step changes no page but p, and no cache but c, which may have had p.
PagesKept(p, u, h, v, u2, h2, v2) ==
  \A q \in PageSet \ {p} : /\ q \in u2 <=> q \in u
                           /\ h2[q] = h[q] /\ HeldIn(v2, q) = HeldIn(v, q)
CachesKept(p, c, u, h, l, f, u2, h2, l2, f2) ==
  \A d \in Caches \ {c} : /\ l2[d] = l[d] /\ f2[d] = f[d]
                          /\ p \notin OfCache(u, h, d) /\ p \notin OfCache(u2, h2, d)

\* A cache keeps what it has when the pages that change are none of its own.
LEMMA OtherCache ==
  ASSUME NEW u, NEW h, NEW l, NEW f, NEW v, Good(u, h, l, f, v),
         NEW u2, u2 \subseteq PageSet, NEW h2, NEW l2, NEW f2, NEW v2,
         NEW p \in PageSet, NEW c \in Caches, PagesKept(p, u, h, v, u2, h2, v2),
         l2[c] = l[c], f2[c] = f[c],
         p \notin OfCache(u, h, c), p \notin OfCache(u2, h2, c)
  PROVE  ListGood(c, u2, h2, l2) /\ CountGood(c, u2, h2, f2)
<1>1. u \subseteq PageSet
  BY DEF Good, Types
<1>7. \A q \in PageSet \ {p} : (q \in u2 <=> q \in u) /\ h2[q] = h[q]
  BY DEF PagesKept
<1>2. OfCache(u2, h2, c) = OfCache(u, h, c)
  <2>1. ASSUME NEW q \in PageSet PROVE q \in OfCache(u2, h2, c) <=> q \in OfCache(u, h, c)
    <3>1. CASE q = p
      BY <3>1
    <3>2. CASE q # p
      BY <1>7, <3>2 DEF OfCache
    <3> QED BY <3>1, <3>2
  <2>2. OfCache(u2, h2, c) \subseteq PageSet /\ OfCache(u, h, c) \subseteq PageSet
    BY <1>1 DEF OfCache
  <2> QED BY <2>1, <2>2
<1>3. \A q \in OfCache(u, h, c) : h2[q] = h[q]
  BY <1>1, <1>7 DEF OfCache
<1>4. FreeOf(u2, h2, c) = FreeOf(u, h, c)
  <2>1. \A q \in OfCache(u, h, c) : ToSet(h2[q].free_list) = ToSet(h[q].free_list)
    BY <1>3
  <2> QED BY <1>2, <2>1, Zenon DEF FreeOf
<1>5. ListGood(c, u, h, l) /\ CountGood(c, u, h, f)
  BY DEF Good
<1>6. {q \in OfCache(u2, h2, c) : h2[q].free_list # <<>>} = {q \in OfCache(u, h, c) : h[q].free_list # <<>>}
  BY <1>2, <1>3
<1> QED
  BY <1>4, <1>5, <1>6 DEF ListGood, CountGood

\* A step on one page leaves the other pages as they are.
LEMMA OtherPages ==
  ASSUME NEW u, NEW h, NEW l, NEW f, NEW v, Good(u, h, l, f, v),
         NEW u2, NEW h2, NEW v2, NEW p \in PageSet,
         PagesKept(p, u, h, v, u2, h2, v2)
  PROVE  \A q \in PageSet \ {p} : PageGood(q, u2, h2, v2)
<1> SUFFICES ASSUME NEW q \in PageSet \ {p} PROVE PageGood(q, u2, h2, v2)
  OBVIOUS
<1>1. PageGood(q, u, h, v) /\ (q \in u2 <=> q \in u) /\ h2[q] = h[q] /\ HeldIn(v2, q) = HeldIn(v, q)
  BY DEF Good, PagesKept
<1> QED
  BY <1>1 DEF PageGood

\* A step on one page of one cache: what is left to show is about these two.
LEMMA OnePage ==
  ASSUME NEW u, NEW h, NEW l, NEW f, NEW v, Good(u, h, l, f, v),
         NEW u2, NEW h2, NEW l2, NEW f2, NEW v2, Types(u2, h2, l2, f2, v2),
         NEW p \in PageSet, NEW c \in Caches,
         PagesKept(p, u, h, v, u2, h2, v2),
         CachesKept(p, c, u, h, l, f, u2, h2, l2, f2),
         PageGood(p, u2, h2, v2), ListGood(c, u2, h2, l2), CountGood(c, u2, h2, f2)
  PROVE  Good(u2, h2, l2, f2, v2)
<1>1. \A q \in PageSet : PageGood(q, u2, h2, v2)
  <2>1. \A q \in PageSet \ {p} : PageGood(q, u2, h2, v2)
    BY OtherPages
  <2> QED BY <2>1
<1>2. u2 \subseteq PageSet
  BY DEF Types
<1>3. ASSUME NEW d \in Caches PROVE ListGood(d, u2, h2, l2) /\ CountGood(d, u2, h2, f2)
  <2>1. CASE d = c
    BY <2>1
  <2>2. CASE d # c
    <3>1. l2[d] = l[d] /\ f2[d] = f[d] /\ p \notin OfCache(u, h, d) /\ p \notin OfCache(u2, h2, d)
      BY <2>2 DEF CachesKept
    <3> QED BY <1>2, <3>1, OtherCache
  <2> QED BY <2>1, <2>2
<1> QED
  BY <1>1, <1>3 DEF Good

\* slab_create and list_push: a new slab for a cache without free blocks.
LEMMA CreateGood ==
  ASSUME NEW u, NEW h, NEW l, NEW f, NEW v, Good(u, h, l, f, v),
         NEW c \in Caches, l[c] = <<>>, NEW p \in PageSet, p \notin u
  PROVE  Good(u \cup {p}, Put(h, p, SlabCreate(p, SlabSize[c])), Put(l, c, <<p>>),
              Plus(f, c, BlockCount(p, SlabSize[c])), v)
<1> DEFINE s == SlabSize[c]
           slab == SlabCreate(p, s)
           u2 == u \cup {p}
           h2 == Put(h, p, slab)
           l2 == Put(l, c, <<p>>)
           f2 == Plus(f, c, BlockCount(p, s))
<1>1. Types(u, h, l, f, v)
  BY DEF Good
<1>2. /\ slab.magic /\ slab.slab_size = s /\ slab.total = BlockCount(p, s)
      /\ slab.total_free = Len(slab.free_list) /\ slab.free_list = Blocks(p, s)
      /\ slab \in Headers /\ slab.free_list # <<>> /\ BlockCount(p, s) \in Nat
  <2>1. Blocks(p, s) \in Seq(Nat) /\ Len(Blocks(p, s)) = BlockCount(p, s) /\ Len(Blocks(p, s)) >= 1
    BY BlocksFacts
  <2>2. s \in Nat /\ BlockCount(p, s) \in Nat /\ Blocks(p, s) # <<>>
    BY <2>1, Constants
  <2> QED BY <2>1, <2>2 DEF SlabCreate, Headers
<1>3. h2[p] = slab /\ h2 \in [PageSet -> Headers] /\ \A q \in PageSet \ {p} : h2[q] = h[q]
  BY <1>1, <1>2 DEF Types, Put
<1>4. l2[c] = <<p>> /\ l2 \in [Caches -> Seq(PageSet)] /\ \A d \in Caches \ {c} : l2[d] = l[d]
  BY <1>1 DEF Types, Put
<1>5. f2[c] = f[c] + BlockCount(p, s) /\ f2 \in [Caches -> Int] /\ \A d \in Caches \ {c} : f2[d] = f[d]
  BY <1>1, <1>2 DEF Types, Plus
<1> HIDE DEF slab, h2, l2, f2
<1>6. Types(u2, h2, l2, f2, v)
  BY <1>1, <1>3, <1>4, <1>5 DEF Types
<1>7. HeldIn(v, p) = {}
  BY DEF Good, PageGood
<1>8. PageGood(p, u2, h2, v)
  <2>1. SlabGood(p, c, slab, HeldIn(v, p))
    BY <1>2, <1>7, BlocksFacts DEF SlabGood
  <2> QED BY <1>2, <1>3, <2>1 DEF PageGood
<1>9. \A d \in Caches \ {c} : p \notin OfCache(u, h, d) /\ p \notin OfCache(u2, h2, d)
  BY <1>2, <1>3, SizesDiffer DEF OfCache
<1>10. OfCache(u2, h2, c) = OfCache(u, h, c) \cup {p} /\ p \notin OfCache(u, h, c)
  <2>1. u \subseteq PageSet
    BY <1>1 DEF Types
  <2> QED BY <1>2, <1>3, <2>1 DEF OfCache
<1>11. \A q \in OfCache(u, h, c) : h2[q] = h[q] /\ h[q].free_list = <<>>
  <2>1. {q \in OfCache(u, h, c) : h[q].free_list # <<>>} = {}
    BY DEF Good, ListGood, ToSet
  <2> QED BY <1>1, <1>3, <1>10, <2>1 DEF Types, OfCache
<1>12. ListGood(c, u2, h2, l2)
  <2>1. {q \in OfCache(u2, h2, c) : h2[q].free_list # <<>>} = {p}
    BY <1>2, <1>3, <1>10, <1>11
  <2>2. IsInjective(<<p>>) /\ ToSet(<<p>>) = {p}
    BY DEF IsInjective, ToSet
  <2> QED BY <1>4, <2>1, <2>2 DEF ListGood
<1>13. CountGood(c, u2, h2, f2)
  <2>1. FreeOf(u, h, c) = {}
    BY <1>11 DEF FreeOf, ToSet
  <2>2. f[c] = 0
    BY <2>1, FS_EmptySet DEF Good, CountGood
  <2>3. FreeOf(u2, h2, c) = ToSet(Blocks(p, s))
    <3>1. \A q \in OfCache(u, h, c) : ToSet(h2[q].free_list) = {}
      BY <1>11 DEF ToSet
    <3>2. ToSet(h2[p].free_list) = ToSet(Blocks(p, s))
      BY <1>2, <1>3
    <3> HIDE DEF u2
    <3>3. \A b : b \in FreeOf(u2, h2, c) <=> \E q \in OfCache(u2, h2, c) : b \in ToSet(h2[q].free_list)
      BY Zenon DEF FreeOf
    <3> QED BY <1>10, <3>1, <3>2, <3>3, Zenon
  <2>4. Cardinality(ToSet(Blocks(p, s))) = BlockCount(p, s)
    BY BlocksFacts
  <2> QED BY <1>2, <1>5, <2>2, <2>3, <2>4 DEF CountGood
<1>14. \A q \in PageSet \ {p} : q \in u2 <=> q \in u
  OBVIOUS
<1> HIDE DEF u2
<1>15. Good(u2, h2, l2, f2, v)
  <2>1. PagesKept(p, u, h, v, u2, h2, v)
    BY <1>3, <1>14 DEF PagesKept
  <2>2. CachesKept(p, c, u, h, l, f, u2, h2, l2, f2)
    BY <1>4, <1>5, <1>9 DEF CachesKept
  <2> QED BY <1>6, <1>8, <1>12, <1>13, <2>1, <2>2, OnePage
<1> QED
  BY <1>15 DEF u2, h2, l2, f2, slab

\* The slab at the head of a cache's list has a free block.
LEMMA HeadFacts ==
  ASSUME NEW u, NEW h, NEW l, NEW f, NEW v, Good(u, h, l, f, v),
         NEW c \in Caches, l[c] # <<>>
  PROVE  LET p == Head(l[c])
             b == Head(h[p].free_list)
         IN  /\ p \in OfCache(u, h, c) /\ p \in PageSet /\ h[p].free_list # <<>>
             /\ b \in ToSet(h[p].free_list) /\ b \in Nat /\ PageOf(b) = p
             /\ SlabItem(b, SlabSize[c]) = b
             /\ h[p].total_free = Len(h[p].free_list) /\ h[p].total_free \in Nat \ {0}
<1> DEFINE p == Head(l[c])
           b == Head(h[p].free_list)
<1>1. l[c] \in Seq(PageSet) /\ IsInjective(l[c])
      /\ ToSet(l[c]) = {q \in OfCache(u, h, c) : h[q].free_list # <<>>}
  BY DEF Good, Types, ListGood
<1>2. p \in ToSet(l[c])
  BY <1>1, PopFacts
<1>3. p \in OfCache(u, h, c) /\ h[p].free_list # <<>>
  BY <1>1, <1>2
<1> HIDE DEF p
<1>4. /\ p \in PageSet /\ h[p] \in Headers /\ SlabGood(p, c, h[p], HeldIn(v, p))
      /\ ToSet(h[p].free_list) \subseteq ToSet(Blocks(p, SlabSize[c]))
  BY <1>3, SlabFacts
<1>5. h[p].free_list \in Seq(Nat) /\ IsInjective(h[p].free_list) /\ h[p].total_free = Len(h[p].free_list)
  BY <1>4 DEF Headers, SlabGood
<1>6. b \in ToSet(h[p].free_list)
  BY <1>3, <1>5, PopFacts
<1>7. h[p].total_free \in Nat \ {0}
  BY <1>3, <1>5
<1>8. b \in Nat /\ PageOf(b) = p /\ SlabItem(b, SlabSize[c]) = b
  BY <1>4, <1>6, BlocksFacts
<1> QED
  BY <1>3, <1>4, <1>5, <1>6, <1>7, <1>8 DEF p

\* The end of slab_alloc: a block goes from the slab at the head to a client.
LEMMA TakeGood ==
  ASSUME NEW u, NEW h, NEW l, NEW f, NEW v, Good(u, h, l, f, v),
         NEW c \in Caches, l[c] # <<>>,
         NEW p, p = Head(l[c])
  PROVE  /\ Good(u, Taken(h, p), Put(l, c, TakenList(h, p, l[c])), Plus(f, c, -1),
                 v \cup {Block(h, p, c)})
         /\ Block(h, p, c) \notin v /\ Block(h, p, c) \in HeldIn({Block(h, p, c)}, p)
<1> DEFINE s == SlabSize[c]
           b == Head(h[p].free_list)
           e == [addr |-> SlabItem(b, SlabSize[c]), len |-> SlabSize[c]]
           left == h[p].total_free - 1
           rest == Tail(h[p].free_list)
           slab == WithFree(h[p], rest, left)
           h2 == Put(h, p, slab)
           x == TakenList(h, p, l[c])
           l2 == Put(l, c, x)
           f2 == Plus(f, c, -1)
           v2 == v \cup {e}
<1>1. Types(u, h, l, f, v)
  BY DEF Good
<1>2. /\ p \in OfCache(u, h, c) /\ p \in PageSet /\ h[p].free_list # <<>>
      /\ b \in ToSet(h[p].free_list) /\ b \in Nat /\ PageOf(b) = p
      /\ SlabItem(b, s) = b
      /\ h[p].total_free = Len(h[p].free_list) /\ h[p].total_free \in Nat \ {0}
  BY HeadFacts
<1>3. /\ h[p] \in Headers /\ h[p].magic /\ p \in u /\ SlabGood(p, c, h[p], HeldIn(v, p))
      /\ h[p].free_list \in Seq(Nat) /\ IsInjective(h[p].free_list) /\ h[p].slab_size = s
  <2>1. /\ h[p] \in Headers /\ h[p].magic /\ p \in u /\ SlabGood(p, c, h[p], HeldIn(v, p))
    BY <1>2, SlabFacts
  <2>2. h[p].free_list \in Seq(Nat)
    BY <2>1 DEF Headers
  <2>3. IsInjective(h[p].free_list) /\ h[p].slab_size = s
    BY <2>1, Zenon DEF SlabGood
  <2> QED BY <2>1, <2>2, <2>3
<1>4. e.addr = b /\ e.len = s /\ e \in [addr : Nat, len : Nat] /\ PageOf(e.addr) = p
  BY <1>2, Constants
<1>5. /\ rest \in Seq(Nat) /\ Len(rest) = left /\ IsInjective(rest)
      /\ ToSet(rest) = ToSet(h[p].free_list) \ {b} /\ left \in Nat
  <2> DEFINE free == h[p].free_list
  <2>1. free \in Seq(Nat) /\ free # <<>> /\ IsInjective(free) /\ h[p].total_free = Len(free)
    BY <1>2, <1>3, Zenon
  <2>2. left \in Nat
    BY <1>2
  <2> HIDE DEF free
  <2>3. /\ Tail(free) \in Seq(Nat) /\ Len(Tail(free)) = Len(free) - 1
        /\ IsInjective(Tail(free)) /\ ToSet(Tail(free)) = ToSet(free) \ {Head(free)}
    BY <2>1, PopFacts
  <2>4. rest = Tail(free) /\ b = Head(free)
    BY Zenon DEF free
  <2> HIDE DEF rest, b
  <2> QED BY <2>1, <2>2, <2>3, <2>4, Zenon DEF free
<1>6. /\ slab \in Headers /\ slab.free_list = rest /\ slab.total_free = left
      /\ slab.magic = h[p].magic /\ slab.slab_size = h[p].slab_size /\ slab.total = h[p].total
  <2> HIDE DEF rest
  <2> QED BY <1>3, <1>5 DEF Headers, WithFree
<1>7. h2[p] = slab /\ h2 \in [PageSet -> Headers] /\ \A q \in PageSet \ {p} : h2[q] = h[q]
  <2> HIDE DEF slab
  <2> QED BY <1>1, <1>2, <1>6 DEF Types, Put
<1> HIDE DEF slab, h2, rest
<1>8. l[c] \in Seq(PageSet) /\ IsInjective(l[c])
      /\ ToSet(l[c]) = {q \in OfCache(u, h, c) : h[q].free_list # <<>>}
  BY <1>1 DEF Good, Types, ListGood
<1>9. /\ x \in Seq(PageSet) /\ IsInjective(x)
      /\ ToSet(x) = IF left = 0 THEN ToSet(l[c]) \ {p} ELSE ToSet(l[c])
  BY <1>8, PopFacts DEF TakenList
<1> HIDE DEF x
<1>10. l2[c] = x /\ l2 \in [Caches -> Seq(PageSet)] /\ \A d \in Caches \ {c} : l2[d] = l[d]
  BY <1>1, <1>9 DEF Types, Put
<1>11. f2[c] = f[c] - 1 /\ f2 \in [Caches -> Int] /\ \A d \in Caches \ {c} : f2[d] = f[d]
  BY <1>1 DEF Types, Plus
<1> HIDE DEF l2, f2
<1>12. Types(u, h2, l2, f2, v2)
  BY <1>1, <1>2, <1>4, <1>7, <1>10, <1>11 DEF Types
<1>13. HeldIn(v2, p) = HeldIn(v, p) \cup {e} /\ \A q \in PageSet \ {p} : HeldIn(v2, q) = HeldIn(v, q)
  BY <1>4 DEF HeldIn
<1>14. e \notin v
  <2>1. SUFFICES ASSUME e \in v PROVE FALSE
    OBVIOUS
  <2>2. e \in HeldIn(v, p)
    BY <1>4, <2>1 DEF HeldIn
  <2>3. b \in {g.addr : g \in HeldIn(v, p)}
    BY <1>4, <2>2
  <2> QED BY <1>2, <1>3, <2>3 DEF SlabGood
<1>15. SlabGood(p, c, slab, HeldIn(v2, p))
  <2> DEFINE A == {g.addr : g \in HeldIn(v, p)}
             A2 == {g.addr : g \in HeldIn(v2, p)}
  <2>1. A2 = A \cup {b}
    BY <1>4, <1>13, Zenon
  <2>2. /\ ToSet(h[p].free_list) \cup A = ToSet(Blocks(p, s)) /\ ToSet(h[p].free_list) \cap A = {}
        /\ h[p].total = BlockCount(p, s) /\ \A g \in HeldIn(v, p) : g.len = s
    BY <1>3 DEF SlabGood
  <2> HIDE DEF A, A2
  <2>3. ToSet(rest) \cup A2 = ToSet(Blocks(p, s)) /\ ToSet(rest) \cap A2 = {}
    BY <1>2, <1>5, <2>1, <2>2
  <2>4. \A g \in HeldIn(v2, p) : g.len = s
    BY <1>4, <1>13, <2>2
  <2> QED BY <1>3, <1>5, <1>6, <2>2, <2>3, <2>4 DEF SlabGood, A2
<1>16. PageGood(p, u, h2, v2)
  BY <1>3, <1>6, <1>7, <1>15 DEF PageGood
<1>17. \A d \in Caches \ {c} : p \notin OfCache(u, h, d) /\ p \notin OfCache(u, h2, d)
  BY <1>3, <1>6, <1>7, SizesDiffer DEF OfCache
<1>18. OfCache(u, h2, c) = OfCache(u, h, c)
  <2>1. u \subseteq PageSet
    BY <1>1 DEF Types
  <2>2. ASSUME NEW q \in u PROVE q \in OfCache(u, h2, c) <=> q \in OfCache(u, h, c)
    <3>1. h2[q].magic = h[q].magic /\ h2[q].slab_size = h[q].slab_size
      BY <1>6, <1>7, <2>1, <2>2
    <3> QED BY <3>1 DEF OfCache
  <2> QED BY <2>2 DEF OfCache
<1>19. OfCache(u, h, c) \subseteq PageSet
  BY <1>1 DEF Types, OfCache
<1>20. ListGood(c, u, h2, l2)
  <2>1. h2[p].free_list # <<>> <=> left # 0
    <3>1. h2[p].free_list = rest
      BY <1>6, <1>7
    <3>2. rest # <<>> <=> Len(rest) # 0
      BY <1>5, NonEmpty
    <3> QED BY <1>5, <3>1, <3>2
  <2>2. p \in ToSet(l[c])
    BY <1>2, <1>8
  <2>3. ToSet(x) = {q \in OfCache(u, h2, c) : h2[q].free_list # <<>>}
    <3>1. ASSUME NEW q \in OfCache(u, h, c)
          PROVE  q \in ToSet(x) <=> h2[q].free_list # <<>>
      <4>1. CASE q = p
        BY <1>9, <2>1, <2>2, <4>1
      <4>2. CASE q # p
        <5>1. h2[q].free_list = h[q].free_list
          BY <1>7, <1>19, <4>2
        <5>2. q \in ToSet(x) <=> q \in ToSet(l[c])
          BY <1>9, <4>2
        <5> QED BY <1>8, <5>1, <5>2
      <4> QED BY <4>1, <4>2
    <3>2. ToSet(x) \subseteq OfCache(u, h, c)
      BY <1>8, <1>9
    <3> QED BY <1>18, <3>1, <3>2
  <2> QED BY <1>9, <1>10, <2>3 DEF ListGood
<1>21. CountGood(c, u, h2, f2)
  <2>1. /\ IsFiniteSet(FreeOf(u, h, c)) /\ Cardinality(FreeOf(u, h, c)) \in Nat
        /\ \A q \in OfCache(u, h, c) : \A y \in FreeOf(u, h, c) :
             PageOf(y) = q <=> y \in ToSet(h[q].free_list)
    BY FreeFacts
  <2>2. b \in FreeOf(u, h, c)
    BY <1>2 DEF FreeOf
  <2>3. FreeOf(u, h2, c) = FreeOf(u, h, c) \ {b}
    <3>1. \A q \in OfCache(u, h, c) : ToSet(h2[q].free_list) = ToSet(h[q].free_list) \ {b}
      <4> SUFFICES ASSUME NEW q \in OfCache(u, h, c) PROVE ToSet(h2[q].free_list) = ToSet(h[q].free_list) \ {b}
        OBVIOUS
      <4>1. CASE q = p
        BY <1>5, <1>6, <1>7, <4>1
      <4>2. CASE q # p
        <5>1. b \notin ToSet(h[q].free_list)
          BY <1>2, <2>1, <2>2, <4>2
        <5> QED BY <1>7, <1>19, <4>2, <5>1
      <4> QED BY <4>1, <4>2
    <3>2. \A y : y \in FreeOf(u, h2, c) <=> \E q \in OfCache(u, h2, c) : y \in ToSet(h2[q].free_list)
      BY Zenon DEF FreeOf
    <3>3. \A y : y \in FreeOf(u, h, c) <=> \E q \in OfCache(u, h, c) : y \in ToSet(h[q].free_list)
      BY Zenon DEF FreeOf
    <3>4. \A y : y \in FreeOf(u, h2, c) <=> y \in FreeOf(u, h, c) /\ y # b
      <4> SUFFICES ASSUME NEW y
                   PROVE  y \in FreeOf(u, h2, c) <=> y \in FreeOf(u, h, c) /\ y # b
        OBVIOUS
      <4>1. ASSUME y \in FreeOf(u, h2, c) PROVE y \in FreeOf(u, h, c) /\ y # b
        <5>1. PICK q \in OfCache(u, h, c) : y \in ToSet(h2[q].free_list)
          BY <1>18, <3>2, <4>1
        <5> QED BY <3>1, <3>3, <5>1
      <4>2. ASSUME y \in FreeOf(u, h, c), y # b PROVE y \in FreeOf(u, h2, c)
        <5>1. PICK q \in OfCache(u, h, c) : y \in ToSet(h[q].free_list)
          BY <3>3, <4>2
        <5>2. y \in ToSet(h2[q].free_list)
          BY <3>1, <4>2, <5>1
        <5> QED BY <1>18, <3>2, <5>2
      <4> QED BY <4>1, <4>2
    <3> QED BY <3>4
  <2>4. Cardinality(FreeOf(u, h2, c)) = Cardinality(FreeOf(u, h, c)) - 1
    <3> DEFINE S == FreeOf(u, h, c)
    <3>1. IsFiniteSet(S) /\ b \in S
      BY <2>1, <2>2
    <3> HIDE DEF S
    <3>2. Cardinality(S \ {b}) = Cardinality(S) - 1
      BY <3>1, FS_RemoveElement
    <3> QED BY <2>3, <3>2 DEF S
  <2>5. f[c] = Cardinality(FreeOf(u, h, c))
    BY DEF Good, CountGood
  <2> QED BY <1>11, <2>4, <2>5 DEF CountGood
<1> HIDE DEF v2
<1>22. Good(u, h2, l2, f2, v2)
  <2>1. PagesKept(p, u, h, v, u, h2, v2)
    BY <1>7, <1>13 DEF PagesKept
  <2>2. CachesKept(p, c, u, h, l, f, u, h2, l2, f2)
    BY <1>10, <1>11, <1>17 DEF CachesKept
  <2>3. p \in PageSet
    BY <1>2
  <2> QED BY <1>12, <1>16, <1>20, <1>21, <2>1, <2>2, <2>3, OnePage
<1> QED
  BY <1>4, <1>14, <1>22 DEF h2, l2, f2, v2, x, slab, rest, Taken, Block, HeldIn

\* A slab has all its blocks exactly when no client holds one.
LEMMA AllFree ==
  ASSUME NEW p \in PageSet, NEW c \in Caches, NEW slab \in Headers, NEW held,
         SlabGood(p, c, slab, held)
  PROVE  held = {} <=> slab.total_free = slab.total
<1> DEFINE all == ToSet(Blocks(p, SlabSize[c]))
           free == ToSet(slab.free_list)
           A == {e.addr : e \in held}
<1>1. /\ free \cup A = all /\ free \cap A = {}
      /\ slab.total_free = Len(slab.free_list) /\ slab.total = BlockCount(p, SlabSize[c])
      /\ IsInjective(slab.free_list)
  BY DEF SlabGood
<1>2. slab.free_list \in Seq(Nat)
  BY DEF Headers
<1>3. Cardinality(free) = Len(slab.free_list)
  BY <1>1, <1>2, InjectiveLen
<1>4. IsFiniteSet(all) /\ Cardinality(all) = BlockCount(p, SlabSize[c])
  BY BlocksFacts
<1>5. held = {} <=> A = {}
  OBVIOUS
<1> HIDE DEF all, free, A
<1>6. A = {} <=> free = all
  BY <1>1
<1>7. free \in SUBSET all
  BY <1>1
<1>8. free = all <=> Cardinality(free) = Cardinality(all)
  BY <1>4, <1>7, FS_Subset
<1> QED
  BY <1>1, <1>3, <1>4, <1>5, <1>6, <1>8

\* The first half of slab_free: a block comes back, and a slab that was full
\* goes on the list.
LEMMA GiveGood ==
  ASSUME NEW u, NEW h, NEW l, NEW f, NEW v, Good(u, h, l, f, v),
         NEW e \in v, NEW p, p = PageOf(e.addr), p \in u, h[p].magic,
         NEW c \in Caches, SlabSize[c] = h[p].slab_size
  PROVE  /\ Good(u, Given(h, p, e.addr), Put(l, c, GivenList(h, p, l[c])), Plus(f, c, 1), v \ {e})
         /\ p \in OfCache(u, h, c) /\ p \in OfCache(u, Given(h, p, e.addr), c)
<1> DEFINE s == SlabSize[c]
           left == h[p].total_free + 1
           b == e.addr
           longer == <<SlabItem(b, h[p].slab_size)>> \o h[p].free_list
           slab == WithFree(h[p], longer, left)
           h2 == Put(h, p, slab)
           x == GivenList(h, p, l[c])
           l2 == Put(l, c, x)
           f2 == Plus(f, c, 1)
           v2 == v \ {e}
<1>1. Types(u, h, l, f, v)
  BY DEF Good
<1>2. p \in OfCache(u, h, c) /\ p \in PageSet
  BY <1>1 DEF OfCache, Types
<1>3. /\ h[p] \in Headers /\ SlabGood(p, c, h[p], HeldIn(v, p))
      /\ ToSet(h[p].free_list) \subseteq ToSet(Blocks(p, s))
  BY <1>2, SlabFacts
<1>4. e \in HeldIn(v, p) /\ e \in [addr : Nat, len : Nat] /\ b \in Nat
  BY <1>1 DEF HeldIn, Types
<1>5. /\ h[p].free_list \in Seq(Nat) /\ IsInjective(h[p].free_list)
      /\ h[p].total_free = Len(h[p].free_list) /\ h[p].slab_size = s
  <2>1. h[p].free_list \in Seq(Nat)
    BY <1>3 DEF Headers
  <2> QED BY <1>3, <2>1, Zenon DEF SlabGood
<1>6. /\ b \in ToSet(Blocks(p, s)) /\ b \notin ToSet(h[p].free_list) /\ e.len = s
      /\ \A g \in HeldIn(v, p) : g.len = s
  <2>1. b \in {g.addr : g \in HeldIn(v, p)}
    BY <1>4
  <2> QED BY <1>3, <1>4, <2>1 DEF SlabGood
<1>7. SlabItem(b, h[p].slab_size) = b /\ PageOf(b) = p
  BY <1>2, <1>5, <1>6, BlocksFacts
<1>8. /\ longer \in Seq(Nat) /\ Len(longer) = left /\ IsInjective(longer)
      /\ ToSet(longer) = ToSet(h[p].free_list) \cup {b} /\ left \in Nat
      /\ longer # <<>>
  <2>1. /\ longer \in Seq(Nat) /\ Len(longer) = Len(h[p].free_list) + 1 /\ IsInjective(longer)
        /\ ToSet(longer) = ToSet(h[p].free_list) \cup {b}
    BY <1>4, <1>5, <1>6, <1>7, PushFacts
  <2>2. Len(h[p].free_list) \in Nat
    BY <1>5
  <2> HIDE DEF longer
  <2> QED BY <1>5, <2>1, <2>2, NonEmpty
<1>9. /\ slab \in Headers /\ slab.free_list = longer /\ slab.total_free = left
      /\ slab.magic = h[p].magic /\ slab.slab_size = h[p].slab_size /\ slab.total = h[p].total
  <2> HIDE DEF longer
  <2> QED BY <1>3, <1>8 DEF Headers, WithFree
<1>10. h2[p] = slab /\ h2 \in [PageSet -> Headers] /\ \A q \in PageSet \ {p} : h2[q] = h[q]
  <2> HIDE DEF slab
  <2> QED BY <1>1, <1>2, <1>9 DEF Types, Put
<1> HIDE DEF slab, h2, longer
<1>11. l[c] \in Seq(PageSet) /\ IsInjective(l[c])
      /\ ToSet(l[c]) = {q \in OfCache(u, h, c) : h[q].free_list # <<>>}
  BY <1>1 DEF Good, Types, ListGood
<1>12. h[p].free_list # <<>> <=> left # 1
  <2>1. h[p].free_list # <<>> <=> Len(h[p].free_list) # 0
    BY <1>5, NonEmpty
  <2> QED BY <1>5, <2>1
<1>13. /\ x \in Seq(PageSet) /\ IsInjective(x)
       /\ ToSet(x) = ToSet(l[c]) \cup {p}
  <2>1. CASE left = 1
    <3>1. p \notin ToSet(l[c])
      BY <1>11, <1>12, <2>1
    <3> QED BY <1>2, <1>11, <2>1, <3>1, PushFacts DEF GivenList
  <2>2. CASE left # 1
    <3>1. p \in ToSet(l[c])
      BY <1>2, <1>11, <1>12, <2>2
    <3> QED BY <1>11, <2>2, <3>1 DEF GivenList
  <2> QED BY <2>1, <2>2
<1> HIDE DEF x
<1>14. l2[c] = x /\ l2 \in [Caches -> Seq(PageSet)] /\ \A d \in Caches \ {c} : l2[d] = l[d]
  BY <1>1, <1>13 DEF Types, Put
<1>15. f2[c] = f[c] + 1 /\ f2 \in [Caches -> Int] /\ \A d \in Caches \ {c} : f2[d] = f[d]
  BY <1>1 DEF Types, Plus
<1> HIDE DEF l2, f2
<1>16. Types(u, h2, l2, f2, v2)
  BY <1>1, <1>10, <1>14, <1>15 DEF Types
<1>17. HeldIn(v2, p) = HeldIn(v, p) \ {e} /\ \A q \in PageSet \ {p} : HeldIn(v2, q) = HeldIn(v, q)
  BY <1>4 DEF HeldIn
<1>18. SlabGood(p, c, slab, HeldIn(v2, p))
  <2> DEFINE A == {g.addr : g \in HeldIn(v, p)}
             A2 == {g.addr : g \in HeldIn(v2, p)}
  <2>1. A2 = A \ {b}
    <3>1. ASSUME NEW g \in HeldIn(v, p), g.addr = b PROVE g = e
      <4>1. g \in [addr : Nat, len : Nat] /\ g.len = e.len
        BY <1>1, <1>6, <3>1 DEF HeldIn, Types
      <4> QED BY <1>4, <3>1, <4>1
    <3>2. \A g \in HeldIn(v2, p) : g \in HeldIn(v, p) /\ g # e
      BY <1>17
    <3>3. \A g \in HeldIn(v, p) : g # e => g \in HeldIn(v2, p)
      BY <1>17
    <3>4. ASSUME NEW y \in A2 PROVE y \in A \ {b}
      BY <3>1, <3>2, <3>4
    <3>5. ASSUME NEW y \in A \ {b} PROVE y \in A2
      BY <3>3, <3>5
    <3> QED BY <3>4, <3>5
  <2>2. /\ ToSet(h[p].free_list) \cup A = ToSet(Blocks(p, s)) /\ ToSet(h[p].free_list) \cap A = {}
        /\ h[p].total = BlockCount(p, s)
    BY <1>3 DEF SlabGood
  <2>3. b \in A
    BY <1>4
  <2> HIDE DEF A, A2
  <2>4. ToSet(longer) \cup A2 = ToSet(Blocks(p, s)) /\ ToSet(longer) \cap A2 = {}
    BY <1>8, <2>1, <2>2, <2>3
  <2>5. \A g \in HeldIn(v2, p) : g.len = s
    BY <1>6, <1>17
  <2> QED BY <1>5, <1>8, <1>9, <2>2, <2>4, <2>5 DEF SlabGood, A2
<1>19. PageGood(p, u, h2, v2)
  BY <1>9, <1>10, <1>18 DEF PageGood
<1>20. \A d \in Caches \ {c} : p \notin OfCache(u, h, d) /\ p \notin OfCache(u, h2, d)
  BY <1>9, <1>10, SizesDiffer DEF OfCache
<1>21. OfCache(u, h2, c) = OfCache(u, h, c)
  <2>1. u \subseteq PageSet
    BY <1>1 DEF Types
  <2>2. ASSUME NEW q \in u PROVE q \in OfCache(u, h2, c) <=> q \in OfCache(u, h, c)
    <3>1. h2[q].magic = h[q].magic /\ h2[q].slab_size = h[q].slab_size
      BY <1>9, <1>10, <2>1, <2>2
    <3> QED BY <3>1 DEF OfCache
  <2> QED BY <2>2 DEF OfCache
<1>22. OfCache(u, h, c) \subseteq PageSet
  BY <1>1 DEF Types, OfCache
<1>23. ListGood(c, u, h2, l2)
  <2>1. h2[p].free_list # <<>>
    BY <1>8, <1>9, <1>10
  <2>2. ASSUME NEW q \in OfCache(u, h, c)
        PROVE  q \in ToSet(x) <=> h2[q].free_list # <<>>
    <3>1. CASE q = p
      BY <1>13, <2>1, <3>1
    <3>2. CASE q # p
      <4>1. h2[q].free_list = h[q].free_list
        BY <1>10, <1>22, <3>2
      <4>2. q \in ToSet(x) <=> q \in ToSet(l[c])
        BY <1>13, <3>2
      <4> QED BY <1>11, <4>1, <4>2
    <3> QED BY <3>1, <3>2
  <2>3. ToSet(x) \subseteq OfCache(u, h, c)
    BY <1>2, <1>11, <1>13
  <2>4. ToSet(x) = {q \in OfCache(u, h2, c) : h2[q].free_list # <<>>}
    BY <1>21, <2>2, <2>3
  <2> QED BY <1>13, <1>14, <2>4 DEF ListGood
<1>24. CountGood(c, u, h2, f2)
  <2>1. /\ IsFiniteSet(FreeOf(u, h, c)) /\ Cardinality(FreeOf(u, h, c)) \in Nat
        /\ \A q \in OfCache(u, h, c) : \A y \in FreeOf(u, h, c) :
             PageOf(y) = q <=> y \in ToSet(h[q].free_list)
    BY FreeFacts
  <2>2. b \notin FreeOf(u, h, c)
    BY <1>2, <1>6, <1>7, <2>1
  <2>3. \A y : y \in FreeOf(u, h2, c) <=> \E q \in OfCache(u, h2, c) : y \in ToSet(h2[q].free_list)
    BY Zenon DEF FreeOf
  <2>4. \A y : y \in FreeOf(u, h, c) <=> \E q \in OfCache(u, h, c) : y \in ToSet(h[q].free_list)
    BY Zenon DEF FreeOf
  <2>5. \A q \in OfCache(u, h, c) : q # p => ToSet(h2[q].free_list) = ToSet(h[q].free_list)
    BY <1>10, <1>22
  <2>6. ToSet(h2[p].free_list) = ToSet(h[p].free_list) \cup {b}
    BY <1>8, <1>9, <1>10
  <2>7. ASSUME NEW y \in FreeOf(u, h2, c) PROVE y \in FreeOf(u, h, c) \cup {b}
    <3>1. PICK q \in OfCache(u, h, c) : y \in ToSet(h2[q].free_list)
      BY <1>21, <2>3
    <3> QED BY <2>4, <2>5, <2>6, <3>1
  <2>8. ASSUME NEW y \in FreeOf(u, h, c) \cup {b} PROVE y \in FreeOf(u, h2, c)
    <3>1. CASE y = b
      BY <1>2, <1>21, <2>3, <2>6, <3>1
    <3>2. CASE y # b
      <4>1. PICK q \in OfCache(u, h, c) : y \in ToSet(h[q].free_list)
        BY <2>4, <3>2
      <4>2. y \in ToSet(h2[q].free_list)
        BY <2>5, <2>6, <4>1
      <4> QED BY <1>21, <2>3, <4>2
    <3> QED BY <3>1, <3>2
  <2>9. FreeOf(u, h2, c) = FreeOf(u, h, c) \cup {b}
    BY <2>7, <2>8
  <2>10. Cardinality(FreeOf(u, h2, c)) = Cardinality(FreeOf(u, h, c)) + 1
    <3> DEFINE S == FreeOf(u, h, c)
    <3>1. IsFiniteSet(S) /\ b \notin S
      BY <2>1, <2>2
    <3> HIDE DEF S
    <3>2. Cardinality(S \cup {b}) = Cardinality(S) + 1
      BY <3>1, FS_AddElement
    <3> QED BY <2>9, <3>2 DEF S
  <2>11. f[c] = Cardinality(FreeOf(u, h, c))
    BY DEF Good, CountGood
  <2> QED BY <1>15, <2>10, <2>11 DEF CountGood
<1> HIDE DEF v2
<1>25. Good(u, h2, l2, f2, v2)
  <2>1. PagesKept(p, u, h, v, u, h2, v2)
    BY <1>10, <1>17 DEF PagesKept
  <2>2. CachesKept(p, c, u, h, l, f, u, h2, l2, f2)
    BY <1>14, <1>15, <1>20 DEF CachesKept
  <2>3. p \in PageSet
    BY <1>2
  <2> QED BY <1>16, <1>19, <1>23, <1>24, <2>1, <2>2, <2>3, OnePage
<1> QED
  BY <1>2, <1>21, <1>25 DEF h2, l2, f2, v2, x, slab, longer, Given

\* The second half of slab_free: a slab without clients leaves the list, and
\* its page goes back.
LEMMA ReturnGood ==
  ASSUME NEW u, NEW h, NEW l, NEW f, NEW v, Good(u, h, l, f, v),
         NEW c \in Caches, NEW p \in OfCache(u, h, c), h[p].total_free = h[p].total
  PROVE  Good(u \ {p}, h, Put(l, c, RemoveFirst(l[c], p)), Plus(f, c, -h[p].total), v)
<1> DEFINE n == h[p].total
           u2 == u \ {p}
           x == RemoveFirst(l[c], p)
           l2 == Put(l, c, x)
           f2 == Plus(f, c, -n)
           free == ToSet(h[p].free_list)
<1>1. Types(u, h, l, f, v)
  BY DEF Good
<1>2. /\ p \in PageSet /\ p \in u /\ h[p] \in Headers /\ SlabGood(p, c, h[p], HeldIn(v, p))
  BY SlabFacts
<1>3. HeldIn(v, p) = {}
  BY <1>2, AllFree
<1>4. /\ n = BlockCount(p, SlabSize[c]) /\ n \in Nat /\ n >= 1
      /\ h[p].free_list \in Seq(Nat) /\ IsInjective(h[p].free_list) /\ n = Len(h[p].free_list)
  <2>1. h[p].free_list \in Seq(Nat)
    BY <1>2 DEF Headers
  <2>2. n = BlockCount(p, SlabSize[c]) /\ IsInjective(h[p].free_list) /\ n = Len(h[p].free_list)
    BY <1>2, Zenon DEF SlabGood
  <2>3. BlockCount(p, SlabSize[c]) \in Nat /\ BlockCount(p, SlabSize[c]) >= 1
    BY <1>2, PageRoom
  <2> HIDE DEF n
  <2> QED BY <2>1, <2>2, <2>3
<1>5. h[p].free_list # <<>> /\ IsFiniteSet(free) /\ Cardinality(free) = n
  BY <1>4, NonEmpty, InjectiveLen
<1> HIDE DEF n, free
<1>6. l[c] \in Seq(PageSet) /\ IsInjective(l[c])
      /\ ToSet(l[c]) = {q \in OfCache(u, h, c) : h[q].free_list # <<>>}
  BY <1>1 DEF Good, Types, ListGood
<1>7. p \in ToSet(l[c])
  BY <1>5, <1>6
<1>8. x \in Seq(PageSet) /\ IsInjective(x) /\ ToSet(x) = ToSet(l[c]) \ {p}
  BY <1>6, <1>7, UnlinkFacts
<1> HIDE DEF x
<1>9. l2[c] = x /\ l2 \in [Caches -> Seq(PageSet)] /\ \A d \in Caches \ {c} : l2[d] = l[d]
  BY <1>1, <1>8 DEF Types, Put
<1>10. f2[c] = f[c] - n /\ f2 \in [Caches -> Int] /\ \A d \in Caches \ {c} : f2[d] = f[d]
  <2>1. n \in Nat /\ f \in [Caches -> Int]
    BY <1>1, <1>4 DEF Types
  <2> HIDE DEF n
  <2>2. f2 = [f EXCEPT ![c] = @ + (-n)]
    BY DEF Plus
  <2> HIDE DEF f2
  <2> QED BY <2>1, <2>2
<1> HIDE DEF l2, f2
<1>11. Types(u2, h, l2, f2, v)
  BY <1>1, <1>9, <1>10 DEF Types
<1>12. PageGood(p, u2, h, v)
  BY <1>3 DEF PageGood
<1>13. \A d \in Caches \ {c} : p \notin OfCache(u, h, d) /\ p \notin OfCache(u2, h, d)
  BY SizesDiffer DEF OfCache
<1>14. OfCache(u2, h, c) = OfCache(u, h, c) \ {p}
  BY DEF OfCache
<1>15. ListGood(c, u2, h, l2)
  <2>1. ToSet(x) = {q \in OfCache(u2, h, c) : h[q].free_list # <<>>}
    BY <1>6, <1>8, <1>14
  <2> QED BY <1>8, <1>9, <2>1 DEF ListGood
<1>16. CountGood(c, u2, h, f2)
  <2>1. /\ IsFiniteSet(FreeOf(u, h, c)) /\ Cardinality(FreeOf(u, h, c)) \in Nat
        /\ \A q \in OfCache(u, h, c) : \A y \in FreeOf(u, h, c) :
             PageOf(y) = q <=> y \in ToSet(h[q].free_list)
    BY FreeFacts
  <2>2. \A y : y \in FreeOf(u2, h, c) <=> \E q \in OfCache(u2, h, c) : y \in ToSet(h[q].free_list)
    BY Zenon DEF FreeOf
  <2>3. \A y : y \in FreeOf(u, h, c) <=> \E q \in OfCache(u, h, c) : y \in ToSet(h[q].free_list)
    BY Zenon DEF FreeOf
  <2>4. ASSUME NEW y \in FreeOf(u2, h, c) PROVE y \in FreeOf(u, h, c) \ free
    <3>1. PICK q \in OfCache(u2, h, c) : y \in ToSet(h[q].free_list)
      BY <2>2
    <3>2. q \in OfCache(u, h, c) /\ q # p
      BY <1>14, <3>1
    <3>3. y \in FreeOf(u, h, c)
      BY <2>3, <3>1, <3>2
    <3> QED BY <2>1, <3>1, <3>2, <3>3 DEF free
  <2>5. ASSUME NEW y \in FreeOf(u, h, c) \ free PROVE y \in FreeOf(u2, h, c)
    <3>1. PICK q \in OfCache(u, h, c) : y \in ToSet(h[q].free_list)
      BY <2>3
    <3>2. q # p
      BY <3>1 DEF free
    <3> QED BY <1>14, <2>2, <3>1, <3>2
  <2>6. FreeOf(u2, h, c) = FreeOf(u, h, c) \ free
    BY <2>4, <2>5
  <2>7. free \subseteq FreeOf(u, h, c)
    BY <2>3 DEF free
  <2>8. Cardinality(FreeOf(u2, h, c)) = Cardinality(FreeOf(u, h, c)) - n
    <3> DEFINE S == FreeOf(u, h, c)
    <3>1. IsFiniteSet(S) /\ S \cap free = free
      BY <2>1, <2>7
    <3> HIDE DEF S
    <3>2. Cardinality(S \ free) = Cardinality(S) - Cardinality(S \cap free)
      BY <3>1, FS_Difference
    <3> QED BY <1>5, <2>6, <3>1, <3>2 DEF S
  <2>9. f[c] = Cardinality(FreeOf(u, h, c))
    BY DEF Good, CountGood
  <2> QED BY <1>10, <2>8, <2>9 DEF CountGood
<1>17. Good(u2, h, l2, f2, v)
  <2>1. PagesKept(p, u, h, v, u2, h, v)
    BY DEF PagesKept
  <2>2. CachesKept(p, c, u, h, l, f, u2, h, l2, f2)
    BY <1>9, <1>10, <1>13 DEF CachesKept
  <2>3. p \in PageSet
    BY <1>2
  <2> HIDE DEF u2
  <2> QED BY <1>11, <1>12, <1>15, <1>16, <2>1, <2>2, <2>3, OnePage
<1> QED
  BY <1>17 DEF u2, l2, f2, x, n

\* A page of its own: no cache has to do with it.
LEMMA PageStep ==
  ASSUME NEW u, NEW h, NEW l, NEW f, NEW v, Good(u, h, l, f, v),
         NEW u2, NEW h2, NEW v2, Types(u2, h2, l, f, v2), NEW p \in PageSet,
         PagesKept(p, u, h, v, u2, h2, v2),
         p \notin u \/ ~h[p].magic, p \notin u2 \/ ~h2[p].magic,
         PageGood(p, u2, h2, v2)
  PROVE  Good(u2, h2, l, f, v2)
<1>1. \A q \in PageSet : PageGood(q, u2, h2, v2)
  <2>1. \A q \in PageSet \ {p} : PageGood(q, u2, h2, v2)
    BY OtherPages
  <2> QED BY <2>1
<1>2. u2 \subseteq PageSet
  BY DEF Types
<1>3. ASSUME NEW d \in Caches PROVE ListGood(d, u2, h2, l) /\ CountGood(d, u2, h2, f)
  <2>1. p \notin OfCache(u, h, d) /\ p \notin OfCache(u2, h2, d)
    BY DEF OfCache
  <2> QED BY <1>2, <2>1, OtherCache
<1> QED
  BY <1>1, <1>3 DEF Good

\* kmalloc of a page: it was free, is zeroed, and one client holds it.
LEMMA WholeGood ==
  ASSUME NEW u, NEW h, NEW l, NEW f, NEW v, Good(u, h, l, f, v),
         NEW p \in PageSet, p \notin u,
         NEW e, e = [addr |-> p * PageSize, len |-> PageSize]
  PROVE  /\ Good(u \cup {p}, Put(h, p, Blank), l, f, v \cup {e})
         /\ e \notin v /\ PageOf(e.addr) = p
<1> DEFINE u2 == u \cup {p}
           h2 == Put(h, p, Blank)
           v2 == v \cup {e}
<1>1. Types(u, h, l, f, v)
  BY DEF Good
<1>2. Blank \in Headers /\ ~Blank.magic
  BY DEF Blank, Headers
<1>3. h2[p] = Blank /\ h2 \in [PageSet -> Headers] /\ \A q \in PageSet \ {p} : h2[q] = h[q]
  BY <1>1, <1>2 DEF Types, Put
<1>4. PageOf(e.addr) = p /\ e \in [addr : Nat, len : Nat]
  BY PageOfWhole, Constants
<1> HIDE DEF h2
<1>5. Types(u2, h2, l, f, v2)
  BY <1>1, <1>3, <1>4 DEF Types
<1>6. HeldIn(v, p) = {}
  BY DEF Good, PageGood
<1>7. HeldIn(v2, p) = {e} /\ \A q \in PageSet \ {p} : HeldIn(v2, q) = HeldIn(v, q)
  BY <1>4, <1>6 DEF HeldIn
<1>8. e \notin v
  BY <1>4, <1>6 DEF HeldIn
<1>9. PageGood(p, u2, h2, v2)
  BY <1>2, <1>3, <1>7 DEF PageGood
<1>10. PagesKept(p, u, h, v, u2, h2, v2)
  BY <1>3, <1>7 DEF PagesKept
<1>11. ~h2[p].magic
  BY <1>2, <1>3
<1> HIDE DEF u2, v2
<1>12. Good(u2, h2, l, f, v2)
  BY <1>5, <1>9, <1>10, <1>11, PageStep
<1> QED
  BY <1>4, <1>8, <1>12 DEF u2, h2, v2

\* kfree of a page.
LEMMA PageFreeGood ==
  ASSUME NEW u, NEW h, NEW l, NEW f, NEW v, Good(u, h, l, f, v),
         NEW e \in v, NEW p, p = PageOf(e.addr), ~h[p].magic
  PROVE  Good(u \ {p}, h, l, f, v \ {e})
<1> DEFINE u2 == u \ {p}
           v2 == v \ {e}
<1>1. Types(u, h, l, f, v)
  BY DEF Good
<1>2. p \in PageSet /\ e \in HeldIn(v, p)
  BY <1>1 DEF Types, HeldIn
<1>3. p \in u /\ HeldIn(v, p) \subseteq {[addr |-> p * PageSize, len |-> PageSize]}
  BY <1>2 DEF Good, PageGood
<1>4. HeldIn(v2, p) = {} /\ \A q \in PageSet \ {p} : HeldIn(v2, q) = HeldIn(v, q)
  BY <1>2, <1>3 DEF HeldIn
<1>5. Types(u2, h, l, f, v2)
  BY <1>1 DEF Types
<1>6. PageGood(p, u2, h, v2)
  BY <1>4 DEF PageGood
<1>7. PagesKept(p, u, h, v, u2, h, v2)
  BY <1>4 DEF PagesKept
<1>8. p \notin u2 \/ ~h[p].magic
  OBVIOUS
<1> HIDE DEF u2, v2
<1>9. Good(u2, h, l, f, v2)
  BY <1>2, <1>5, <1>6, <1>7, <1>8, PageStep
<1> QED
  BY <1>9 DEF u2, v2
-----------------------------------------------------------------------------
(* What the invariant says of the extents clients hold. *)

\* An extent lies inside its page, aligned to its length, and two are apart.
LEMMA Extents ==
  ASSUME NEW u, NEW h, NEW l, NEW f, NEW v, Good(u, h, l, f, v)
  PROVE  /\ \A e \in v :
              /\ e.addr \in Nat /\ e.len \in Nat /\ e.len >= 1
              /\ e.addr + e.len <= NumPages * PageSize /\ e.addr % e.len = 0
              /\ PageOf(e.addr) \in u
              /\ h[PageOf(e.addr)].magic <=> e.len <= MaxSlabSize
         /\ \A e, g \in v : e # g => e.addr + e.len <= g.addr \/ g.addr + g.len <= e.addr
<1> DEFINE Inside(e) == LET p == PageOf(e.addr)
                        IN  p * PageSize <= e.addr /\ e.addr + e.len <= p * PageSize + PageSize
<1>1. Types(u, h, l, f, v)
  BY DEF Good
<1>2. \A e \in v : /\ PageOf(e.addr) \in PageSet /\ e \in HeldIn(v, PageOf(e.addr))
                   /\ e \in [addr : Nat, len : Nat]
  BY <1>1 DEF Types, HeldIn
<1>3. ASSUME NEW e \in v
      PROVE  /\ e.addr \in Nat /\ e.len \in Nat /\ e.len >= 1 /\ e.addr % e.len = 0
             /\ Inside(e) /\ PageOf(e.addr) \in u
             /\ h[PageOf(e.addr)].magic <=> e.len <= MaxSlabSize
             /\ h[PageOf(e.addr)].magic =>
                  \E c \in Caches : /\ SlabGood(PageOf(e.addr), c, h[PageOf(e.addr)], HeldIn(v, PageOf(e.addr)))
                                    /\ e.addr \in ToSet(Blocks(PageOf(e.addr), SlabSize[c]))
             /\ ~h[PageOf(e.addr)].magic =>
                  e = [addr |-> PageOf(e.addr) * PageSize, len |-> PageSize]
  <2> DEFINE p == PageOf(e.addr)
  <2>1. p \in PageSet /\ e \in HeldIn(v, p) /\ e \in [addr : Nat, len : Nat]
    BY <1>2
  <2>2. PageGood(p, u, h, v) /\ p \in u
    BY <2>1 DEF Good, PageGood
  <2>3. p * PageSize \in Nat /\ (p * PageSize) % PageSize = 0 /\ (p + 1) * PageSize = p * PageSize + PageSize
    BY <2>1, PageOfWhole
  <2> HIDE DEF p
  <2>4. CASE h[p].magic
    <3>1. PICK c \in Caches : SlabGood(p, c, h[p], HeldIn(v, p))
      BY <2>2, <2>4 DEF PageGood
    <3>2. e.addr \in {g.addr : g \in HeldIn(v, p)}
      BY <2>1
    <3>3. e.addr \in ToSet(Blocks(p, SlabSize[c])) /\ e.len = SlabSize[c]
      BY <2>1, <3>1, <3>2 DEF SlabGood
    <3>4. /\ e.addr \in Nat /\ p * PageSize + HeaderSize <= e.addr /\ e.addr % e.len = 0
          /\ e.addr + e.len <= (p + 1) * PageSize
      BY <2>1, <3>3, BlocksFacts
    <3>5. e.len \in Nat /\ e.len >= 1 /\ e.len <= MaxSlabSize /\ HeaderSize \in Nat
      BY <3>3, Constants, SizesDiffer
    <3>6. p * PageSize <= e.addr /\ e.addr + e.len <= p * PageSize + PageSize
      BY <2>3, <3>4, <3>5
    <3> QED BY <2>2, <2>4, <3>1, <3>3, <3>4, <3>5, <3>6 DEF p
  <2>5. CASE ~h[p].magic
    <3>1. e = [addr |-> p * PageSize, len |-> PageSize]
      BY <2>1, <2>2, <2>5 DEF PageGood
    <3>2. e.addr = p * PageSize /\ e.len = PageSize
      BY <3>1
    <3>3. PageSize \in Nat /\ PageSize >= 1 /\ ~(PageSize <= MaxSlabSize)
      BY Constants
    <3>4. p * PageSize <= e.addr /\ e.addr + e.len <= p * PageSize + PageSize
      BY <2>3, <3>2, <3>3
    <3> QED BY <2>2, <2>3, <2>5, <3>1, <3>2, <3>3, <3>4 DEF p
  <2> QED BY <2>4, <2>5
<1>4. ASSUME NEW e \in v PROVE e.addr + e.len <= NumPages * PageSize
  <2> DEFINE p == PageOf(e.addr)
  <2>1. /\ p * PageSize \in Nat /\ p * PageSize + PageSize <= NumPages * PageSize
    BY <1>2, PageOfWhole
  <2>2. e.addr + e.len <= p * PageSize + PageSize /\ e.addr \in Nat /\ e.len \in Nat
    BY <1>3
  <2>3. NumPages * PageSize \in Nat /\ PageSize \in Nat
    BY Constants
  <2> HIDE DEF p
  <2> QED BY <2>1, <2>2, <2>3
<1>5. ASSUME NEW e \in v, NEW g \in v, e # g
      PROVE  e.addr + e.len <= g.addr \/ g.addr + g.len <= e.addr
  <2> DEFINE p == PageOf(e.addr)
             q == PageOf(g.addr)
  <2>1. CASE p # q
    <3>1. p \in Nat /\ q \in Nat /\ PageSize \in Nat
      BY <1>2, Constants DEF PageSet
    <3>2. /\ p * PageSize <= e.addr /\ e.addr + e.len <= p * PageSize + PageSize
          /\ q * PageSize <= g.addr /\ g.addr + g.len <= q * PageSize + PageSize
          /\ e.addr \in Nat /\ e.len \in Nat /\ g.addr \in Nat /\ g.len \in Nat
      BY <1>3
    <3> HIDE DEF p, q
    <3>3. p * PageSize \in Nat /\ q * PageSize \in Nat
      BY <3>1
    <3>4. p * PageSize + PageSize <= q * PageSize \/ q * PageSize + PageSize <= p * PageSize
      BY <2>1, <3>1, MulMono
    <3> QED BY <3>1, <3>2, <3>3, <3>4
  <2>2. CASE p = q /\ h[p].magic
    <3>1. PICK c \in Caches : /\ SlabGood(p, c, h[p], HeldIn(v, p))
                              /\ e.addr \in ToSet(Blocks(p, SlabSize[c]))
      BY <1>3, <2>2
    <3>2. e \in HeldIn(v, p) /\ g \in HeldIn(v, p) /\ p \in PageSet
          /\ e \in [addr : Nat, len : Nat] /\ g \in [addr : Nat, len : Nat]
      BY <1>2, <2>2
    <3>3. g.addr \in {y.addr : y \in HeldIn(v, p)}
      BY <3>2
    <3>4. g.addr \in ToSet(Blocks(p, SlabSize[c])) /\ e.len = SlabSize[c] /\ g.len = SlabSize[c]
      BY <3>1, <3>2, <3>3 DEF SlabGood
    <3>5. e.addr # g.addr
      BY <1>5, <3>2, <3>4
    <3> HIDE DEF p
    <3> QED BY <3>1, <3>2, <3>4, <3>5, BlocksFacts
  <2>3. CASE p = q /\ ~h[p].magic
    <3>1. e = g
      BY <1>3, <2>3
    <3> QED BY <1>5, <3>1
  <2> QED BY <2>1, <2>2, <2>3
<1> QED
  BY <1>3, <1>4, <1>5

-----------------------------------------------------------------------------
(* The initial state. *)

LEMMA InitIInv == Init => IInv
<1> SUFFICES ASSUME Init PROVE IInv
  OBVIOUS
<1>1. /\ used = Caches /\ slab_list = [c \in Caches |-> <<c>>]
      /\ header = [p \in PageSet |-> IF p \in Caches THEN SlabCreate(p, SlabSize[p]) ELSE Blank]
      /\ total_free = [c \in Caches |-> BlockCount(c, SlabSize[c])]
      /\ live = {} /\ broken = FALSE
  BY DEF Init
<1>2. Caches \subseteq PageSet
  BY Constants
<1>3. ASSUME NEW c \in Caches
      PROVE  /\ header[c].magic /\ header[c].slab_size = SlabSize[c]
             /\ header[c].total = BlockCount(c, SlabSize[c])
             /\ header[c].total_free = Len(header[c].free_list)
             /\ header[c].free_list = Blocks(c, SlabSize[c])
             /\ header[c] \in Headers /\ header[c].free_list # <<>>
             /\ BlockCount(c, SlabSize[c]) \in Nat
             /\ IsInjective(header[c].free_list)
             /\ Cardinality(ToSet(header[c].free_list)) = BlockCount(c, SlabSize[c])
  <2>1. c \in PageSet /\ header[c] = SlabCreate(c, SlabSize[c])
    BY <1>1, <1>2
  <2>2. /\ Blocks(c, SlabSize[c]) \in Seq(Nat) /\ Len(Blocks(c, SlabSize[c])) = BlockCount(c, SlabSize[c])
        /\ Len(Blocks(c, SlabSize[c])) >= 1 /\ IsInjective(Blocks(c, SlabSize[c]))
        /\ Cardinality(ToSet(Blocks(c, SlabSize[c]))) = BlockCount(c, SlabSize[c])
    BY <2>1, BlocksFacts
  <2>3. SlabSize[c] \in Nat /\ BlockCount(c, SlabSize[c]) \in Nat /\ Blocks(c, SlabSize[c]) # <<>>
    BY <2>2, Constants
  <2>4. /\ header[c].magic /\ header[c].slab_size = SlabSize[c]
        /\ header[c].total = BlockCount(c, SlabSize[c])
        /\ header[c].total_free = BlockCount(c, SlabSize[c])
        /\ header[c].free_list = Blocks(c, SlabSize[c])
        /\ header[c] \in Headers
    BY <2>1, <2>2, <2>3 DEF SlabCreate, Headers
  <2> QED BY <2>2, <2>3, <2>4
<1>4. \A p \in PageSet : HeldIn(live, p) = {}
  BY <1>1 DEF HeldIn
<1>5. Types(used, header, slab_list, total_free, live)
  <2>1. header \in [PageSet -> Headers]
    <3>1. Blank \in Headers
      BY DEF Blank, Headers
    <3>2. \A p \in PageSet : header[p] \in Headers
      BY <1>1, <1>3, <3>1
    <3> QED BY <1>1, <3>2
  <2>2. slab_list \in [Caches -> Seq(PageSet)]
    BY <1>1, <1>2
  <2>3. total_free \in [Caches -> Int]
    <3>1. \A c \in Caches : BlockCount(c, SlabSize[c]) \in Int
      BY <1>3
    <3> QED BY <1>1, <3>1
  <2> QED BY <1>1, <1>2, <2>1, <2>2, <2>3 DEF Types
<1>6. ASSUME NEW p \in PageSet PROVE PageGood(p, used, header, live)
  <2>1. CASE p \in Caches
    <3>1. SlabGood(p, p, header[p], HeldIn(live, p))
      BY <1>3, <1>4, <2>1 DEF SlabGood
    <3> QED BY <1>1, <1>3, <2>1, <3>1 DEF PageGood
  <2>2. CASE p \notin Caches
    BY <1>1, <1>4, <2>2 DEF PageGood
  <2> QED BY <2>1, <2>2
<1>7. ASSUME NEW c \in Caches
      PROVE  ListGood(c, used, header, slab_list) /\ CountGood(c, used, header, total_free)
  <2>1. OfCache(used, header, c) = {c}
    <3>1. \A p \in used : p \in OfCache(used, header, c) <=> p = c
      <4>1. \A p \in Caches : header[p].magic /\ (header[p].slab_size = SlabSize[c] <=> p = c)
        BY <1>3, SizesDiffer
      <4> QED BY <1>1, <4>1 DEF OfCache
    <3>2. OfCache(used, header, c) \subseteq used
      BY DEF OfCache
    <3> QED BY <1>1, <3>1, <3>2
  <2>2. {p \in OfCache(used, header, c) : header[p].free_list # <<>>} = {c}
    BY <1>3, <2>1
  <2>3. slab_list[c] = <<c>> /\ IsInjective(<<c>>) /\ ToSet(<<c>>) = {c}
    BY <1>1 DEF IsInjective, ToSet
  <2>4. FreeOf(used, header, c) = ToSet(header[c].free_list)
    BY <2>1, Zenon DEF FreeOf
  <2>5. total_free[c] = BlockCount(c, SlabSize[c])
    BY <1>1
  <2> QED BY <1>3, <2>2, <2>3, <2>4, <2>5 DEF ListGood, CountGood
<1> QED
  BY <1>1, <1>5, <1>6, <1>7 DEF IInv, Good
-----------------------------------------------------------------------------
(* Each step keeps the invariant, and kmalloc grants an extent. *)

Grants(size) == \E e : e \notin live /\ live' = live \cup {e} /\ e.len >= size

LEMMA Fresh == ~OutOfPages => FreshPage \in PageSet /\ FreshPage \notin used
<1> SUFFICES ASSUME ~OutOfPages PROVE FreshPage \in PageSet /\ FreshPage \notin used
  OBVIOUS
<1> DEFINE idx == AllocIndex(used, NumPages, 1)
<1>1. NumPages \in Nat /\ 1 \in Nat \ {0} /\ ~AllocFails(used, NumPages, 1)
  BY Constants DEF OutOfPages
<1>2. idx \in 0 .. (NumPages - 1) /\ \A i \in idx .. (idx + 1 - 1) : i \notin used
  BY <1>1, AllocFound, Zenon
<1> HIDE DEF idx
<1>3. idx \in idx .. (idx + 1 - 1)
  BY <1>2
<1> QED
  BY <1>2, <1>3 DEF idx, FreshPage, PageSet

\* The loop of kmalloc finds the first cache whose blocks are large enough.
LEMMA CacheForFacts ==
  ASSUME NEW size \in Nat, size <= MaxSlabSize
  PROVE  CacheFor(size) \in Caches /\ SlabSize[CacheFor(size)] >= size
<1> DEFINE ok == {c \in Caches : SlabSize[c] >= size}
<1>1. NumCaches - 1 \in ok
  BY Constants DEF MaxSlabSize, Caches
<1>2. ok \subseteq Nat
  BY DEF Caches
<1>3. \E c \in ok : \A d \in ok : c <= d
  <2> HIDE DEF ok
  <2> QED BY <1>1, <1>2, NatMin
<1>4. \E c \in Caches : SlabSize[c] >= size /\ \A d \in Caches : SlabSize[d] >= size => c <= d
  BY <1>3
<1> QED
  BY <1>4 DEF CacheFor

\* A step on one page hoards nothing on the others.
LEMMA QuietElse ==
  ASSUME NEW S, NEW u, NEW h, NEW v, Quiet(S, u, h, v), NEW u2, NEW h2, NEW v2, NEW p,
         \A q \in u2 : q # p => q \in u /\ h2[q] = h[q] /\ HeldIn(v2, q) = HeldIn(v, q),
         p \in u2 /\ h2[p].magic /\ HeldIn(v2, p) = {} => h2[p].total = 1
  PROVE  Quiet(S, u2, h2, v2)
BY DEF Quiet

LEMMA KmallocPageKeeps ==
  ASSUME IInv, NEW size \in Nat, KmallocPage(size),
         NEW S, Quiet(S, used, header, live)
  PROVE  IInv' /\ Grants(size) /\ Quiet(S, used', header', live')
<1> DEFINE p == FreshPage
           e == [addr |-> p * PageSize, len |-> PageSize]
<1>1. /\ size <= PageSize /\ used' = used \cup {p} /\ header' = Put(header, p, Blank)
      /\ live' = live \cup {e}
      /\ slab_list' = slab_list /\ total_free' = total_free /\ broken' = broken
      /\ p \in PageSet /\ p \notin used
  BY Fresh DEF KmallocPage, ZeroedPage, Put
<1> HIDE DEF p
<1>2. /\ Good(used, header, slab_list, total_free, live) /\ Quiet(S, used, header, live)
      /\ broken \in BOOLEAN
  BY DEF IInv
<1>3. /\ Good(used', header', slab_list', total_free', live') /\ e \notin live /\ PageOf(e.addr) = p
  BY <1>1, <1>2, WholeGood
<1> HIDE DEF e
<1>4. Quiet(S, used', header', live')
  <2>1. header'[p] = Blank /\ ~Blank.magic /\ \A q \in PageSet : q # p => header'[q] = header[q]
    BY <1>1, <1>2 DEF Blank, Good, Types, Put
  <2>2. used \subseteq PageSet
    BY <1>2 DEF Good, Types
  <2>3. \A q : q # p => HeldIn(live', q) = HeldIn(live, q)
    BY <1>1, <1>3 DEF HeldIn
  <2>4. \A q \in used' : q # p => /\ q \in used /\ header'[q] = header[q]
                                  /\ HeldIn(live', q) = HeldIn(live, q)
    BY <1>1, <2>1, <2>2, <2>3
  <2>5. ~header'[p].magic
    BY <2>1
  <2> QED BY <1>2, <2>4, <2>5 DEF Quiet
<1>5. IInv'
  BY <1>1, <1>2, <1>3, <1>4 DEF IInv
<1>6. e.len >= size
  BY <1>1, Constants DEF e
<1> QED
  BY <1>1, <1>3, <1>4, <1>5, <1>6 DEF Grants

\* The page a block is taken from has a client afterwards.
LEMMA TakeQuiet ==
  ASSUME NEW S, NEW u, NEW h, NEW v, u \subseteq PageSet, h \in [PageSet -> Headers],
         NEW p \in PageSet, NEW slab, NEW e, e \in HeldIn({e}, p), Quiet(S, u \ {p}, h, v)
  PROVE  Quiet(S, u, Put(h, p, slab), v \cup {e})
<1> DEFINE h2 == Put(h, p, slab)
           v2 == v \cup {e}
<1>1. \A q \in PageSet : q # p => h2[q] = h[q]
  BY DEF Put
<1>2. \A q : q # p => HeldIn(v2, q) = HeldIn(v, q)
  BY DEF HeldIn
<1>3. e \in HeldIn(v2, p)
  BY DEF HeldIn
<1> HIDE DEF h2, v2
<1>4. \A q \in u : q # p => q \in u \ {p} /\ h2[q] = h[q] /\ HeldIn(v2, q) = HeldIn(v, q)
  BY <1>1, <1>2
<1>5. Quiet(S, u, h2, v2)
  BY <1>3, <1>4, QuietElse
<1> QED
  BY <1>5 DEF h2, v2

LEMMA KmallocBlockKeeps ==
  ASSUME IInv, NEW size \in Nat, KmallocBlock(size),
         NEW S, Quiet(S, used, header, live)
  PROVE  IInv' /\ Grants(size) /\ Quiet(S, used', header', live')
<1> DEFINE c == CacheFor(size)
           p == Head(slab_list[c])
           e == Block(header, p, c)
<1>1. /\ Good(used, header, slab_list, total_free, live) /\ Quiet(S, used, header, live)
      /\ broken \in BOOLEAN /\ header \in [PageSet -> Headers] /\ used \subseteq PageSet
  BY DEF IInv, Good, Types
<1>2. /\ size <= MaxSlabSize /\ slab_list[c] # <<>>
      /\ header' = [header EXCEPT ![p].free_list = PopBlock(@), ![p].total_free = header[p].total_free - 1]
      /\ slab_list' = Put(slab_list, c, TakenList(header, p, slab_list[c]))
      /\ live' = live \cup {e}
      /\ total_free' = Plus(total_free, c, -1)
      /\ used' = used /\ broken' = broken
  BY DEF KmallocBlock, TakeBlock, Put, TakenList, Plus, Block
<1>3. c \in Caches /\ SlabSize[c] >= size
  BY <1>2, CacheForFacts
<1> HIDE DEF c
<1>4. p \in PageSet /\ p \in used
  BY <1>1, <1>2, <1>3, HeadFacts DEF OfCache
<1>5. /\ Good(used, Taken(header, p), Put(slab_list, c, TakenList(header, p, slab_list[c])),
              Plus(total_free, c, -1), live \cup {e})
      /\ e \notin live /\ e \in HeldIn({e}, p)
  BY <1>1, <1>2, <1>3, TakeGood
<1> HIDE DEF p
<1>6. header' = Taken(header, p)
  BY <1>1, <1>2, <1>4 DEF Put, WithFree, PopBlock, Taken
<1>7. Good(used', header', slab_list', total_free', live')
  <2> HIDE DEF e
  <2> QED BY <1>2, <1>5, <1>6
<1>8. Quiet(S, used', header', live')
  <2> HIDE DEF e
  <2>1. Quiet(S, used \ {p}, header, live)
    BY <1>1 DEF Quiet
  <2>2. Quiet(S, used, Taken(header, p), live \cup {e})
    BY <1>1, <1>4, <1>5, <2>1, TakeQuiet DEF Taken
  <2> QED BY <1>2, <1>6, <2>2
<1>9. IInv'
  BY <1>1, <1>2, <1>7, <1>8 DEF IInv
<1>10. e.len >= size
  BY <1>3 DEF Block
<1> QED
  BY <1>2, <1>5, <1>8, <1>9, <1>10 DEF Grants

LEMMA KmallocNewSlabKeeps ==
  ASSUME IInv, NEW size \in Nat, KmallocNewSlab(size),
         NEW S, Quiet(S, used, header, live)
  PROVE  IInv' /\ Grants(size) /\ Quiet(S, used', header', live')
<1> DEFINE c == CacheFor(size)
           p == FreshPage
           slab == SlabCreate(p, SlabSize[c])
           n == BlockCount(p, SlabSize[c])
           u == used \cup {p}
           h == Put(header, p, slab)
           l == Put(slab_list, c, <<p>>)
           f == Plus(total_free, c, n)
           e == Block(h, p, c)
<1>1. /\ Good(used, header, slab_list, total_free, live) /\ Quiet(S, used, header, live)
      /\ broken \in BOOLEAN /\ header \in [PageSet -> Headers] /\ used \subseteq PageSet
      /\ slab_list \in [Caches -> Seq(PageSet)] /\ total_free \in [Caches -> Int]
  BY DEF IInv, Good, Types
<1>2. /\ size <= MaxSlabSize /\ slab_list[c] = <<>>
      /\ p \in PageSet /\ p \notin used /\ used' = u
      /\ header' = [h EXCEPT ![p].free_list = PopBlock(@), ![p].total_free = h[p].total_free - 1]
      /\ slab_list' = Put(slab_list, c, TakenList(h, p, <<p>>))
      /\ live' = live \cup {e}
      /\ total_free' = [total_free EXCEPT ![c] = @ + n - 1]
      /\ broken' = broken
  <2>1. /\ size <= MaxSlabSize /\ slab_list[c] = <<>> /\ ~OutOfPages /\ used' = u
        /\ TakeBlock(c, h, <<p>>)
        /\ total_free' = [total_free EXCEPT ![c] = @ + n - 1]
        /\ broken' = broken
    BY DEF KmallocNewSlab, SlabCreate, Put
  <2>2. p \in PageSet /\ p \notin used
    BY <2>1, Fresh
  <2>3. Head(<<p>>) = p
    OBVIOUS
  <2> HIDE DEF h, p, c, n, u
  <2>4. /\ header' = [h EXCEPT ![p].free_list = PopBlock(@), ![p].total_free = h[p].total_free - 1]
        /\ slab_list' = Put(slab_list, c, TakenList(h, p, <<p>>))
        /\ live' = live \cup {Block(h, p, c)}
    BY <2>1, <2>3 DEF TakeBlock, Put, TakenList, Block
  <2> QED BY <2>1, <2>2, <2>4
<1>3. c \in Caches /\ SlabSize[c] >= size
  BY <1>2, CacheForFacts
<1> HIDE DEF c, p
<1>4. Good(u, h, l, f, live)
  BY <1>1, <1>2, <1>3, CreateGood
<1>5. n \in Nat
  BY <1>2, <1>3, PageRoom
<1>6. l[c] = <<p>> /\ l[c] # <<>> /\ p = Head(l[c])
  BY <1>1, <1>3 DEF Put
<1>7. h \in [PageSet -> Headers] /\ u \subseteq PageSet
  BY <1>4 DEF Good, Types
<1>8. header' = Taken(h, p)
  <2> HIDE DEF h
  <2> QED BY <1>2, <1>7 DEF Put, WithFree, PopBlock, Taken
<1>9. slab_list' = Put(l, c, TakenList(h, p, l[c]))
  <2> DEFINE x == TakenList(h, p, <<p>>)
  <2> HIDE DEF x
  <2>1. Put(slab_list, c, x) = Put(Put(slab_list, c, <<p>>), c, x)
    BY <1>1, <1>3 DEF Put
  <2> QED BY <1>2, <1>6, <2>1 DEF x
<1>10. total_free' = Plus(f, c, -1)
  <2> HIDE DEF n
  <2>1. f = [total_free EXCEPT ![c] = @ + n]
    BY DEF Plus
  <2> HIDE DEF f
  <2>2. f \in [Caches -> Int] /\ f[c] = total_free[c] + n /\ \A d \in Caches : d # c => f[d] = total_free[d]
    BY <1>1, <1>3, <1>5, <2>1
  <2>3. Plus(f, c, -1) = [f EXCEPT ![c] = @ + (-1)]
    BY DEF Plus
  <2> QED BY <1>1, <1>2, <1>3, <1>5, <2>2, <2>3
<1> HIDE DEF h, l, f, u, n
<1>11. /\ Good(u, Taken(h, p), Put(l, c, TakenList(h, p, l[c])), Plus(f, c, -1), live \cup {e})
       /\ e \notin live /\ e \in HeldIn({e}, p)
  BY <1>3, <1>4, <1>6, TakeGood
<1> HIDE DEF e
<1>12. Good(used', header', slab_list', total_free', live')
  BY <1>2, <1>8, <1>9, <1>10, <1>11
<1>13. Quiet(S, used', header', live')
  <2>1. Quiet(S, u \ {p}, h, live)
    <3>1. \A q \in u \ {p} : q \in used /\ h[q] = header[q]
      BY <1>1, <1>2 DEF u, h, Put
    <3> QED BY <1>1, <3>1 DEF Quiet
  <2>2. Quiet(S, u, Taken(h, p), live \cup {e})
    BY <1>2, <1>7, <1>11, <2>1, TakeQuiet DEF Taken
  <2> QED BY <1>2, <1>8, <2>2
<1>14. IInv'
  BY <1>1, <1>2, <1>12, <1>13 DEF IInv
<1>15. e.len >= size
  BY <1>3 DEF Block, e
<1> QED
  BY <1>2, <1>11, <1>13, <1>14, <1>15 DEF Grants

LEMMA KfreeBlockKeeps ==
  ASSUME IInv, NEW e \in live, KfreeBlock(e),
         NEW S, Quiet(S, used, header, live)
  PROVE  IInv' /\ Quiet(S, used', header', live')
<1> DEFINE p == PageOf(e.addr)
           c == CHOOSE d \in Caches : SlabSize[d] = header[p].slab_size
           n == header[p].total
           left == header[p].total_free + 1
           release == left # 1 /\ left = n
           h == Given(header, p, e.addr)
           l == Put(slab_list, c, GivenList(header, p, slab_list[c]))
           f == Plus(total_free, c, 1)
           v == live \ {e}
<1>1. /\ Good(used, header, slab_list, total_free, live) /\ Quiet(S, used, header, live)
      /\ broken \in BOOLEAN /\ header \in [PageSet -> Headers] /\ used \subseteq PageSet
      /\ slab_list \in [Caches -> Seq(PageSet)] /\ total_free \in [Caches -> Int]
  BY DEF IInv, Good, Types
<1>2. /\ header[p].magic
      /\ header' = [header EXCEPT
           ![p].free_list = <<SlabItem(e.addr, header[p].slab_size)>> \o @, ![p].total_free = left]
      /\ slab_list' = [slab_list EXCEPT ![c] = Relist(@, p, left, release)]
      /\ total_free' = [total_free EXCEPT ![c] = CacheFree(@, n, release)]
      /\ used' = IF release THEN used \ {p} ELSE used
      /\ live' = v /\ broken' = broken
  BY DEF KfreeBlock, Releases
<1>3. p \in PageSet /\ p \in used /\ c \in Caches /\ SlabSize[c] = header[p].slab_size
  <2>1. p \in PageSet
    BY <1>1 DEF Good, Types
  <2>2. p \in used
    BY <1>1, Extents
  <2> HIDE DEF p
  <2>3. \E d \in Caches : SlabSize[d] = header[p].slab_size
    BY <1>1, <1>2, <2>1, <2>2 DEF Good, PageGood, SlabGood
  <2> QED BY <2>1, <2>2, <2>3
<1> HIDE DEF c
<1>4. /\ Good(used, h, l, f, v) /\ p \in OfCache(used, header, c) /\ p \in OfCache(used, h, c)
  BY <1>1, <1>2, <1>3, GiveGood
<1>5. n \in Nat /\ left \in Nat
  BY <1>1, <1>3 DEF Headers
<1> HIDE DEF p
<1>6. header' = h
  BY <1>1, <1>2, <1>3 DEF Put, WithFree, Given
<1>7. h \in [PageSet -> Headers] /\ h[p].total_free = left /\ h[p].total = n
      /\ \A q \in PageSet : q # p => h[q] = header[q]
  <2>1. h \in [PageSet -> Headers]
    BY <1>4 DEF Good, Types
  <2> DEFINE list == <<SlabItem(e.addr, header[p].slab_size)>> \o header[p].free_list
  <2>2. h = [header EXCEPT ![p] = WithFree(header[p], list, left)]
    BY DEF Given, Put
  <2> HIDE DEF h, list
  <2>3. h[p] = WithFree(header[p], list, left) /\ header[p] \in Headers
        /\ \A q \in PageSet : q # p => h[q] = header[q]
    BY <1>1, <1>3, <2>2
  <2>4. h[p].total_free = left /\ h[p].total = n
    BY <2>3 DEF WithFree, Headers
  <2> QED BY <2>1, <2>3, <2>4
<1>8. Good(used', header', slab_list', total_free', live')
  <2>1. CASE release
    <3>1. GivenList(header, p, slab_list[c]) = slab_list[c]
      BY <2>1 DEF GivenList
    <3>2. slab_list' = Put(l, c, RemoveFirst(l[c], p))
      <4>1. l[c] = slab_list[c]
        BY <1>1, <1>3, <3>1 DEF Put
      <4>2. slab_list' = [slab_list EXCEPT ![c] = RemoveFirst(slab_list[c], p)]
        BY <1>2, <2>1 DEF Relist
      <4> DEFINE x == RemoveFirst(slab_list[c], p)
      <4> HIDE DEF x
      <4>3. slab_list' = [slab_list EXCEPT ![c] = x]
        BY <4>2 DEF x
      <4>4. l = [slab_list EXCEPT ![c] = slab_list[c]]
        BY <3>1 DEF Put
      <4> HIDE DEF l
      <4>5. Put(l, c, x) = slab_list'
        BY <1>1, <1>3, <4>3, <4>4 DEF Put
      <4> QED BY <4>1, <4>5 DEF x
    <3>3. total_free' = Plus(f, c, -h[p].total)
      <4> HIDE DEF n, h
      <4>1. total_free' = [total_free EXCEPT ![c] = @ + 1 - n]
        BY <1>2, <2>1 DEF CacheFree
      <4>2. f = [total_free EXCEPT ![c] = @ + 1]
        BY DEF Plus
      <4> HIDE DEF f
      <4>3. f \in [Caches -> Int] /\ f[c] = total_free[c] + 1 /\ \A d \in Caches : d # c => f[d] = total_free[d]
        BY <1>1, <1>3, <4>2
      <4>4. Plus(f, c, -n) = [f EXCEPT ![c] = @ + (-n)]
        BY DEF Plus
      <4>5. total_free' = Plus(f, c, -n)
        <5> HIDE DEF release, left, l, v
        <5>1. total_free[c] \in Int /\ n \in Int
          BY <1>1, <1>3, <1>5
        <5>2. total_free[c] + 1 - n = f[c] + (-n)
          BY <4>3, <5>1
        <5>3. total_free' = [d \in Caches |-> IF d = c THEN total_free[c] + 1 - n ELSE total_free[d]]
          BY <1>1, <4>1
        <5>4. Plus(f, c, -n) = [d \in Caches |-> IF d = c THEN f[c] + (-n) ELSE f[d]]
          BY <4>3, <4>4
        <5> QED BY <4>3, <5>2, <5>3, <5>4
      <4> QED BY <1>7, <4>5
    <3>4. used' = used \ {p}
      BY <1>2, <2>1
    <3> HIDE DEF h, l, f, v, n, left
    <3>5. Good(used \ {p}, h, Put(l, c, RemoveFirst(l[c], p)), Plus(f, c, -h[p].total), v)
      BY <1>3, <1>4, <1>7, <2>1, ReturnGood
    <3> QED BY <1>2, <1>6, <3>2, <3>3, <3>4, <3>5
  <2>2. CASE ~release
    <3>1. slab_list' = l
      <4>1. Relist(slab_list[c], p, left, release) = GivenList(header, p, slab_list[c])
        BY <2>2 DEF Relist, GivenList
      <4> QED BY <1>2, <4>1 DEF Put
    <3>2. total_free' = f
      BY <1>2, <2>2 DEF CacheFree, Plus
    <3>3. used' = used
      BY <1>2, <2>2
    <3> HIDE DEF h, l, f, v
    <3> QED BY <1>2, <1>4, <1>6, <3>1, <3>2, <3>3
  <2> QED BY <2>1, <2>2
<1>9. Quiet(S, used', header', live')
  <2>1. \A q : q # p => HeldIn(v, q) = HeldIn(live, q)
    BY DEF HeldIn, p
  <2> HIDE DEF h, v, n, left
  <2>2. HeldIn(v, p) = {} <=> left = n
    <3>1. p \in PageSet /\ h[p] \in Headers /\ SlabGood(p, c, h[p], HeldIn(v, p))
      BY <1>3, <1>4, SlabFacts
    <3> QED BY <1>3, <1>7, <3>1, AllFree
  <2>3. \A q \in used' : q # p => /\ q \in used /\ header'[q] = header[q]
                                  /\ HeldIn(live', q) = HeldIn(live, q)
    BY <1>1, <1>2, <1>6, <1>7, <2>1
  <2>4. p \in used' /\ HeldIn(live', p) = {} => header'[p].total = 1
    <3>1. SUFFICES ASSUME p \in used', HeldIn(live', p) = {} PROVE header'[p].total = 1
      OBVIOUS
    <3>2. left = n
      BY <1>2, <2>2, <3>1
    <3>3. ~release
      BY <1>2, <3>1
    <3>4. n = 1
      BY <3>2, <3>3
    <3> QED BY <1>6, <1>7, <3>4
  <2> QED BY <1>1, <2>3, <2>4 DEF Quiet
<1> QED
  BY <1>1, <1>2, <1>8, <1>9 DEF IInv

LEMMA KfreePageKeeps ==
  ASSUME IInv, NEW e \in live, KfreePage(e),
         NEW S, Quiet(S, used, header, live)
  PROVE  IInv' /\ Quiet(S, used', header', live')
<1> DEFINE p == PageOf(e.addr)
<1>1. /\ Good(used, header, slab_list, total_free, live) /\ Quiet(S, used, header, live)
      /\ broken \in BOOLEAN
  BY DEF IInv
<1>2. /\ ~header[p].magic /\ used' = used \ {p} /\ live' = live \ {e}
      /\ header' = header /\ slab_list' = slab_list /\ total_free' = total_free /\ broken' = broken
  BY DEF KfreePage
<1>3. Good(used', header', slab_list', total_free', live')
  BY <1>1, <1>2, PageFreeGood
<1>4. Quiet(S, used', header', live')
  <2>1. \A q : q # p => HeldIn(live', q) = HeldIn(live, q)
    BY <1>2 DEF HeldIn
  <2> HIDE DEF p
  <2> QED BY <1>1, <1>2, <2>1 DEF Quiet
<1> QED
  BY <1>1, <1>2, <1>3, <1>4 DEF IInv

\* A step keeps the invariant and leaves no slab without a client that had one.
LEMMA StepKeeps ==
  ASSUME IInv, [Next]_kvars, NEW S, Quiet(S, used, header, live)
  PROVE  IInv' /\ Quiet(S, used', header', live')
<1>1. Sizes \subseteq Nat
  BY Constants
<1>2. CASE UNCHANGED kvars
  BY <1>2 DEF IInv, kvars
<1>3. ASSUME NEW size \in Sizes, Kmalloc(size)
      PROVE  IInv' /\ Quiet(S, used', header', live')
  <2>1. size \in Nat
    BY <1>1
  <2>2. CASE KmallocPage(size)
    BY <2>1, <2>2, KmallocPageKeeps
  <2>3. CASE KmallocBlock(size)
    BY <2>1, <2>3, KmallocBlockKeeps
  <2>4. CASE KmallocNewSlab(size)
    BY <2>1, <2>4, KmallocNewSlabKeeps
  <2>5. CASE KmallocBreaks(size)
    BY <2>5 DEF KmallocBreaks, IInv
  <2>6. CASE KmallocNull(size)
    BY <2>6 DEF KmallocNull, IInv
  <2> QED
    BY <1>3, <2>2, <2>3, <2>4, <2>5, <2>6 DEF Kmalloc
<1>4. ASSUME NEW e \in live, KfreeBlock(e)
      PROVE  IInv' /\ Quiet(S, used', header', live')
  BY <1>4, KfreeBlockKeeps
<1>5. ASSUME NEW e \in live, KfreePage(e)
      PROVE  IInv' /\ Quiet(S, used', header', live')
  BY <1>5, KfreePageKeeps
<1> QED
  BY <1>2, <1>3, <1>4, <1>5 DEF Next

LEMMA StepIInv == IInv /\ [Next]_kvars => IInv'
<1>1. Quiet(used, used, header, live)
  BY DEF Quiet
<1> QED
  BY <1>1, StepKeeps

LEMMA Inductive == Spec => []IInv
<1> QED
  BY InitIInv, StepIInv, PTL DEF Spec
-----------------------------------------------------------------------------
(* The properties of the runs, for every number of pages and caches and    *)
(* every size of page, header and block.                                   *)

\* Every block of a slab is on its free list, once, or with one client, and no
\* block overlaps the slab's header or leaves its page, whatever sequence of
\* kmalloc and kfree led here.
THEOREM SlabsWhole == Spec => []BlocksPartition
<1>1. IInv => BlocksPartition
  <2> SUFFICES ASSUME IInv, NEW p \in Slabs
               PROVE  LET slab == header[p]
                          all == ToSet(Blocks(p, slab.slab_size))
                          out == {e.addr : e \in Held(p)}
                      IN  /\ IsInjective(slab.free_list)
                          /\ ToSet(slab.free_list) \cup out = all
                          /\ ToSet(slab.free_list) \cap out = {}
                          /\ \A e \in Held(p) : e.len = slab.slab_size
                          /\ \A a \in all : /\ a >= p * PageSize + HeaderSize
                                           /\ a + slab.slab_size <= (p + 1) * PageSize
    BY DEF BlocksPartition
  <2>1. p \in used /\ header[p].magic /\ p \in PageSet
    BY DEF Slabs, IInv, Good, Types
  <2>2. PICK c \in Caches : SlabGood(p, c, header[p], HeldIn(live, p))
    BY <2>1 DEF IInv, Good, PageGood
  <2>3. Held(p) = HeldIn(live, p) /\ header[p].slab_size = SlabSize[c]
    BY <2>2 DEF Held, HeldIn, SlabGood
  <2>4. \A a \in ToSet(Blocks(p, SlabSize[c])) :
          /\ a \in Nat /\ p * PageSize + HeaderSize <= a
          /\ a + SlabSize[c] <= (p + 1) * PageSize
    BY <2>1, BlocksFacts
  <2>5. p * PageSize + HeaderSize \in Int
    BY <2>1, Constants DEF PageSet
  <2>6. \A a \in ToSet(Blocks(p, SlabSize[c])) :
          a >= p * PageSize + HeaderSize /\ a + SlabSize[c] <= (p + 1) * PageSize
    BY <2>4, <2>5
  <2>7. /\ IsInjective(header[p].free_list)
        /\ ToSet(header[p].free_list) \cup {e.addr : e \in Held(p)} = ToSet(Blocks(p, SlabSize[c]))
        /\ ToSet(header[p].free_list) \cap {e.addr : e \in Held(p)} = {}
        /\ \A e \in Held(p) : e.len = SlabSize[c]
    BY <2>2, <2>3 DEF SlabGood
  <2> QED
    BY <2>3, <2>6, <2>7
<1> QED
  BY <1>1, Inductive, PTL

LEMMA SlabsOfCache == \A c \in Caches : SlabsOf(c) = OfCache(used, header, c)
BY DEF SlabsOf, Slabs, OfCache

\* slab_alloc takes the head of its cache's list without looking at the counter
\* of that slab: the list holds exactly the slabs with a free block.
THEOREM ListsRight == Spec => []ListedIffFree
<1>1. IInv => ListedIffFree
  BY SlabsOfCache DEF IInv, Good, ListGood, ListedIffFree
<1> QED
  BY <1>1, Inductive, PTL

\* The counters that decide when a slab is listed, unlisted and given back are
\* those of the blocks that are free: in the slab, and in all slabs of the cache.
THEOREM CountersRight == Spec => []CountersExact
<1>1. ASSUME IInv PROVE \A p \in Slabs : header[p].total_free = Len(header[p].free_list)
  <2> SUFFICES ASSUME NEW p \in Slabs PROVE header[p].total_free = Len(header[p].free_list)
    OBVIOUS
  <2>1. p \in used /\ header[p].magic /\ p \in PageSet
    BY <1>1 DEF Slabs, IInv, Good, Types
  <2>2. PICK c \in Caches : SlabGood(p, c, header[p], HeldIn(live, p))
    BY <1>1, <2>1 DEF IInv, Good, PageGood
  <2> QED
    BY <2>2 DEF SlabGood
<1>2. ASSUME IInv, NEW c \in Caches
      PROVE  total_free[c] = Cardinality(UNION {ToSet(header[p].free_list) : p \in SlabsOf(c)})
  BY <1>2, SlabsOfCache DEF IInv, Good, CountGood, FreeOf
<1>3. IInv => CountersExact
  BY <1>1, <1>2 DEF CountersExact
<1> QED
  BY <1>3, Inductive, PTL

\* kfree gives a block back to its slab and a page to the page allocator, never
\* the other way round: the magic number it looks at is right for all it is given.
THEOREM DispatchRight == Spec => []KfreeDispatch
<1>1. IInv => KfreeDispatch
  <2> SUFFICES ASSUME IInv PROVE KfreeDispatch
    OBVIOUS
  <2>1. Good(used, header, slab_list, total_free, live)
    BY DEF IInv
  <2> QED
    BY <2>1, Extents DEF KfreeDispatch
<1> QED
  BY <1>1, Inductive, PTL

\* The step that takes a slab's last client away gives its page back, unless the
\* slab holds one block; no step makes a slab without a client.
THEOREM PagesComeBack == Spec => NoHoarding
<1> DEFINE idle == {p \in Slabs : Held(p) = {}}
<1>1. IInv /\ [Next]_kvars =>
        [\A p \in Slabs' : Held(p)' = {} =>
           (p \in Slabs /\ Held(p) = {}) \/ header'[p].total = 1]_kvars
  <2> SUFFICES ASSUME IInv, [Next]_kvars, NEW p \in Slabs', Held(p)' = {}
               PROVE  (p \in Slabs /\ Held(p) = {}) \/ header'[p].total = 1
    OBVIOUS
  <2>1. Quiet(idle, used, header, live)
    BY DEF Quiet, Slabs, Held, HeldIn
  <2>2. p \in used' /\ header'[p].magic /\ HeldIn(live', p) = {}
    BY DEF Slabs, Held, HeldIn, PageOf
  <2>3. Quiet(idle, used', header', live')
    <3> HIDE DEF idle
    <3> QED BY <2>1, StepKeeps
  <2> QED
    BY <2>2, <2>3 DEF Quiet
<1> QED
  BY <1>1, Inductive, PTL DEF Spec, NoHoarding
-----------------------------------------------------------------------------
(* kmalloc and kfree implement the abstract heap: what a step grants is an *)
(* extent of its own because the invariant holds in the state it leads to. *)

LEMMA GrantIsAlloc ==
  ASSUME IInv', NEW size \in Nat, size <= PageSize, asked' = size,
         ~broken, broken' = broken, Grants(size)
  PROVE  H!HeapAlloc(size)
<1> DEFINE top == NumPages * PageSize
<1>1. PICK e : e \notin live /\ live' = live \cup {e} /\ e.len >= size
  BY DEF Grants
<1>2. Good(used', header', slab_list', total_free', live')
  BY DEF IInv
<1>3. e \in live' /\ live \subseteq live' /\ e \in live' \ live
  BY <1>1
<1>4. /\ e.addr \in Nat /\ e.len \in Nat /\ e.len >= 1
      /\ e.addr + e.len <= top /\ e.addr % e.len = 0
  BY <1>2, <1>3, Extents
<1>5. ASSUME NEW g \in live PROVE H!Disjoint(e, g)
  <2>1. g \in live' /\ e # g
    BY <1>1, <1>3
  <2>2. g.addr \in Nat /\ g.len \in Nat
    BY <1>2, <2>1, Extents
  <2>3. e.addr + e.len <= g.addr \/ g.addr + g.len <= e.addr
    BY <1>2, <1>3, <2>1, Extents
  <2> QED
    BY <1>4, <2>2, <2>3 DEF H!Disjoint, H!Cells
<1>6. top \in Nat
  BY Constants
<1> HIDE DEF top
<1>7. e.addr \in 0 .. top /\ e.len \in 1 .. top
  BY <1>4, <1>6
<1> QED
  BY <1>1, <1>3, <1>4, <1>5, <1>7 DEF H!HeapAlloc, top

LEMMA StepImplements == IInv /\ IInv' /\ [Next]_kvars => [H!HeapNext]_(H!hvars)
<1> SUFFICES ASSUME IInv, IInv', [Next]_kvars PROVE [H!HeapNext]_(H!hvars)
  OBVIOUS
<1>1. CASE UNCHANGED kvars
  BY <1>1 DEF kvars, H!hvars
<1>2. ASSUME NEW size \in Sizes, Kmalloc(size) PROVE H!HeapNext
  <2>1. size \in Nat /\ MaxSlabSize \in Nat /\ MaxSlabSize <= PageSize /\ PageSize \in Nat
    BY Constants DEF MaxSlabSize, Caches
  <2>2. asked' = size
    BY <1>2 DEF Kmalloc
  <2>3. Quiet(used, used, header, live)
    BY DEF Quiet
  <2>4. ASSUME size <= PageSize, ~broken, broken' = broken, Grants(size)
        PROVE  H!HeapNext
    BY <2>1, <2>2, <2>4, GrantIsAlloc DEF H!HeapNext
  <2>5. CASE KmallocPage(size)
    BY <2>1, <2>3, <2>4, <2>5, KmallocPageKeeps DEF KmallocPage
  <2>6. CASE KmallocBlock(size)
    <3>1. size <= PageSize /\ ~broken /\ broken' = broken
      BY <2>1, <2>6 DEF KmallocBlock
    <3> QED BY <2>1, <2>3, <2>4, <2>6, <3>1, KmallocBlockKeeps
  <2>7. CASE KmallocNewSlab(size)
    <3>1. size <= PageSize /\ ~broken /\ broken' = broken
      BY <2>1, <2>7 DEF KmallocNewSlab
    <3> QED BY <2>1, <2>3, <2>4, <2>7, <3>1, KmallocNewSlabKeeps
  <2>8. CASE KmallocBreaks(size)
    BY <2>2, <2>8 DEF KmallocBreaks, H!HeapNext, H!HeapBreak
  <2>9. CASE KmallocNull(size)
    BY <2>2, <2>9 DEF KmallocNull, H!HeapNext, H!HeapRefuse
  <2> QED
    BY <1>2, <2>5, <2>6, <2>7, <2>8, <2>9 DEF Kmalloc
<1>3. ASSUME NEW e \in live, KfreeBlock(e) \/ KfreePage(e) PROVE H!HeapNext
  BY <1>3 DEF KfreeBlock, KfreePage, H!HeapNext, H!HeapFree
<1> QED
  BY <1>1, <1>2, <1>3 DEF Next

\* Every behaviour of kmalloc and kfree over the slab caches is one of the heap
\* that only knows the extents and the size last asked for: a request of up to a
\* page is granted until the pages run out, by an extent of at least that size,
\* aligned, inside the pool and apart from all others; a larger one is refused;
\* each kfree ends one extent.
THEOREM KmallocImplementsHeap == Spec => ImplementsHeap
<1>1. Init => H!HeapInit
  BY DEF Init, H!HeapInit
<1> QED
  BY <1>1, Inductive, StepImplements, PTL DEF Spec, ImplementsHeap, H!HeapSpec

\* The abstract heap keeps the extents apart that are held at the same time.
THEOREM HeapNoOverlap == H!HeapSpec => []H!NoOverlap
<1>1. H!HeapInit => H!NoOverlap
  BY DEF H!HeapInit, H!NoOverlap
<1>2. H!NoOverlap /\ [H!HeapNext]_(H!hvars) => H!NoOverlap'
  <2> SUFFICES ASSUME H!NoOverlap, [H!HeapNext]_(H!hvars) PROVE H!NoOverlap'
    OBVIOUS
  <2>1. ASSUME NEW size \in Sizes, H!HeapAlloc(size) PROVE H!NoOverlap'
    <3>1. PICK e : live' = live \cup {e} /\ \A f \in live : H!Disjoint(e, f)
      BY <2>1 DEF H!HeapAlloc
    <3>2. \A f \in live : H!Disjoint(f, e)
      BY <3>1 DEF H!Disjoint
    <3> QED
      BY <3>1, <3>2 DEF H!NoOverlap
  <2>2. CASE H!HeapFree
    BY <2>2 DEF H!HeapFree, H!NoOverlap
  <2>3. ASSUME NEW size \in Sizes, H!HeapBreak(size) \/ H!HeapRefuse(size)
        PROVE  H!NoOverlap'
    BY <2>3 DEF H!HeapBreak, H!HeapRefuse, H!NoOverlap
  <2>4. CASE UNCHANGED H!hvars
    BY <2>4 DEF H!NoOverlap, H!hvars
  <2> QED
    BY <2>1, <2>2, <2>3, <2>4 DEF H!HeapNext
<1> QED
  BY <1>1, <1>2, PTL DEF H!HeapSpec

\* What the refinement is for: no two pointers kmalloc has given out and kfree
\* has not taken back address a common unit of memory.
THEOREM ClientsApart == Spec => []H!NoOverlap
<1> QED
  BY KmallocImplementsHeap, HeapNoOverlap, PTL DEF ImplementsHeap
=============================================================================
