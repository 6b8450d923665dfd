------------------------------ MODULE Lib_proofs -----------------------------
(***************************************************************************)
(* kernel/lib: bitmap_scan returns the first free run for every map and    *)
(* every request; the lists stay well linked, and do what operations on    *)
(* sequences do, for every number of lists and nodes.                      *)
(***************************************************************************)
EXTENDS BitmapScan, LinkedList, Bitmap_proofs, FiniteSetTheorems, SequenceTheorems

-----------------------------------------------------------------------------
(* bitmap_scan. *)

USE ByteBitsAssumption, BytesLenAssumption, MaxCntAssumption

ScanInv == TypeOK /\ LoopInv /\ FindsFirstRun

\* A start that fits and is below every other start that fits is the value of
\* Scan.
LEMMA ScanIsFirst ==
  ASSUME NEW S, NEW n \in Nat, NEW c \in Nat \ {0}, NEW s \in 0 .. (n - 1),
         RunFree(S, n, s, c),
         \A t \in 0 .. (s - 1) : ~RunFree(S, n, t, c)
  PROVE  Scan(S, n, c) = s
<1> DEFINE runs == FreeRuns(S, n, c)
<1>1. s \in runs
  BY DEF FreeRuns
<1>2. \A t \in runs : t \in 0 .. (n - 1) /\ s <= t
  BY DEF FreeRuns
<1>3. (CHOOSE r \in runs : \A t \in runs : r <= t) = s
  <2>1. \A r \in runs : (\A t \in runs : r <= t) => r = s
    BY <1>1, <1>2
  <2>2. \A t \in runs : s <= t
    BY <1>2
  <2> HIDE DEF runs
  <2> QED
    BY <1>1, <2>1, <2>2, Zenon
<1> QED
  BY <1>1, <1>3 DEF Scan

\* No start fits: Scan reports it.
LEMMA ScanNotFound ==
  ASSUME NEW S, NEW n \in Nat, NEW c \in Nat,
         \A t \in 0 .. (n - 1) : ~RunFree(S, n, t, c)
  PROVE  Scan(S, n, c) = NotFound
BY DEF Scan, FreeRuns

\* The bit about to be read lies in the map while a byte is left.
LEMMA BitIndexRange ==
  ASSUME TypeOK
  PROVE  /\ Bits \in Nat
         /\ bit_index \in Nat
         /\ byte_i < BytesLen => bit_index < Bits
         /\ byte_i < BytesLen => byte_i * ByteBits + ByteBits <= Bits
         /\ byte_i = BytesLen /\ bit = 0 => bit_index = Bits
<1>1. Bits \in Nat /\ byte_i * ByteBits \in Nat
  BY DEF TypeOK, Bits
<1>2. ASSUME byte_i < BytesLen
      PROVE  byte_i * ByteBits + ByteBits <= Bits
  <2>1. byte_i + 1 <= BytesLen
    BY <1>2 DEF TypeOK
  <2>2. (byte_i + 1) * ByteBits <= BytesLen * ByteBits
    BY <2>1 DEF TypeOK
  <2>3. (byte_i + 1) * ByteBits = byte_i * ByteBits + ByteBits
    BY DEF TypeOK
  <2> QED
    BY <2>2, <2>3 DEF Bits
<1> QED
  BY <1>1, <1>2 DEF TypeOK, Bits, bit_index

\* The increments of the loop move to the next bit of the map.
LEMMA NextBitAdvances ==
  ASSUME TypeOK, NextBit, byte_i < BytesLen
  PROVE  /\ byte_i' \in 0 .. BytesLen
         /\ bit' \in 0 .. (ByteBits - 1)
         /\ byte_i' = BytesLen => bit' = 0
         /\ byte_i' * ByteBits + bit' = bit_index + 1
<1>1. CASE bit + 1 = ByteBits
  <2>1. (byte_i + 1) * ByteBits = byte_i * ByteBits + ByteBits
    BY DEF TypeOK
  <2> QED
    BY <1>1, <2>1 DEF TypeOK, NextBit, bit_index
<1>2. CASE bit + 1 # ByteBits
  BY <1>2 DEF TypeOK, NextBit, bit_index
<1> QED
  BY <1>1, <1>2

LEMMA ScanInitInv == ScanInit => ScanInv
<1> SUFFICES ASSUME ScanInit PROVE ScanInv
  OBVIOUS
<1>1. Bits \in Nat
  BY DEF Bits
<1>2. TypeOK
  BY <1>1 DEF ScanInit, TypeOK, NotFound
<1>3. LoopInv
  BY <1>1, <1>2 DEF ScanInit, LoopInv, TypeOK, bit_index
<1>4. FindsFirstRun
  BY DEF ScanInit, FindsFirstRun, Scan
<1> QED
  BY <1>2, <1>3, <1>4 DEF ScanInv

LEMMA ScanStepInv == ScanInv /\ [ScanNext]_scan_vars => ScanInv'
<1> SUFFICES ASSUME ScanInv, [ScanNext]_scan_vars PROVE ScanInv'
  OBVIOUS
<1> USE DEF ScanInv
<1>0. /\ Bits \in Nat /\ bit_index \in Nat
      /\ byte_i < BytesLen => bit_index < Bits
      /\ byte_i < BytesLen => byte_i * ByteBits + ByteBits <= Bits
      /\ byte_i = BytesLen /\ bit = 0 => bit_index = Bits
  BY BitIndexRange
<1>1. CASE SkipByte
  <2>1. byte_i < BytesLen /\ bit = 0 /\ pc = "scan" /\ pc' = "scan"
        /\ byte_i' = byte_i + 1 /\ bit' = 0 /\ zero_count' = 0
        /\ used' = used /\ cnt' = cnt /\ start_bit' = start_bit /\ result' = result
    BY <1>1 DEF SkipByte, FullByte
  <2>2. (byte_i + 1) * ByteBits = byte_i * ByteBits + ByteBits
    BY DEF TypeOK
  <2>3. bit_index' = bit_index + ByteBits
    BY <2>1, <2>2 DEF bit_index, TypeOK
  <2>4. TypeOK'
    BY <2>1 DEF TypeOK, Bits
  <2>5. ASSUME NEW s \in 0 .. (bit_index' - zero_count' - 1)
        PROVE  ~RunFree(used, Bits, s, cnt)
    <3>1. CASE s < bit_index - zero_count
      <4>1. s \in 0 .. (bit_index - zero_count - 1)
        BY <3>1, <1>0, <2>1, <2>3 DEF TypeOK
      <4> QED
        BY <4>1, <2>1 DEF LoopInv
    <3>2. CASE s >= bit_index - zero_count
      \* the run would have to include the first bit of the skipped byte, or
      \* starts inside that byte
      <4> DEFINE j == IF s < bit_index THEN bit_index ELSE s
      <4>1. j \in bit_index .. (bit_index + ByteBits - 1)
        BY <1>0, <2>1, <2>3, <3>2 DEF TypeOK
      <4>2. j \in used
        BY <4>1, <2>1, <1>1 DEF SkipByte, FullByte, bit_index, TypeOK
      <4>3. j \in s .. (s + cnt - 1)
        BY <1>0, <2>1, <2>3, <3>2 DEF LoopInv, TypeOK
      <4> QED
        BY <4>2, <4>3 DEF RunFree
    <3> QED
      BY <3>1, <3>2, <1>0, <2>3, <2>1 DEF TypeOK
  <2>6. LoopInv'
    BY <2>1, <2>3, <2>5, <1>0 DEF LoopInv, TypeOK, Bits
  <2>7. FindsFirstRun'
    BY <2>1 DEF FindsFirstRun
  <2> QED
    BY <2>4, <2>6, <2>7
<1>2. CASE UsedBit
  <2>1. byte_i < BytesLen /\ pc = "scan" /\ pc' = "scan"
        /\ bit_index \in used /\ zero_count' = 0
        /\ used' = used /\ cnt' = cnt /\ start_bit' = start_bit /\ result' = result
    BY <1>2 DEF UsedBit
  <2>2. /\ byte_i' \in 0 .. BytesLen /\ bit' \in 0 .. (ByteBits - 1)
        /\ byte_i' = BytesLen => bit' = 0
        /\ bit_index' = bit_index + 1
    BY <1>2, <2>1, NextBitAdvances DEF UsedBit, bit_index
  <2>3. TypeOK'
    BY <2>1, <2>2 DEF TypeOK, Bits
  <2>4. ASSUME NEW s \in 0 .. (bit_index' - zero_count' - 1)
        PROVE  ~RunFree(used, Bits, s, cnt)
    <3>1. CASE s < bit_index - zero_count
      <4>1. s \in 0 .. (bit_index - zero_count - 1)
        BY <3>1, <1>0, <2>1, <2>2 DEF TypeOK
      <4> QED
        BY <4>1, <2>1 DEF LoopInv
    <3>2. CASE s >= bit_index - zero_count
      <4>1. bit_index \in s .. (s + cnt - 1)
        BY <1>0, <2>1, <2>2, <3>2 DEF LoopInv, TypeOK
      <4> QED
        BY <4>1, <2>1 DEF RunFree
    <3> QED
      BY <3>1, <3>2, <1>0, <2>2, <2>1 DEF TypeOK
  <2>5. LoopInv'
    BY <2>1, <2>2, <2>4, <1>0 DEF LoopInv, TypeOK, Bits
  <2>6. FindsFirstRun'
    BY <2>1 DEF FindsFirstRun
  <2> QED
    BY <2>3, <2>5, <2>6
<1>3. CASE FreeBit
  <2>1. /\ byte_i < BytesLen /\ pc = "scan" /\ bit_index \notin used
        /\ start_bit' = IF zero_count = 0 THEN bit_index ELSE start_bit
        /\ zero_count' = zero_count + 1
        /\ used' = used /\ cnt' = cnt
    BY <1>3 DEF FreeBit
  <2>2. /\ zero_count < cnt /\ zero_count <= bit_index
        /\ start_bit' = bit_index - zero_count
    BY <2>1, <1>0 DEF LoopInv, TypeOK
  <2>3. CASE zero_count' = cnt
    <3>1. result' = start_bit' /\ pc' = "done" /\ byte_i' = byte_i /\ bit' = bit
      BY <1>3, <2>3 DEF FreeBit
    <3>2. TypeOK'
      BY <2>1, <2>2, <3>1, <1>0 DEF TypeOK, Bits
    <3>3. RunFree(used, Bits, start_bit', cnt)
      BY <2>1, <2>2, <2>3, <1>0 DEF RunFree, LoopInv, TypeOK
    <3>4. Scan(used, Bits, cnt) = start_bit'
      <4>1. \A t \in 0 .. (start_bit' - 1) : ~RunFree(used, Bits, t, cnt)
        BY <2>1, <2>2 DEF LoopInv
      <4>2. start_bit' \in 0 .. (Bits - 1) /\ cnt \in Nat \ {0}
        BY <2>1, <2>2, <1>0 DEF TypeOK
      <4> QED
        BY <4>1, <4>2, <3>3, <1>0, ScanIsFirst
    <3>5. FindsFirstRun'
      BY <3>1, <3>4, <2>1 DEF FindsFirstRun, Bits
    <3>6. LoopInv'
      BY <3>1 DEF LoopInv
    <3> QED
      BY <3>2, <3>5, <3>6
  <2>4. CASE zero_count' # cnt
    <3>1. NextBit /\ result' = result /\ pc' = "scan"
      BY <1>3, <2>1, <2>4 DEF FreeBit
    <3>2. /\ byte_i' \in 0 .. BytesLen /\ bit' \in 0 .. (ByteBits - 1)
          /\ byte_i' = BytesLen => bit' = 0
          /\ bit_index' = bit_index + 1
      BY <3>1, <2>1, NextBitAdvances DEF bit_index
    <3>3. TypeOK'
      BY <2>1, <2>2, <3>1, <3>2, <1>0 DEF TypeOK, Bits
    <3>4. LoopInv'
      BY <2>1, <2>2, <2>4, <3>1, <3>2, <1>0 DEF LoopInv, TypeOK, Bits
    <3>5. FindsFirstRun'
      BY <3>1 DEF FindsFirstRun
    <3> QED
      BY <3>3, <3>4, <3>5
  <2> QED
    BY <2>3, <2>4
<1>4. CASE GiveUp
  <2>1. /\ pc = "scan" /\ byte_i = BytesLen /\ result' = NotFound /\ pc' = "done"
        /\ used' = used /\ cnt' = cnt /\ byte_i' = byte_i /\ bit' = bit
        /\ zero_count' = zero_count /\ start_bit' = start_bit
    BY <1>4 DEF GiveUp
  <2>2. TypeOK' /\ LoopInv'
    BY <2>1 DEF TypeOK, LoopInv, Bits, NotFound
  <2>3. ASSUME NEW t \in 0 .. (Bits - 1)
        PROVE  ~RunFree(used, Bits, t, cnt)
    <3>1. bit_index = Bits /\ zero_count < cnt
      BY <2>1, <1>0 DEF LoopInv
    <3>2. CASE t < bit_index - zero_count
      <4>1. t \in 0 .. (bit_index - zero_count - 1)
        BY <3>2, <1>0 DEF TypeOK
      <4> QED
        BY <4>1, <2>1 DEF LoopInv
    <3>3. CASE t >= bit_index - zero_count
      BY <3>1, <3>3, <1>0 DEF RunFree, TypeOK
    <3> QED
      BY <3>2, <3>3, <1>0 DEF TypeOK
  <2>4. Scan(used, Bits, cnt) = NotFound
    BY <2>3, <1>0, ScanNotFound DEF TypeOK
  <2> QED
    BY <2>1, <2>2, <2>4 DEF FindsFirstRun, Bits
<1>5. CASE Returned \/ UNCHANGED scan_vars
  BY <1>5 DEF Returned, scan_vars, TypeOK, LoopInv, FindsFirstRun, bit_index, Bits
<1> QED
  BY <1>1, <1>2, <1>3, <1>4, <1>5 DEF ScanNext

\* Whatever the map and the request, a call of bitmap_scan that returns gives
\* the start of the first free run, or -1 when there is none.
THEOREM ScanCorrect == ScanSpec => []FindsFirstRun
<1>1. ScanInv => FindsFirstRun
  BY DEF ScanInv
<1> QED
  BY ScanInitInv, ScanStepInv, <1>1, PTL DEF ScanSpec
-----------------------------------------------------------------------------
(* The lists. *)

\* Sentinels of different lists, and sentinels and nodes, are different cells.
LEMMA CellFacts ==
  /\ NULL \notin Cells
  /\ \A l \in ListIds : HeadOf(l) \in Cells /\ TailOf(l) \in Cells
  /\ \A l \in ListIds : HeadOf(l) \notin NodeIds /\ TailOf(l) \notin NodeIds
  /\ \A l, m \in ListIds : HeadOf(l) # TailOf(m)
  /\ \A l, m \in ListIds : l # m => HeadOf(l) # HeadOf(m) /\ TailOf(l) # TailOf(m)
  /\ NodeIds \subseteq Cells
BY CellsAssumption DEF Cells, Heads, Tails, HeadOf, TailOf

\* WellLinked for one list.
Chain(l) ==
  /\ \A c \in NodesOn(l) \cup {HeadOf(l)} :
       next[c] \in NodesOn(l) \cup {TailOf(l)} /\ prev[next[c]] = c
  /\ \A c \in NodesOn(l) \cup {TailOf(l)} :
       prev[c] \in NodesOn(l) \cup {HeadOf(l)} /\ next[prev[c]] = c

Links == /\ next \in [Cells -> Cells \cup {NULL}]
         /\ prev \in [Cells -> Cells \cup {NULL}]
         /\ on \in [NodeIds -> ListIds \cup {NULL}]
ListInv == Links /\ \A l \in ListIds : Chain(l)

\* The cells of two lists are disjoint.
LEMMA NodesApart ==
  ASSUME Links, NEW l \in ListIds, NEW m \in ListIds, l # m
  PROVE  NodesOn(l) \cap NodesOn(m) = {}
BY DEF Links, NodesOn

\* insert_before keeps every list a chain.
LEMMA InsertKeeps ==
  ASSUME ListInv, NEW l \in ListIds, NEW node \in NodeIds, on[node] = NULL,
         NEW before \in NodesOn(l) \cup {TailOf(l)},
         InsertBefore(before, node), on' = [on EXCEPT ![node] = l]
  PROVE  ListInv'
<1> DEFINE back == prev[before]
<1>1. /\ node \in Cells /\ before \in Cells /\ before # node
      /\ back \in NodesOn(l) \cup {HeadOf(l)} /\ back \in Cells /\ back # node
      /\ next[back] = before
  BY CellFacts, CellsAssumption DEF ListInv, Chain, NodesOn, Links
<1>2. /\ next' = [next EXCEPT ![node] = before, ![back] = node]
      /\ prev' = [prev EXCEPT ![node] = back, ![before] = node]
  BY DEF InsertBefore
<1> HIDE DEF back
<1>3. Links'
  BY <1>1, <1>2 DEF Links, ListInv
<1>4. /\ next'[node] = before /\ next'[back] = node
      /\ \A c \in Cells : c # node /\ c # back => next'[c] = next[c]
      /\ prev'[node] = back /\ prev'[before] = node
      /\ \A c \in Cells : c # node /\ c # before => prev'[c] = prev[c]
  BY <1>1, <1>2 DEF Links, ListInv
<1>5. /\ NodesOn(l)' = NodesOn(l) \cup {node}
      /\ \A m \in ListIds : m # l => NodesOn(m)' = NodesOn(m)
      /\ \A m \in ListIds : node \notin NodesOn(m) /\ NodesOn(m) \subseteq NodeIds
  BY CellsAssumption DEF NodesOn, Links, ListInv
<1>6. Chain(l)'
  <2> SUFFICES /\ \A c \in NodesOn(l)' \cup {HeadOf(l)} :
                    next'[c] \in NodesOn(l)' \cup {TailOf(l)} /\ prev'[next'[c]] = c
               /\ \A c \in NodesOn(l)' \cup {TailOf(l)} :
                    prev'[c] \in NodesOn(l)' \cup {HeadOf(l)} /\ next'[prev'[c]] = c
    BY DEF Chain, HeadOf, TailOf
  <2>1. ASSUME NEW c \in NodesOn(l)' \cup {HeadOf(l)}
        PROVE  next'[c] \in NodesOn(l)' \cup {TailOf(l)} /\ prev'[next'[c]] = c
    <3>1. CASE c = node
      BY <3>1, <1>4, <1>5
    <3>2. CASE c = back
      BY <3>2, <1>4, <1>5
    <3>3. CASE c # node /\ c # back
      <4>1. c \in NodesOn(l) \cup {HeadOf(l)} /\ c \in Cells
        BY <3>3, <1>5, CellFacts
      <4>2. next[c] \in NodesOn(l) \cup {TailOf(l)} /\ prev[next[c]] = c
        BY <4>1 DEF ListInv, Chain
      <4>3. next[c] # before /\ next[c] # node /\ next[c] \in Cells
        BY <4>2, <3>3, <1>5, CellFacts DEF back
      <4> QED
        BY <3>3, <4>1, <4>2, <4>3, <1>4, <1>5
    <3> QED
      BY <3>1, <3>2, <3>3
  <2>2. ASSUME NEW c \in NodesOn(l)' \cup {TailOf(l)}
        PROVE  prev'[c] \in NodesOn(l)' \cup {HeadOf(l)} /\ next'[prev'[c]] = c
    <3>1. CASE c = node
      BY <3>1, <1>1, <1>4, <1>5
    <3>2. CASE c = before
      BY <3>2, <1>4, <1>5
    <3>3. CASE c # node /\ c # before
      <4>1. c \in NodesOn(l) \cup {TailOf(l)} /\ c \in Cells
        BY <3>3, <1>5, CellFacts
      <4>2. prev[c] \in NodesOn(l) \cup {HeadOf(l)} /\ next[prev[c]] = c
        BY <4>1 DEF ListInv, Chain
      <4>3. prev[c] # back /\ prev[c] # node /\ prev[c] \in Cells
        BY <4>2, <3>3, <1>1, <1>5, CellFacts
      <4> QED
        BY <3>3, <4>1, <4>2, <4>3, <1>4, <1>5
    <3> QED
      BY <3>1, <3>2, <3>3
  <2> QED
    BY <2>1, <2>2
<1>7. ASSUME NEW m \in ListIds, m # l PROVE Chain(m)'
  <2>1. /\ \A c \in NodesOn(m) \cup {HeadOf(m), TailOf(m)} :
             c \in Cells /\ c # node /\ c # back /\ c # before
    BY <1>1, <1>5, <1>7, NodesApart, CellFacts DEF ListInv
  <2>2. Chain(m) /\ NodesOn(m)' = NodesOn(m)
    BY <1>5, <1>7 DEF ListInv
  <2>3. \A c \in NodesOn(m) \cup {HeadOf(m), TailOf(m)} :
          next'[c] = next[c] /\ prev'[c] = prev[c]
    BY <2>1, <1>4
  <2> QED
    BY <2>2, <2>3 DEF Chain, HeadOf, TailOf
<1> QED
  BY <1>3, <1>6, <1>7 DEF ListInv
\* list_remove keeps every list a chain; the node's own links dangle.
LEMMA RemoveKeeps ==
  ASSUME ListInv, NEW l \in ListIds, NEW node \in NodesOn(l),
         ListRemove(node), on' = [on EXCEPT ![node] = NULL]
  PROVE  ListInv'
<1> DEFINE back == prev[node]
           ahead == next[node]
<1>1. /\ node \in Cells /\ node \in NodeIds
      /\ ahead \in NodesOn(l) \cup {TailOf(l)} /\ prev[ahead] = node
      /\ back \in NodesOn(l) \cup {HeadOf(l)} /\ next[back] = node
      /\ back \in Cells /\ ahead \in Cells
      /\ (ahead = node <=> back = node)
  BY CellFacts DEF ListInv, Chain, NodesOn
<1>2. /\ next' = [next EXCEPT ![back] = ahead]
      /\ prev' = [prev EXCEPT ![ahead] = back]
  BY DEF ListRemove
<1>3. \A c \in Cells : (next[c] = ahead /\ prev[next[c]] = c => c = node)
                    /\ (prev[c] = back /\ next[prev[c]] = c => c = node)
                    /\ (next[c] = node /\ prev[next[c]] = c => c = back)
                    /\ (prev[c] = node /\ next[prev[c]] = c => c = ahead)
  BY <1>1
<1> HIDE DEF back, ahead
<1>4. Links'
  BY <1>1, <1>2 DEF Links, ListInv
<1>5. /\ next'[back] = ahead /\ prev'[ahead] = back
      /\ \A c \in Cells : c # back => next'[c] = next[c]
      /\ \A c \in Cells : c # ahead => prev'[c] = prev[c]
  BY <1>1, <1>2 DEF Links, ListInv
<1>6. /\ NodesOn(l)' = NodesOn(l) \ {node}
      /\ \A m \in ListIds : m # l => NodesOn(m)' = NodesOn(m)
      /\ \A m \in ListIds : NodesOn(m) \subseteq NodeIds
  BY <1>1, CellsAssumption DEF NodesOn, Links, ListInv
<1>7. Chain(l)'
  <2> SUFFICES /\ \A c \in NodesOn(l)' \cup {HeadOf(l)} :
                    next'[c] \in NodesOn(l)' \cup {TailOf(l)} /\ prev'[next'[c]] = c
               /\ \A c \in NodesOn(l)' \cup {TailOf(l)} :
                    prev'[c] \in NodesOn(l)' \cup {HeadOf(l)} /\ next'[prev'[c]] = c
    BY DEF Chain, HeadOf, TailOf
  <2>1. ASSUME NEW c \in NodesOn(l)' \cup {HeadOf(l)}
        PROVE  next'[c] \in NodesOn(l)' \cup {TailOf(l)} /\ prev'[next'[c]] = c
    <3>1. c \in NodesOn(l) \cup {HeadOf(l)} /\ c \in Cells /\ c # node
      BY <1>1, <1>6, CellFacts
    <3>2. /\ next[c] \in NodesOn(l) \cup {TailOf(l)} /\ prev[next[c]] = c
          /\ next[c] \in Cells
      BY <3>1, <1>6, CellFacts DEF ListInv, Chain
    <3>3. CASE c = back
      BY <3>1, <3>3, <1>1, <1>5, <1>6, CellFacts
    <3>4. CASE c # back
      BY <3>1, <3>2, <3>4, <1>1, <1>3, <1>5, <1>6, CellFacts
    <3> QED
      BY <3>3, <3>4
  <2>2. ASSUME NEW c \in NodesOn(l)' \cup {TailOf(l)}
        PROVE  prev'[c] \in NodesOn(l)' \cup {HeadOf(l)} /\ next'[prev'[c]] = c
    <3>1. c \in NodesOn(l) \cup {TailOf(l)} /\ c \in Cells /\ c # node
      BY <1>1, <1>6, CellFacts
    <3>2. /\ prev[c] \in NodesOn(l) \cup {HeadOf(l)} /\ next[prev[c]] = c
          /\ prev[c] \in Cells
      BY <3>1, <1>6, CellFacts DEF ListInv, Chain
    <3>3. CASE c = ahead
      BY <3>1, <3>3, <1>1, <1>5, <1>6, CellFacts
    <3>4. CASE c # ahead
      BY <3>1, <3>2, <3>4, <1>1, <1>3, <1>5, <1>6, CellFacts
    <3> QED
      BY <3>3, <3>4
  <2> QED
    BY <2>1, <2>2
<1>8. ASSUME NEW m \in ListIds, m # l PROVE Chain(m)'
  <2>1. \A c \in NodesOn(m) \cup {HeadOf(m), TailOf(m)} :
          c \in Cells /\ c # back /\ c # ahead
    BY <1>1, <1>6, <1>8, NodesApart, CellFacts DEF ListInv
  <2>2. Chain(m) /\ NodesOn(m)' = NodesOn(m)
    BY <1>6, <1>8 DEF ListInv
  <2>3. \A c \in NodesOn(m) \cup {HeadOf(m), TailOf(m)} :
          next'[c] = next[c] /\ prev'[c] = prev[c]
    BY <2>1, <1>5
  <2> QED
    BY <2>2, <2>3 DEF Chain, HeadOf, TailOf
<1> QED
  BY <1>4, <1>7, <1>8 DEF ListInv
-----------------------------------------------------------------------------
LEMMA ListInit == Init => ListInv
<1> SUFFICES ASSUME Init PROVE ListInv
  OBVIOUS
<1>1. Links
  BY CellFacts DEF Init, Links, Cells, Heads, Tails, HeadOf, TailOf
<1>2. ASSUME NEW l \in ListIds PROVE Chain(l)
  <2>1. NodesOn(l) = {}
    BY CellsAssumption DEF Init, NodesOn
  <2>2. next[HeadOf(l)] = TailOf(l) /\ prev[TailOf(l)] = HeadOf(l)
    BY CellFacts DEF Init, Heads, Tails, HeadOf, TailOf
  <2> QED
    BY <2>1, <2>2 DEF Chain
<1> QED
  BY <1>1, <1>2 DEF ListInv

LEMMA ListStep == ListInv /\ [Next]_vars => ListInv'
<1> SUFFICES ASSUME ListInv, [Next]_vars PROVE ListInv'
  OBVIOUS
<1>1. ASSUME NEW l \in ListIds, ListPop(l) PROVE ListInv'
  <2>1. CASE next[HeadOf(l)] = TailOf(l)
    <3>1. UNCHANGED <<next, prev, on>>
      BY <1>1, <2>1 DEF ListPop
    <3> QED
      BY <3>1 DEF ListInv, Links, Chain, NodesOn
  <2>2. CASE next[HeadOf(l)] # TailOf(l)
    <3>1. next[HeadOf(l)] \in NodesOn(l)
      BY <2>2 DEF ListInv, Chain
    <3>2. /\ ListRemove(next[HeadOf(l)])
          /\ on' = [on EXCEPT ![next[HeadOf(l)]] = NULL]
      BY <1>1, <2>2 DEF ListPop
    <3> QED
      BY <3>1, <3>2, RemoveKeeps
  <2> QED
    BY <2>1, <2>2
<1>2. ASSUME NEW l \in ListIds, NEW n \in NodeIds, ListPush(l, n) PROVE ListInv'
  <2>1. next[HeadOf(l)] \in NodesOn(l) \cup {TailOf(l)}
    BY DEF ListInv, Chain
  <2>2. /\ on[n] = NULL /\ InsertBefore(next[HeadOf(l)], n)
        /\ on' = [on EXCEPT ![n] = l]
    BY <1>2 DEF ListPush
  <2> QED
    BY <2>1, <2>2, InsertKeeps
<1>3. ASSUME NEW l \in ListIds, NEW n \in NodeIds, ListAppend(l, n) PROVE ListInv'
  BY <1>3, InsertKeeps DEF ListAppend
<1>4. ASSUME NEW n \in NodeIds, ListUnlink(n) PROVE ListInv'
  <2>1. PICK l \in ListIds : n \in NodesOn(l)
    BY <1>4 DEF ListUnlink, ListInv, Links, NodesOn
  <2> QED
    BY <1>4, <2>1, RemoveKeeps DEF ListUnlink
<1>5. CASE UNCHANGED vars
  BY <1>5 DEF vars, ListInv, Links, Chain, NodesOn
<1> QED
  BY <1>1, <1>2, <1>3, <1>4, <1>5 DEF Next

\* No sequence of pushes, appends, pops and removals breaks a list or joins
\* two lists, although removed nodes keep dangling links.
THEOREM ListsStayLinked == Spec => []WellLinked
<1>1. ListInv => WellLinked
  BY DEF ListInv, WellLinked, Chain
<1> QED
  BY <1>1, ListInit, ListStep, PTL DEF Spec
-----------------------------------------------------------------------------
(* The walk of a list. *)

\* The i-th cell of a list with the nodes s: the head, the nodes, the tail.
At(l, s, i) == IF i = 0 THEN HeadOf(l) ELSE IF i <= Len(s) THEN s[i] ELSE TailOf(l)

\* The pointers f and b, with o as the history, chain the nodes of s in this
\* order.
Represents(f, b, o, l, s) ==
  /\ s \in Seq(NodeIds)
  /\ \A i, j \in 1 .. Len(s) : s[i] = s[j] => i = j
  /\ \A n \in NodeIds : o[n] = l <=> \E i \in 1 .. Len(s) : s[i] = n
  /\ \A i \in 0 .. Len(s) : f[At(l, s, i)] = At(l, s, i + 1) /\ b[At(l, s, i + 1)] = At(l, s, i)

LEMMA AtFacts ==
  ASSUME NEW f, NEW b, NEW o, NEW l \in ListIds, NEW s, Represents(f, b, o, l, s)
  PROVE  /\ Len(s) \in Nat /\ \A i \in 1 .. Len(s) : s[i] \in NodeIds /\ At(l, s, i) = s[i]
         /\ At(l, s, 0) = HeadOf(l) /\ At(l, s, Len(s) + 1) = TailOf(l)
         /\ \A i \in 0 .. Len(s) + 1 : At(l, s, i) \in Cells
         /\ \A i, j \in 0 .. Len(s) + 1 : At(l, s, i) = At(l, s, j) => i = j
<1>1. s \in Seq(NodeIds) /\ \A i, j \in 1 .. Len(s) : s[i] = s[j] => i = j
  BY DEF Represents
<1>2. Len(s) \in Nat /\ \A i \in 1 .. Len(s) : s[i] \in NodeIds
  BY <1>1, ElementOfSeq
<1>3. \A i \in 1 .. Len(s) : At(l, s, i) = s[i]
  BY <1>2 DEF At
<1>4. At(l, s, 0) = HeadOf(l) /\ At(l, s, Len(s) + 1) = TailOf(l)
  BY <1>2 DEF At
<1>5. \A i \in 0 .. Len(s) + 1 : i = 0 \/ i \in 1 .. Len(s) \/ i = Len(s) + 1
  BY <1>2
<1>6. \A i \in 0 .. Len(s) + 1 : At(l, s, i) \in Cells
  BY <1>2, <1>3, <1>4, <1>5, CellFacts
<1>7. ASSUME NEW i \in 0 .. Len(s) + 1, NEW j \in 0 .. Len(s) + 1, At(l, s, i) = At(l, s, j)
      PROVE  i = j
  BY <1>1, <1>2, <1>3, <1>4, <1>5, <1>7, CellFacts
<1> QED
  BY <1>2, <1>3, <1>4, <1>6, <1>7

LEMMA OnFacts ==
  ASSUME NEW f, NEW b, NEW o, NEW l \in ListIds, NEW s, Represents(f, b, o, l, s)
  PROVE  s \in Seq(NodeIds) /\ \A i \in 1 .. Len(s) : o[s[i]] = l
<1>1. s \in Seq(NodeIds)
  BY DEF Represents
<1>2. Len(s) \in Nat /\ \A i \in 1 .. Len(s) : s[i] \in NodeIds
  BY <1>1, ElementOfSeq
<1> QED BY <1>1, <1>2 DEF Represents

\* A list has no more nodes than there are.
LEMMA FewNodes ==
  ASSUME NEW s \in Seq(NodeIds), \A i, j \in 1 .. Len(s) : s[i] = s[j] => i = j
  PROVE  Cardinality(NodeIds) \in Nat /\ Len(s) <= Cardinality(NodeIds)
<1>1. Len(s) \in Nat /\ IsFiniteSet(NodeIds)
  BY CellsAssumption
<1>2. s \in Injection(1 .. Len(s), NodeIds)
  <2>1. s \in [1 .. Len(s) -> NodeIds] /\ DOMAIN s = 1 .. Len(s)
    BY LenProperties
  <2> QED BY <2>1 DEF Injection, IsInjective
<1>3. Cardinality(1 .. Len(s)) <= Cardinality(NodeIds)
  BY <1>1, <1>2, FS_Injection
<1>4. Cardinality(1 .. Len(s)) = Len(s)
  <2>1. 1 \in Int /\ Len(s) \in Int /\ (1 > Len(s) => Len(s) = 0) /\ Len(s) - 1 + 1 = Len(s)
    BY <1>1
  <2>2. Cardinality(1 .. Len(s)) = IF 1 > Len(s) THEN 0 ELSE Len(s) - 1 + 1
    BY <2>1, FS_Interval
  <2> QED BY <2>1, <2>2
<1> QED BY <1>1, <1>3, <1>4, FS_CardinalityType

\* What the walk has seen after each of its turns.
Turns(f, l) ==
  CHOOSE g : g = [i \in 0 .. Cardinality(NodeIds) |->
                    IF i = 0 THEN <<>> ELSE Further(f, l, g[i - 1])]

LEMMA TurnsFacts ==
  ASSUME NEW f, NEW l, Cardinality(NodeIds) \in Nat
  PROVE  /\ WalkAlong(f, l) = Turns(f, l)[Cardinality(NodeIds)]
         /\ Turns(f, l)[0] = <<>>
         /\ \A i \in 1 .. Cardinality(NodeIds) :
              Turns(f, l)[i] = Further(f, l, Turns(f, l)[i - 1])
<1> DEFINE N == Cardinality(NodeIds)
           Solves(g, m) == g = [i \in 0 .. m |-> IF i = 0 THEN <<>> ELSE Further(f, l, g[i - 1])]
           Bad == {m \in Nat : ~ \E g : Solves(g, m)}
<1>1. Bad = {}
  <2> SUFFICES ASSUME Bad # {} PROVE FALSE
    OBVIOUS
  <2>1. PICK m \in Bad : \A k \in Bad : m <= k
    <3>1. Bad \subseteq Nat
      OBVIOUS
    <3> HIDE DEF Bad
    <3> QED BY <3>1, NatMin
  <2>2. CASE m = 0
    <3>1. Solves([i \in 0 .. 0 |-> <<>>], 0)
      OBVIOUS
    <3> QED BY <2>1, <2>2, <3>1
  <2>3. CASE m # 0
    <3>1. m \in Nat /\ m - 1 \in Nat /\ ~(m <= m - 1) /\ m - 1 \notin Bad
      <4>1. m \in Nat
        BY <2>1
      <4>2. m - 1 \in Nat /\ ~(m <= m - 1)
        BY <2>3, <4>1
      <4> QED BY <2>1, <4>1, <4>2
    <3>2. PICK g : Solves(g, m - 1)
      BY <3>1
    <3> DEFINE h == [i \in 0 .. m |-> IF i = m THEN Further(f, l, g[m - 1]) ELSE g[i]]
    <3>3. ASSUME NEW i \in 0 .. m
          PROVE  h[i] = IF i = 0 THEN <<>> ELSE Further(f, l, h[i - 1])
      <4>1. CASE i = m
        <5>1. m - 1 \in 0 .. m /\ m - 1 # m
          BY <3>1
        <5> QED BY <2>3, <4>1, <5>1
      <4>2. CASE i # m
        <5>1. i \in 0 .. (m - 1) /\ (i # 0 => i - 1 \in 0 .. m /\ i - 1 # m)
          BY <3>1, <4>2
        <5>2. g[i] = IF i = 0 THEN <<>> ELSE Further(f, l, g[i - 1])
          BY <3>2, <5>1
        <5> QED BY <4>2, <5>1, <5>2
      <4> QED BY <4>1, <4>2
    <3>4. Solves(h, m)
      <4>1. h = [i \in 0 .. m |-> h[i]]
        OBVIOUS
      <4> HIDE DEF h
      <4> QED BY <3>3, <4>1
    <3> QED BY <2>1, <3>4
  <2> QED BY <2>2, <2>3
<1>2. Solves(Turns(f, l), N)
  <2>1. Turns(f, l) = CHOOSE g : Solves(g, N)
    BY DEF Turns
  <2>2. \E g : Solves(g, N)
    BY <1>1
  <2> HIDE DEF Solves
  <2> QED BY <2>1, <2>2
<1>3. WalkAlong(f, l) = Turns(f, l)[N]
  BY DEF WalkAlong, Turns
<1> DEFINE g == Turns(f, l)
<1> HIDE DEF g
<1>4. g = [i \in 0 .. N |-> IF i = 0 THEN <<>> ELSE Further(f, l, g[i - 1])]
  BY <1>2 DEF g
<1>5. g[0] = <<>> /\ \A i \in 1 .. N : g[i] = Further(f, l, g[i - 1])
  <2>1. 0 \in 0 .. N /\ \A i \in 1 .. N : i \in 0 .. N /\ i # 0
    OBVIOUS
  <2> QED BY <1>4, <2>1
<1> QED BY <1>3, <1>5 DEF g

\* The walk finds exactly the nodes of the list, in order.
LEMMA WalkFinds ==
  ASSUME NEW f, NEW b, NEW o, NEW l \in ListIds, NEW s, Represents(f, b, o, l, s)
  PROVE  WalkAlong(f, l) = s
<1> DEFINE N == Cardinality(NodeIds)
           g == Turns(f, l)
           Seen(i) == IF i <= Len(s) THEN SubSeq(s, 1, i) ELSE s
           Bad == {i \in 0 .. N : g[i] # Seen(i)}
<1>1. /\ s \in Seq(NodeIds) /\ Len(s) \in Nat /\ N \in Nat /\ Len(s) <= N
      /\ SubSeq(s, 1, Len(s)) = s /\ SubSeq(s, 1, 0) = <<>>
  BY FewNodes, SubSeqFull, SubSeqEmpty DEF Represents
<1>2. /\ g[0] = <<>> /\ WalkAlong(f, l) = g[N]
      /\ \A i \in 1 .. N : g[i] = Further(f, l, g[i - 1])
  BY <1>1, TurnsFacts
<1>10. Len(s) \in Nat /\ N \in Nat /\ Len(s) <= N
  BY <1>1
<1> HIDE DEF N, g
<1>9. /\ \A i \in 1 .. Len(s) : s[i] \in NodeIds /\ At(l, s, i) = s[i]
      /\ At(l, s, 0) = HeadOf(l) /\ At(l, s, Len(s) + 1) = TailOf(l)
      /\ \A i \in 0 .. Len(s) : f[At(l, s, i)] = At(l, s, i + 1)
  <2>1. \A i \in 0 .. Len(s) : f[At(l, s, i)] = At(l, s, i + 1)
    BY DEF Represents
  <2> QED BY <2>1, AtFacts
<1>3. ASSUME NEW i \in 0 .. Len(s)
      PROVE  Further(f, l, SubSeq(s, 1, i)) = IF i = Len(s) THEN s ELSE SubSeq(s, 1, i + 1)
  <2> DEFINE q == SubSeq(s, 1, i)
             c == f[IF q = <<>> THEN HeadOf(l) ELSE Last(q)]
  <2>1. i \in Nat /\ i <= Len(s) /\ i \in 0 .. Len(s) /\ i + 1 \in 0 .. Len(s) + 1
    BY <1>1
  <2>2. q \in Seq(NodeIds) /\ Len(q) = i /\ \A j \in 1 .. i : q[j] = s[j]
    <3>1. \A j \in 1 .. i : s[j] \in NodeIds
      BY <1>1, <2>1, <1>9
    <3> QED BY <2>1, <3>1, SubSeqProperties
  <2>3. (IF q = <<>> THEN HeadOf(l) ELSE Last(q)) = At(l, s, i)
    <3>1. CASE i = 0
      BY <1>1, <3>1, <1>9
    <3>2. CASE i # 0
      <4>1. q # <<>> /\ i \in 1 .. i /\ i \in 1 .. Len(s)
        BY <2>1, <2>2, <3>2, EmptySeq
      <4> QED BY <2>2, <4>1, <1>9 DEF Last
    <3> QED BY <3>1, <3>2
  <2>4. c = At(l, s, i + 1)
    BY <2>3, <1>9
  <2>5. Further(f, l, q) = IF c \in Cells \ {TailOf(l)} THEN Append(q, c) ELSE q
    BY DEF Further
  <2>8. i = Len(s) => q = s
    BY <1>1
  <2> HIDE DEF q, c
  <2>6. CASE i = Len(s)
    <3>1. c = TailOf(l)
      BY <2>4, <2>6, <1>9
    <3> QED BY <2>5, <2>6, <2>8, <3>1 DEF q
  <2>7. CASE i # Len(s)
    <3>1. i + 1 \in 1 .. Len(s)
      BY <1>10, <2>1, <2>7
    <3>2. c = s[i + 1] /\ c \in Cells /\ c # TailOf(l)
      BY <2>4, <3>1, <1>9, CellFacts
    <3>3. SubSeq(s, 1, i + 1) = q \o <<s[i + 1]>>
      <4>1. 1 \in 1 .. Len(s) /\ i + 1 \in 1 .. Len(s) /\ (i + 1) - 1 = i
        BY <2>1, <3>1
      <4>2. SubSeq(s, 1, i + 1) = SubSeq(s, 1, (i + 1) - 1) \o <<s[i + 1]>>
        BY <1>1, <4>1, SubSeqRecursiveSecond
      <4> QED BY <4>1, <4>2 DEF q
    <3>4. Append(q, c) = q \o <<c>>
      <4>1. c \in NodeIds
        BY <3>1, <3>2, <1>9
      <4> QED BY <2>2, <4>1
    <3> QED BY <2>5, <2>7, <3>2, <3>3, <3>4 DEF q
  <2> QED BY <2>6, <2>7
<1>4. Bad = {}
  <2> SUFFICES ASSUME Bad # {} PROVE FALSE
    OBVIOUS
  <2>1. PICK i \in Bad : \A k \in Bad : i <= k
    <3>1. Bad \subseteq Nat
      OBVIOUS
    <3> HIDE DEF Bad
    <3> QED BY <3>1, NatMin
  <2>2. i \in 0 .. N /\ i \in Nat /\ g[i] # Seen(i)
    OBVIOUS
  <2>3. i # 0
    <3>1. Seen(0) = <<>>
      BY <1>1
    <3> HIDE DEF Seen
    <3> QED BY <1>2, <2>2, <3>1
  <2>4. i \in 1 .. N /\ i - 1 \in 0 .. N /\ ~(i <= i - 1)
    BY <1>1, <2>2, <2>3
  <2>5. g[i - 1] = Seen(i - 1) /\ g[i] = Further(f, l, g[i - 1])
    BY <1>2, <2>1, <2>4
  <2>6. Further(f, l, s) = s
    <3>1. Len(s) \in 0 .. Len(s)
      BY <1>1
    <3>2. Further(f, l, SubSeq(s, 1, Len(s))) = IF Len(s) = Len(s) THEN s ELSE SubSeq(s, 1, Len(s) + 1)
      BY <1>3, <3>1
    <3> QED BY <1>1, <3>2
  <2>7. CASE i - 1 \in 0 .. Len(s)
    <3>1. Further(f, l, SubSeq(s, 1, i - 1)) = IF i - 1 = Len(s) THEN s ELSE SubSeq(s, 1, (i - 1) + 1)
      BY <1>3, <2>7
    <3>2. /\ (i - 1) + 1 = i /\ i - 1 <= Len(s) /\ (i - 1 = Len(s) => ~(i <= Len(s)))
          /\ (i - 1 # Len(s) => i <= Len(s))
      BY <1>1, <2>2, <2>7
    <3> QED BY <2>2, <2>5, <3>1, <3>2
  <2>8. CASE i - 1 \notin 0 .. Len(s)
    <3>1. ~(i - 1 <= Len(s)) /\ ~(i <= Len(s))
      BY <1>1, <2>4, <2>8
    <3> QED BY <2>2, <2>5, <2>6, <3>1
  <2> QED BY <2>7, <2>8
<1>5. g[N] = Seen(N)
  BY <1>1, <1>4
<1>6. Seen(N) = s
  <2>1. N <= Len(s) => N = Len(s)
    BY <1>10
  <2> QED BY <1>1, <2>1
<1> HIDE DEF Seen, Bad
<1> QED BY <1>2, <1>5, <1>6
-----------------------------------------------------------------------------
(* The lists as sequences. *)

Chained == Links /\ \A l \in ListIds : Represents(next, prev, on, l, Walk(l))

\* The cells of different lists are different.
LEMMA AtApart ==
  ASSUME NEW f, NEW b, NEW o, NEW l \in ListIds, NEW m \in ListIds, l # m, NEW s, NEW t,
         Represents(f, b, o, l, s), Represents(f, b, o, m, t),
         NEW i \in 0 .. Len(s) + 1, NEW j \in 0 .. Len(t) + 1
  PROVE  At(l, s, i) # At(m, t, j)
<1>1. /\ Len(s) \in Nat /\ \A k \in 1 .. Len(s) : s[k] \in NodeIds /\ At(l, s, k) = s[k]
      /\ At(l, s, 0) = HeadOf(l) /\ At(l, s, Len(s) + 1) = TailOf(l)
  BY AtFacts
<1>2. /\ Len(t) \in Nat /\ \A k \in 1 .. Len(t) : t[k] \in NodeIds /\ At(m, t, k) = t[k]
      /\ At(m, t, 0) = HeadOf(m) /\ At(m, t, Len(t) + 1) = TailOf(m)
  BY AtFacts
<1>3. /\ \A k \in 1 .. Len(s) : o[s[k]] = l
      /\ \A k \in 1 .. Len(t) : o[t[k]] = m
  BY <1>1, <1>2 DEF Represents
<1>4. i = 0 \/ i \in 1 .. Len(s) \/ i = Len(s) + 1
  BY <1>1
<1>5. j = 0 \/ j \in 1 .. Len(t) \/ j = Len(t) + 1
  BY <1>2
<1> QED BY <1>1, <1>2, <1>3, <1>4, <1>5, CellFacts

\* A step that leaves the cells of a list alone leaves the list alone.
LEMMA Others ==
  ASSUME NEW m \in ListIds, NEW u, Represents(next, prev, on, m, u),
         \A n \in NodeIds : on'[n] = m <=> on[n] = m,
         \A j \in 0 .. Len(u) + 1 : /\ next'[At(m, u, j)] = next[At(m, u, j)]
                                   /\ prev'[At(m, u, j)] = prev[At(m, u, j)]
  PROVE  Represents(next', prev', on', m, u)
<1>1. /\ u \in Seq(NodeIds) /\ \A j, k \in 1 .. Len(u) : u[j] = u[k] => j = k
      /\ \A n \in NodeIds : on[n] = m <=> \E j \in 1 .. Len(u) : u[j] = n
      /\ \A j \in 0 .. Len(u) : /\ next[At(m, u, j)] = At(m, u, j + 1)
                                /\ prev[At(m, u, j + 1)] = At(m, u, j)
  BY Zenon DEF Represents
<1>2. \A j \in 0 .. Len(u) : j \in 0 .. Len(u) + 1 /\ j + 1 \in 0 .. Len(u) + 1
  BY <1>1
<1>3. \A j \in 0 .. Len(u) : /\ next'[At(m, u, j)] = At(m, u, j + 1)
                            /\ prev'[At(m, u, j + 1)] = At(m, u, j)
  BY <1>1, <1>2, Zenon
<1>4. \A n \in NodeIds : on'[n] = m <=> \E j \in 1 .. Len(u) : u[j] = n
  BY <1>1, Zenon
<1> QED BY <1>1, <1>3, <1>4, Zenon DEF Represents

\* insert_before in front of the i-th cell.
LEMMA Inserted ==
  ASSUME Links, NEW l \in ListIds, NEW s, Represents(next, prev, on, l, s),
         NEW node \in NodeIds, on[node] = NULL, NEW i \in 1 .. Len(s) + 1,
         InsertBefore(At(l, s, i), node), on' = [on EXCEPT ![node] = l],
         NEW t \in Seq(NodeIds), Len(t) = Len(s) + 1,
         \A j \in 1 .. Len(t) : t[j] = IF j < i THEN s[j] ELSE IF j = i THEN node ELSE s[j - 1]
  PROVE  /\ Represents(next', prev', on', l, t)
         /\ \A m \in ListIds : \A u : (m # l /\ Represents(next, prev, on, m, u))
                                    => Represents(next', prev', on', m, u)
<1>1. /\ Len(s) \in Nat /\ s \in Seq(NodeIds)
      /\ \A j \in 1 .. Len(s) : s[j] \in NodeIds /\ At(l, s, j) = s[j]
      /\ At(l, s, 0) = HeadOf(l) /\ At(l, s, Len(s) + 1) = TailOf(l)
      /\ \A j \in 0 .. Len(s) + 1 : At(l, s, j) \in Cells
      /\ \A j, k \in 0 .. Len(s) + 1 : At(l, s, j) = At(l, s, k) => j = k
      /\ \A j \in 0 .. Len(s) : next[At(l, s, j)] = At(l, s, j + 1) /\ prev[At(l, s, j + 1)] = At(l, s, j)
  <2>1. s \in Seq(NodeIds)
    BY OnFacts
  <2>2. \A j \in 0 .. Len(s) : next[At(l, s, j)] = At(l, s, j + 1) /\ prev[At(l, s, j + 1)] = At(l, s, j)
    BY DEF Represents
  <2> QED BY <2>1, <2>2, AtFacts
<1>13. \A j, k \in 1 .. Len(s) : s[j] = s[k] => j = k
  BY DEF Represents
<1>2. \A j \in 0 .. Len(s) + 1 : At(l, s, j) # node
  <2>1. \A j \in 0 .. Len(s) + 1 : j = 0 \/ j \in 1 .. Len(s) \/ j = Len(s) + 1
    BY <1>1
  <2>2. \A j \in 1 .. Len(s) : on[s[j]] = l
    BY <1>1 DEF Represents
  <2> QED BY <1>1, <2>1, <2>2, CellFacts, CellsAssumption
<1>3. /\ node \in Cells /\ i \in Nat /\ i \in 0 .. Len(s) + 1
      /\ i - 1 \in 0 .. Len(s) /\ i - 1 \in 0 .. Len(s) + 1 /\ (i - 1) + 1 = i
  BY <1>1, CellFacts
<1>4. prev[At(l, s, i)] = At(l, s, i - 1)
  BY <1>1, <1>3
<1>5. /\ next'[node] = At(l, s, i) /\ next'[At(l, s, i - 1)] = node
      /\ \A c \in Cells : c # node /\ c # At(l, s, i - 1) => next'[c] = next[c]
      /\ prev'[node] = At(l, s, i - 1) /\ prev'[At(l, s, i)] = node
      /\ \A c \in Cells : c # node /\ c # At(l, s, i) => prev'[c] = prev[c]
  <2> DEFINE before == At(l, s, i)
             back == At(l, s, i - 1)
  <2>1. /\ before \in Cells /\ back \in Cells /\ before # node /\ back # node
    BY <1>1, <1>2, <1>3
  <2>2. /\ next' = [next EXCEPT ![node] = before, ![back] = node]
        /\ prev' = [prev EXCEPT ![node] = back, ![before] = node]
    BY <1>4 DEF InsertBefore
  <2> HIDE DEF before, back
  <2>3. /\ next'[node] = before /\ next'[back] = node
        /\ \A c \in Cells : c # node /\ c # back => next'[c] = next[c]
        /\ prev'[node] = back /\ prev'[before] = node
        /\ \A c \in Cells : c # node /\ c # before => prev'[c] = prev[c]
    BY <1>3, <2>1, <2>2 DEF Links
  <2> QED BY <2>3 DEF before, back
<1>6. \A j \in 0 .. Len(t) + 1 :
        At(l, t, j) = IF j < i THEN At(l, s, j) ELSE IF j = i THEN node ELSE At(l, s, j - 1)
  <2> SUFFICES ASSUME NEW j \in 0 .. Len(t) + 1
               PROVE  At(l, t, j) = IF j < i THEN At(l, s, j) ELSE IF j = i THEN node
                                    ELSE At(l, s, j - 1)
    OBVIOUS
  <2>1. /\ At(l, t, 0) = HeadOf(l) /\ At(l, t, Len(t) + 1) = TailOf(l)
        /\ \A k \in 1 .. Len(t) : At(l, t, k) = t[k]
    BY <1>1 DEF At
  <2>2. CASE j = 0
    <3>1. j < i
      BY <1>1, <2>2
    <3> QED BY <1>1, <2>1, <2>2, <3>1
  <2>3. CASE j = Len(t) + 1
    <3>1. ~(j < i) /\ j # i /\ j - 1 = Len(s) + 1
      BY <1>1, <1>3, <2>3
    <3> QED BY <1>1, <2>1, <2>3, <3>1
  <2>4. CASE j \in 1 .. Len(t)
    <3>1. /\ j < i => j \in 1 .. Len(s)
          /\ ~(j < i) /\ j # i => j - 1 \in 1 .. Len(s)
      BY <1>1, <1>3, <2>4
    <3>2. t[j] = IF j < i THEN s[j] ELSE IF j = i THEN node ELSE s[j - 1]
      BY <2>4
    <3>3. \A k \in 1 .. Len(s) : At(l, s, k) = s[k]
      BY <1>1
    <3> QED BY <2>1, <2>4, <3>1, <3>2, <3>3
  <2> QED BY <1>1, <2>2, <2>3, <2>4
<1>7. \A n \in NodeIds : on'[n] = l <=> on[n] = l \/ n = node
  BY CellsAssumption DEF Links
<1>8. \A j, k \in 1 .. Len(t) : t[j] = t[k] => j = k
  <2> SUFFICES ASSUME NEW j \in 1 .. Len(t), NEW k \in 1 .. Len(t), t[j] = t[k] PROVE j = k
    OBVIOUS
  <2> DEFINE From(h) == IF h < i THEN h ELSE h - 1
  <2>1. \A h \in 1 .. Len(t) : h # i => From(h) \in 1 .. Len(s) /\ From(h) \in 0 .. Len(s) + 1
    <3>1. ASSUME NEW h \in 1 .. Len(t), h < i PROVE h \in 1 .. Len(s) /\ h \in 0 .. Len(s) + 1
      <4>1. Len(s) \in Nat /\ Len(t) \in Nat /\ i \in Nat /\ i <= Len(s) + 1
        BY <1>1, <1>3
      <4> QED BY <3>1, <4>1
    <3>2. ASSUME NEW h \in 1 .. Len(t), ~(h < i), h # i
          PROVE  h - 1 \in 1 .. Len(s) /\ h - 1 \in 0 .. Len(s) + 1
      <4>1. Len(s) \in Nat /\ Len(t) = Len(s) + 1 /\ i \in Nat /\ 1 <= i
        BY <1>1, <1>3
      <4> QED BY <3>2, <4>1
    <3> QED BY <3>1, <3>2
  <2>2. \A h \in 1 .. Len(t) : h # i => t[h] = s[From(h)]
    BY <1>3
  <2>3. j # i /\ k # i => From(j) = From(k)
    <3> HIDE DEF From
    <3> QED BY <1>13, <2>1, <2>2
  <2>4. j # i /\ k # i => j = k
    BY <1>3, <2>3
  <2>5. t[i] = node
    BY <1>1, <1>3
  <2>6. \A h \in 1 .. Len(t) : h # i => t[h] # node
    <3> HIDE DEF From
    <3> QED BY <1>1, <1>2, <2>1, <2>2
  <2> QED BY <2>4, <2>5, <2>6
<1>9. ASSUME NEW n \in NodeIds
      PROVE  on'[n] = l <=> \E j \in 1 .. Len(t) : t[j] = n
  <2>1. on[n] = l <=> \E j \in 1 .. Len(s) : s[j] = n
    BY DEF Represents
  <2>2. ASSUME NEW j \in 1 .. Len(s), s[j] = n PROVE \E k \in 1 .. Len(t) : t[k] = n
    <3>1. CASE j < i
      <4>1. j \in 1 .. Len(t) /\ t[j] = s[j]
        BY <1>1, <3>1
      <4> QED BY <2>2, <4>1
    <3>2. CASE ~(j < i)
      <4>1. /\ j + 1 \in 1 .. Len(t) /\ ~(j + 1 < i) /\ j + 1 # i /\ (j + 1) - 1 = j
        BY <1>1, <1>3, <3>2
      <4>2. t[j + 1] = s[j]
        BY <4>1
      <4> QED BY <2>2, <4>1, <4>2
    <3> QED BY <3>1, <3>2
  <2>3. i \in 1 .. Len(t) /\ t[i] = node
    BY <1>1, <1>3
  <2>4. ASSUME NEW j \in 1 .. Len(t), t[j] = n PROVE n = node \/ \E k \in 1 .. Len(s) : s[k] = n
    <3>1. CASE j < i
      <4>1. j \in 1 .. Len(s) /\ t[j] = s[j]
        BY <1>1, <1>3, <3>1
      <4> QED BY <2>4, <4>1
    <3>2. CASE j > i
      <4>1. j - 1 \in 1 .. Len(s) /\ t[j] = s[j - 1]
        BY <1>1, <1>3, <3>2
      <4> QED BY <2>4, <4>1
    <3>3. CASE j = i
      BY <2>3, <2>4, <3>3
    <3> QED BY <1>3, <3>1, <3>2, <3>3
  <2> QED BY <1>7, <2>1, <2>2, <2>3, <2>4
<1>10. ASSUME NEW j \in 0 .. Len(t)
       PROVE  next'[At(l, t, j)] = At(l, t, j + 1) /\ prev'[At(l, t, j + 1)] = At(l, t, j)
  <2>1. /\ At(l, t, j) = IF j < i THEN At(l, s, j) ELSE IF j = i THEN node ELSE At(l, s, j - 1)
        /\ At(l, t, j + 1) = IF j + 1 < i THEN At(l, s, j + 1) ELSE IF j + 1 = i THEN node ELSE At(l, s, j)
    <3>1. j \in 0 .. Len(t) + 1 /\ j + 1 \in 0 .. Len(t) + 1 /\ (j + 1) - 1 = j
      BY <1>1
    <3> QED BY <1>6, <3>1
  <2>2. CASE j + 1 < i
    <3>1. /\ j < i /\ j \in 0 .. Len(s) /\ j \in 0 .. Len(s) + 1 /\ j + 1 \in 0 .. Len(s) + 1
          /\ j # i - 1 /\ j + 1 # i
      BY <1>1, <1>3, <2>2
    <3>2. At(l, s, j) # At(l, s, i - 1) /\ At(l, s, j + 1) # At(l, s, i)
      BY <1>1, <1>3, <3>1
    <3> QED BY <1>1, <1>2, <1>5, <2>1, <2>2, <3>1, <3>2
  <2>3. CASE j + 1 = i
    <3>1. j = i - 1 /\ j < i /\ ~(j + 1 < i)
      BY <1>3, <2>3
    <3> QED BY <1>5, <2>1, <2>3, <3>1
  <2>4. CASE j = i
    <3>1. ~(j < i) /\ ~(j + 1 < i) /\ j + 1 # i
      BY <1>3, <2>4
    <3> QED BY <1>5, <2>1, <2>4, <3>1
  <2>5. CASE j > i
    <3>1. /\ ~(j < i) /\ j # i /\ ~(j + 1 < i) /\ j + 1 # i /\ (j - 1) + 1 = j
          /\ j - 1 \in 0 .. Len(s) /\ j - 1 \in 0 .. Len(s) + 1 /\ j \in 0 .. Len(s) + 1
          /\ j - 1 # i - 1
      BY <1>1, <1>3, <2>5
    <3>2. At(l, s, j - 1) # At(l, s, i - 1) /\ At(l, s, j) # At(l, s, i)
      BY <1>1, <1>3, <3>1
    <3>3. next[At(l, s, j - 1)] = At(l, s, j) /\ prev[At(l, s, j)] = At(l, s, j - 1)
      BY <1>1, <3>1
    <3> QED BY <1>1, <1>2, <1>5, <2>1, <3>1, <3>2, <3>3
  <2> QED BY <1>3, <2>2, <2>3, <2>4, <2>5
<1>11. Represents(next', prev', on', l, t)
  BY <1>8, <1>9, <1>10 DEF Represents
<1>12. ASSUME NEW m \in ListIds, NEW u, m # l, Represents(next, prev, on, m, u)
       PROVE  Represents(next', prev', on', m, u)
  <2>1. \A n \in NodeIds : on'[n] = m <=> on[n] = m
    BY <1>12, CellsAssumption DEF Links
  <2>2. ASSUME NEW j \in 0 .. Len(u) + 1
        PROVE  next'[At(m, u, j)] = next[At(m, u, j)] /\ prev'[At(m, u, j)] = prev[At(m, u, j)]
    <3>1. At(m, u, j) # At(l, s, i - 1) /\ At(m, u, j) # At(l, s, i)
      BY <1>3, <1>12, AtApart
    <3>2. At(m, u, j) \in Cells
      BY <1>12, AtFacts
    <3>3. At(m, u, j) # node
      <4>1. /\ Len(u) \in Nat /\ At(m, u, 0) = HeadOf(m) /\ At(m, u, Len(u) + 1) = TailOf(m)
            /\ \A k \in 1 .. Len(u) : At(m, u, k) \in NodeIds /\ on[At(m, u, k)] = m
        <5>2. /\ Len(u) \in Nat /\ At(m, u, 0) = HeadOf(m) /\ At(m, u, Len(u) + 1) = TailOf(m)
              /\ \A k \in 1 .. Len(u) : u[k] \in NodeIds /\ At(m, u, k) = u[k]
          BY <1>12, AtFacts
        <5>3. \A n \in NodeIds : on[n] = m <=> \E k \in 1 .. Len(u) : u[k] = n
          BY <1>12, Zenon DEF Represents
        <5> QED BY <5>2, <5>3
      <4>2. j = 0 \/ j \in 1 .. Len(u) \/ j = Len(u) + 1
        BY <4>1
      <4> QED BY <4>1, <4>2, CellFacts, CellsAssumption
    <3> QED BY <1>5, <3>1, <3>2, <3>3
  <2>3. Represents(next, prev, on, m, u)
    BY <1>12
  <2> QED BY <2>1, <2>2, <2>3, Others
<1> QED BY <1>11, <1>12

\* list_remove of the i-th node; its own links stay as they are.
LEMMA Removed ==
  ASSUME Links, NEW l \in ListIds, NEW s, Represents(next, prev, on, l, s),
         NEW i \in 1 .. Len(s), ListRemove(s[i]), on' = [on EXCEPT ![s[i]] = NULL],
         NEW t \in Seq(NodeIds), Len(t) = Len(s) - 1,
         \A j \in 1 .. Len(t) : t[j] = IF j < i THEN s[j] ELSE s[j + 1]
  PROVE  /\ Represents(next', prev', on', l, t)
         /\ \A m \in ListIds : \A u : (m # l /\ Represents(next, prev, on, m, u))
                                    => Represents(next', prev', on', m, u)
<1> DEFINE node == s[i]
<1>1. /\ Len(s) \in Nat /\ s \in Seq(NodeIds)
      /\ \A j \in 1 .. Len(s) : s[j] \in NodeIds /\ At(l, s, j) = s[j]
      /\ At(l, s, 0) = HeadOf(l) /\ At(l, s, Len(s) + 1) = TailOf(l)
      /\ \A j \in 0 .. Len(s) + 1 : At(l, s, j) \in Cells
      /\ \A j, k \in 0 .. Len(s) + 1 : At(l, s, j) = At(l, s, k) => j = k
      /\ \A j \in 0 .. Len(s) : next[At(l, s, j)] = At(l, s, j + 1) /\ prev[At(l, s, j + 1)] = At(l, s, j)
  <2>1. s \in Seq(NodeIds)
    BY OnFacts
  <2>2. \A j \in 0 .. Len(s) : next[At(l, s, j)] = At(l, s, j + 1) /\ prev[At(l, s, j + 1)] = At(l, s, j)
    BY DEF Represents
  <2> QED BY <2>1, <2>2, AtFacts
<1>2. \A j, k \in 1 .. Len(s) : s[j] = s[k] => j = k
  BY DEF Represents
<1>3. /\ i \in Nat /\ i \in 0 .. Len(s) /\ i - 1 \in 0 .. Len(s) /\ (i - 1) + 1 = i
      /\ i - 1 \in 0 .. Len(s) + 1 /\ i + 1 \in 0 .. Len(s) + 1 /\ i \in 0 .. Len(s) + 1
      /\ node \in NodeIds /\ node = At(l, s, i)
  BY <1>1
<1>4. next[node] = At(l, s, i + 1) /\ prev[node] = At(l, s, i - 1)
  BY <1>1, <1>3
<1>5. /\ next'[At(l, s, i - 1)] = At(l, s, i + 1)
      /\ \A c \in Cells : c # At(l, s, i - 1) => next'[c] = next[c]
      /\ prev'[At(l, s, i + 1)] = At(l, s, i - 1)
      /\ \A c \in Cells : c # At(l, s, i + 1) => prev'[c] = prev[c]
  <2> DEFINE ahead == At(l, s, i + 1)
             back == At(l, s, i - 1)
  <2>1. ahead \in Cells /\ back \in Cells
    BY <1>1, <1>3
  <2>2. /\ next' = [next EXCEPT ![back] = ahead]
        /\ prev' = [prev EXCEPT ![ahead] = back]
    BY <1>4 DEF ListRemove
  <2> HIDE DEF ahead, back
  <2>3. /\ next'[back] = ahead /\ \A c \in Cells : c # back => next'[c] = next[c]
        /\ prev'[ahead] = back /\ \A c \in Cells : c # ahead => prev'[c] = prev[c]
    BY <2>1, <2>2 DEF Links
  <2> QED BY <2>3 DEF ahead, back
<1> HIDE DEF node
<1>6. \A j \in 0 .. Len(t) + 1 : At(l, t, j) = IF j < i THEN At(l, s, j) ELSE At(l, s, j + 1)
  <2> SUFFICES ASSUME NEW j \in 0 .. Len(t) + 1
               PROVE  At(l, t, j) = IF j < i THEN At(l, s, j) ELSE At(l, s, j + 1)
    OBVIOUS
  <2>1. /\ At(l, t, 0) = HeadOf(l) /\ At(l, t, Len(t) + 1) = TailOf(l)
        /\ \A k \in 1 .. Len(t) : At(l, t, k) = t[k]
    BY <1>1, <1>3 DEF At
  <2>2. CASE j = 0
    <3>1. j < i
      BY <1>1, <2>2
    <3> QED BY <1>1, <2>1, <2>2, <3>1
  <2>3. CASE j = Len(t) + 1
    <3>1. ~(j < i) /\ j + 1 = Len(s) + 1
      BY <1>1, <1>3, <2>3
    <3> QED BY <1>1, <2>1, <2>3, <3>1
  <2>4. CASE j \in 1 .. Len(t)
    <3>1. (j < i => j \in 1 .. Len(s)) /\ (~(j < i) => j + 1 \in 1 .. Len(s))
      BY <1>1, <1>3, <2>4
    <3>2. t[j] = IF j < i THEN s[j] ELSE s[j + 1]
      BY <2>4
    <3>3. \A k \in 1 .. Len(s) : At(l, s, k) = s[k]
      BY <1>1
    <3> QED BY <2>1, <2>4, <3>1, <3>2, <3>3
  <2>5. j = 0 \/ j = Len(t) + 1 \/ j \in 1 .. Len(t)
    <3>1. Len(t) \in Nat
      BY <1>1, <1>3
    <3> QED BY <3>1
  <2> QED BY <2>2, <2>3, <2>4, <2>5
<1>7. \A n \in NodeIds : on'[n] = l <=> on[n] = l /\ n # node
  <2>1. on' = [on EXCEPT ![node] = NULL] /\ l # NULL
    BY CellsAssumption DEF node
  <2> QED BY <1>3, <2>1 DEF Links
<1> DEFINE From(h) == IF h < i THEN h ELSE h + 1
<1>8. /\ \A h \in 1 .. Len(t) : From(h) \in 1 .. Len(s) /\ From(h) # i
      /\ \A h \in 1 .. Len(s) : h # i => \E k \in 1 .. Len(t) : From(k) = h
      /\ \A h, k \in 1 .. Len(t) : From(h) = From(k) => h = k
  <2>1. \A h \in 1 .. Len(t) : From(h) \in 1 .. Len(s) /\ From(h) # i
    BY <1>1, <1>3
  <2>2. ASSUME NEW h \in 1 .. Len(s), h # i PROVE \E k \in 1 .. Len(t) : From(k) = h
    <3>1. CASE h < i
      <4>1. h \in 1 .. Len(t) /\ From(h) = h
        BY <1>1, <1>3, <3>1
      <4> QED BY <4>1
    <3>2. CASE h > i
      <4>1. h - 1 \in 1 .. Len(t) /\ From(h - 1) = h
        BY <1>1, <1>3, <3>2
      <4> QED BY <4>1
    <3> QED BY <1>3, <2>2, <3>1, <3>2
  <2>3. \A h, k \in 1 .. Len(t) : From(h) = From(k) => h = k
    BY <1>1, <1>3
  <2> QED BY <2>1, <2>2, <2>3
<1>9. \A h \in 1 .. Len(t) : t[h] = s[From(h)]
  BY <1>3
<1> HIDE DEF From
<1>10. \A j, k \in 1 .. Len(t) : t[j] = t[k] => j = k
  <2> SUFFICES ASSUME NEW j \in 1 .. Len(t), NEW k \in 1 .. Len(t), t[j] = t[k] PROVE j = k
    OBVIOUS
  <2>1. s[From(j)] = s[From(k)] /\ From(j) \in 1 .. Len(s) /\ From(k) \in 1 .. Len(s)
    BY <1>8, <1>9
  <2>2. From(j) = From(k)
    BY <1>2, <2>1
  <2> QED BY <1>8, <2>2
<1>11. ASSUME NEW n \in NodeIds
       PROVE  on'[n] = l <=> \E j \in 1 .. Len(t) : t[j] = n
  <2>1. on[n] = l <=> \E j \in 1 .. Len(s) : s[j] = n
    BY DEF Represents
  <2>2. \A j \in 1 .. Len(s) : s[j] = node <=> j = i
    BY <1>2 DEF node
  <2>3. ASSUME on[n] = l, n # node PROVE \E j \in 1 .. Len(t) : t[j] = n
    <3>1. PICK h \in 1 .. Len(s) : s[h] = n
      BY <2>1, <2>3
    <3>2. h # i
      BY <2>2, <2>3, <3>1
    <3>3. PICK k \in 1 .. Len(t) : From(k) = h
      BY <1>8, <3>2
    <3> QED BY <1>9, <3>1, <3>3
  <2>4. ASSUME NEW j \in 1 .. Len(t), t[j] = n PROVE on[n] = l /\ n # node
    <3>1. From(j) \in 1 .. Len(s) /\ From(j) # i /\ s[From(j)] = n
      BY <1>8, <1>9, <2>4
    <3> QED BY <2>1, <2>2, <3>1
  <2> QED BY <1>7, <2>3, <2>4
<1>12. ASSUME NEW j \in 0 .. Len(t)
       PROVE  next'[At(l, t, j)] = At(l, t, j + 1) /\ prev'[At(l, t, j + 1)] = At(l, t, j)
  <2>1. /\ At(l, t, j) = IF j < i THEN At(l, s, j) ELSE At(l, s, j + 1)
        /\ At(l, t, j + 1) = IF j + 1 < i THEN At(l, s, j + 1) ELSE At(l, s, (j + 1) + 1)
    <3>1. j \in 0 .. Len(t) + 1 /\ j + 1 \in 0 .. Len(t) + 1
      BY <1>1, <1>3
    <3> QED BY <1>6, <3>1
  <2>2. CASE j + 1 < i
    <3>1. /\ j < i /\ j \in 0 .. Len(s) /\ j \in 0 .. Len(s) + 1 /\ j + 1 \in 0 .. Len(s) + 1
          /\ j # i - 1 /\ j + 1 # i + 1
      BY <1>1, <1>3, <2>2
    <3>2. At(l, s, j) # At(l, s, i - 1) /\ At(l, s, j + 1) # At(l, s, i + 1)
      BY <1>1, <1>3, <3>1
    <3>3. next[At(l, s, j)] = At(l, s, j + 1) /\ prev[At(l, s, j + 1)] = At(l, s, j)
      BY <1>1, <3>1
    <3>4. At(l, t, j) = At(l, s, j) /\ At(l, t, j + 1) = At(l, s, j + 1)
      BY <2>1, <2>2, <3>1
    <3>5. At(l, s, j) \in Cells /\ At(l, s, j + 1) \in Cells
      BY <1>1, <3>1
    <3> QED BY <1>5, <3>2, <3>3, <3>4, <3>5
  <2>3. CASE j + 1 = i
    <3>1. j = i - 1 /\ j < i /\ ~(j + 1 < i)
      BY <1>3, <2>3
    <3> QED BY <1>5, <2>1, <2>3, <3>1
  <2>4. CASE j + 1 > i
    <3>1. /\ ~(j < i) /\ ~(j + 1 < i) /\ j + 1 # i - 1 /\ (j + 1) + 1 # i + 1
          /\ j + 1 \in 0 .. Len(s) /\ j + 1 \in 0 .. Len(s) + 1 /\ (j + 1) + 1 \in 0 .. Len(s) + 1
      BY <1>1, <1>3, <2>4
    <3>2. At(l, s, j + 1) # At(l, s, i - 1) /\ At(l, s, (j + 1) + 1) # At(l, s, i + 1)
      BY <1>1, <1>3, <3>1
    <3>3. next[At(l, s, j + 1)] = At(l, s, (j + 1) + 1) /\ prev[At(l, s, (j + 1) + 1)] = At(l, s, j + 1)
      BY <1>1, <3>1
    <3>4. At(l, t, j) = At(l, s, j + 1) /\ At(l, t, j + 1) = At(l, s, (j + 1) + 1)
      BY <2>1, <3>1
    <3>5. At(l, s, j + 1) \in Cells /\ At(l, s, (j + 1) + 1) \in Cells
      BY <1>1, <3>1
    <3> QED BY <1>5, <3>2, <3>3, <3>4, <3>5
  <2> QED BY <1>3, <2>2, <2>3, <2>4
<1>13. Represents(next', prev', on', l, t)
  BY <1>10, <1>11, <1>12 DEF Represents
<1>14. ASSUME NEW m \in ListIds, NEW u, m # l, Represents(next, prev, on, m, u)
       PROVE  Represents(next', prev', on', m, u)
  <2>1. \A n \in NodeIds : on'[n] = m <=> on[n] = m
    <3>1. on' = [on EXCEPT ![node] = NULL] /\ m # NULL
      BY CellsAssumption DEF node
    <3>2. on[node] = l
      <4>1. \A n \in NodeIds : on[n] = l <=> \E j \in 1 .. Len(s) : s[j] = n
        BY Zenon DEF Represents
      <4> QED BY <1>3, <4>1 DEF node
    <3> QED BY <1>3, <1>14, <3>1, <3>2 DEF Links
  <2>2. ASSUME NEW j \in 0 .. Len(u) + 1
        PROVE  next'[At(m, u, j)] = next[At(m, u, j)] /\ prev'[At(m, u, j)] = prev[At(m, u, j)]
    <3>1. At(m, u, j) # At(l, s, i - 1) /\ At(m, u, j) # At(l, s, i + 1)
      BY <1>3, <1>14, AtApart
    <3>2. At(m, u, j) \in Cells
      BY <1>14, AtFacts
    <3> QED BY <1>5, <3>1, <3>2
  <2>3. Represents(next, prev, on, m, u)
    BY <1>14
  <2> QED BY <2>1, <2>2, <2>3, Others
<1> QED BY <1>13, <1>14
LEMMA RemoveAtFacts ==
  ASSUME NEW S, NEW s \in Seq(S), NEW i \in 1 .. Len(s)
  PROVE  /\ RemoveAt(s, i) \in Seq(S) /\ Len(RemoveAt(s, i)) = Len(s) - 1
         /\ \A j \in 1 .. Len(RemoveAt(s, i)) : RemoveAt(s, i)[j] = IF j < i THEN s[j] ELSE s[j + 1]
<1> DEFINE a == SubSeq(s, 1, i - 1)
           b == SubSeq(s, i + 1, Len(s))
<1>1. Len(s) \in Nat /\ i \in Nat /\ i - 1 \in Nat /\ i <= Len(s) /\ i # 0
  OBVIOUS
<1>2. \A j \in 1 .. Len(s) : s[j] \in S
  BY ElementOfSeq
<1>3. a \in Seq(S) /\ Len(a) = i - 1 /\ \A j \in 1 .. i - 1 : a[j] = s[j]
  <2>1. \A j \in 1 .. (i - 1) : s[j] \in S
    BY <1>1, <1>2
  <2>2. 1 \in Int /\ i - 1 \in Int
    BY <1>1
  <2>3. /\ a \in Seq(S) /\ Len(a) = IF 1 <= i - 1 THEN (i - 1) - 1 + 1 ELSE 0
        /\ \A j \in 1 .. (i - 1) - 1 + 1 : a[j] = s[1 + j - 1]
    BY <2>1, <2>2, SubSeqProperties
  <2>4. (i - 1) - 1 + 1 = i - 1 /\ (~(1 <= i - 1) => i - 1 = 0)
    BY <1>1
  <2>5. \A j \in 1 .. (i - 1) : 1 + j - 1 = j
    BY <1>1
  <2> HIDE DEF a
  <2> QED BY <2>3, <2>4, <2>5
<1>4. b \in Seq(S) /\ Len(b) = Len(s) - i /\ \A j \in 1 .. Len(s) - i : b[j] = s[i + j]
  <2>1. \A j \in (i + 1) .. Len(s) : s[j] \in S
    BY <1>1, <1>2
  <2>2. i + 1 \in Int /\ Len(s) \in Int
    BY <1>1
  <2>3. /\ b \in Seq(S) /\ Len(b) = IF i + 1 <= Len(s) THEN Len(s) - (i + 1) + 1 ELSE 0
        /\ \A j \in 1 .. Len(s) - (i + 1) + 1 : b[j] = s[(i + 1) + j - 1]
    BY <2>1, <2>2, SubSeqProperties
  <2>4. Len(s) - (i + 1) + 1 = Len(s) - i /\ (~(i + 1 <= Len(s)) => Len(s) - i = 0)
    BY <1>1
  <2>5. \A j \in 1 .. (Len(s) - i) : (i + 1) + j - 1 = i + j
    BY <1>1
  <2> HIDE DEF b
  <2> QED BY <2>3, <2>4, <2>5
<1> HIDE DEF a, b
<1>5. /\ a \o b \in Seq(S) /\ Len(a \o b) = Len(a) + Len(b)
      /\ \A j \in 1 .. Len(a) + Len(b) : (a \o b)[j] = IF j <= Len(a) THEN a[j] ELSE b[j - Len(a)]
  BY <1>3, <1>4, ConcatProperties
<1> DEFINE r == a \o b
<1>6. RemoveAt(s, i) = r
  BY DEF RemoveAt, a, b
<1>7. r \in Seq(S) /\ Len(r) = Len(s) - 1
  BY <1>1, <1>3, <1>4, <1>5
<1>8. ASSUME NEW j \in 1 .. Len(s) - 1 PROVE r[j] = IF j < i THEN s[j] ELSE s[j + 1]
  <2>1. j \in 1 .. Len(a) + Len(b)
    BY <1>1, <1>3, <1>4
  <2>2. CASE j < i
    <3>1. j <= Len(a) /\ j \in 1 .. i - 1
      BY <1>1, <1>3, <2>2
    <3> QED BY <1>3, <1>5, <2>1, <2>2, <3>1
  <2>3. CASE ~(j < i)
    <3>1. ~(j <= Len(a)) /\ j - Len(a) \in 1 .. Len(s) - i /\ i + (j - Len(a)) = j + 1
      BY <1>1, <1>3, <2>3
    <3> QED BY <1>4, <1>5, <2>1, <2>3, <3>1
  <2> QED BY <2>2, <2>3
<1> HIDE DEF r
<1> QED BY <1>6, <1>7, <1>8

\* When one list has changed, so has its walk, and no other.
LEMMA NewWalks ==
  ASSUME Chained, Links', NEW l \in ListIds, NEW t, Represents(next', prev', on', l, t),
         \A m \in ListIds : \A u : (m # l /\ Represents(next, prev, on, m, u))
                                  => Represents(next', prev', on', m, u)
  PROVE  /\ Chained'
         /\ [m \in ListIds |-> Walk(m)]' = [[m \in ListIds |-> Walk(m)] EXCEPT ![l] = t]
<1>1. ASSUME NEW m \in ListIds, NEW u, Represents(next', prev', on', m, u)
      PROVE  Represents(next', prev', on', m, Walk(m)') /\ Walk(m)' = u
  <2>1. WalkAlong(next', m) = u
    BY <1>1, WalkFinds
  <2>2. Walk(m)' = u
    BY <2>1 DEF Walk
  <2> QED BY <1>1, <2>2
<1>2. \A m \in ListIds : m # l => Represents(next', prev', on', m, Walk(m))
  BY DEF Chained
<1>3. Walk(l)' = t /\ Represents(next', prev', on', l, Walk(l)')
  BY <1>1
<1>4. \A m \in ListIds : m # l => Walk(m)' = Walk(m) /\ Represents(next', prev', on', m, Walk(m)')
  BY <1>1, <1>2
<1>5. Chained'
  BY <1>3, <1>4 DEF Chained
<1> QED BY <1>3, <1>4, <1>5

LEMMA ChainedInit == Init => Chained /\ L!ListsInit
<1> SUFFICES ASSUME Init PROVE Chained /\ L!ListsInit
  OBVIOUS
<1>1. Links
  BY ListInit DEF ListInv
<1>2. ASSUME NEW l \in ListIds PROVE Represents(next, prev, on, l, <<>>) /\ Walk(l) = <<>>
  <2>1. next[HeadOf(l)] = TailOf(l) /\ prev[TailOf(l)] = HeadOf(l)
    BY CellFacts DEF Init, Heads, Tails, HeadOf, TailOf
  <2>2. Len(<<>>) = 0 /\ 1 .. 0 = {} /\ 0 .. 0 = {0} /\ <<>> \in Seq(NodeIds)
    OBVIOUS
  <2>3. \A n \in NodeIds : on[n] # l
    BY CellsAssumption DEF Init
  <2>4. At(l, <<>>, 0) = HeadOf(l) /\ At(l, <<>>, 0 + 1) = TailOf(l)
    BY <2>2 DEF At
  <2>5. Represents(next, prev, on, l, <<>>)
    BY <2>1, <2>2, <2>3, <2>4 DEF Represents
  <2> QED BY <2>5, WalkFinds DEF Walk
<1>3. Chained
  BY <1>1, <1>2 DEF Chained
<1> QED BY <1>2, <1>3 DEF Init, L!ListsInit

\* What a list that is read as s says of s.
LEMMA ReadFacts ==
  ASSUME NEW l \in ListIds, NEW s, Represents(next, prev, on, l, s)
  PROVE  /\ s \in Seq(NodeIds) /\ Len(s) \in Nat /\ DOMAIN s = 1 .. Len(s)
         /\ \A i \in 1 .. Len(s) : s[i] \in NodeIds /\ At(l, s, i) = s[i] /\ on[s[i]] = l
         /\ At(l, s, Len(s) + 1) = TailOf(l) /\ next[HeadOf(l)] = At(l, s, 1)
<1>1. s \in Seq(NodeIds)
  BY Zenon DEF Represents
<1>2. Len(s) \in Nat /\ DOMAIN s = 1 .. Len(s) /\ 0 \in 0 .. Len(s) /\ 0 + 1 = 1
  BY <1>1
<1>3. \A i \in 1 .. Len(s) : s[i] \in NodeIds
  BY <1>1, ElementOfSeq
<1>4. \A i \in 1 .. Len(s) : on[s[i]] = l
  BY <1>3, Zenon DEF Represents
<1>5. next[At(l, s, 0)] = At(l, s, 0 + 1)
  BY <1>2, Zenon DEF Represents
<1>6. /\ \A i \in 1 .. Len(s) : At(l, s, i) = s[i]
      /\ At(l, s, 0) = HeadOf(l) /\ At(l, s, Len(s) + 1) = TailOf(l)
  BY <1>2 DEF At
<1> QED BY <1>1, <1>2, <1>3, <1>4, <1>5, <1>6

LEMMA ListsStep ==
  ASSUME ListInv, Chained, [Next]_vars
  PROVE  Chained' /\ [L!ListsNext]_(L!lvars)
<1> DEFINE C == [m \in ListIds |-> Walk(m)]
<1>1. Links /\ Links'
  BY ListStep DEF ListInv
<1>2. ASSUME NEW l \in ListIds PROVE Represents(next, prev, on, l, Walk(l)) /\ C[l] = Walk(l)
  BY DEF Chained
<1>3. ASSUME NEW l \in ListIds, ListPop(l) PROVE Chained' /\ [L!ListsNext]_(L!lvars)
  <2> DEFINE s == Walk(l)
  <2>1. /\ Len(s) \in Nat /\ s \in Seq(NodeIds)
        /\ \A j \in 1 .. Len(s) : s[j] \in NodeIds /\ At(l, s, j) = s[j]
        /\ At(l, s, Len(s) + 1) = TailOf(l) /\ next[HeadOf(l)] = At(l, s, 1)
    <3>1. Represents(next, prev, on, l, s)
      BY <1>2
    <3> HIDE DEF s
    <3> QED BY <3>1, ReadFacts
  <2>2. CASE next[HeadOf(l)] = TailOf(l)
    <3>1. UNCHANGED <<next, prev, on>> /\ answer' = <<>>
      BY <1>3, <2>2 DEF ListPop
    <3>2. Chained' /\ UNCHANGED C
      BY <3>1 DEF Chained, Links, Walk
    <3>3. s = <<>>
      <4> HIDE DEF s
      <4>1. Len(s) = 0
        BY <2>1, <2>2, CellFacts
      <4> QED BY <2>1, <4>1, EmptySeq
    <3>4. L!PopFirst(l)
      BY <1>2, <3>1, <3>2, <3>3 DEF L!PopFirst
    <3> QED BY <3>2, <3>4 DEF L!ListsNext
  <2>3. CASE next[HeadOf(l)] # TailOf(l)
    <3>1. Len(s) # 0 /\ 1 \in 1 .. Len(s) /\ next[HeadOf(l)] = s[1]
      <4> HIDE DEF s
      <4>1. Len(s) # 0
        BY <2>1, <2>3
      <4>2. 1 \in 1 .. Len(s)
        BY <2>1, <4>1
      <4> QED BY <2>1, <4>1, <4>2
    <3>2. ListRemove(s[1]) /\ on' = [on EXCEPT ![s[1]] = NULL] /\ answer' = <<s[1]>>
      BY <1>3, <2>3, <3>1 DEF ListPop
    <3> DEFINE t == Tail(s)
    <3>3. /\ s # <<>> /\ t \in Seq(NodeIds) /\ Len(t) = Len(s) - 1 /\ Head(s) = s[1]
          /\ \A j \in 1 .. Len(t) : t[j] = IF j < 1 THEN s[j] ELSE s[j + 1]
      <4> HIDE DEF s
      <4>1. s # <<>>
        BY <3>1, EmptySeq
      <4>2. t \in Seq(NodeIds) /\ Len(t) = Len(s) - 1 /\ \A j \in 1 .. Len(t) : t[j] = s[j + 1]
        BY <2>1, <4>1, HeadTailProperties
      <4>3. \A j \in 1 .. Len(t) : ~(j < 1)
        OBVIOUS
      <4> QED BY <2>1, <4>1, <4>2, <4>3
    <3>4. Represents(next, prev, on, l, s)
      BY <1>2
    <3> HIDE DEF s, t
    <3>5. /\ Represents(next', prev', on', l, t)
          /\ \A m \in ListIds : \A u : (m # l /\ Represents(next, prev, on, m, u))
                                     => Represents(next', prev', on', m, u)
      BY <1>1, <3>1, <3>2, <3>3, <3>4, Removed
    <3>6. Chained' /\ C' = [C EXCEPT ![l] = t]
      BY <1>1, <3>5, NewWalks
    <3>7. C[l] = s
      BY <1>2 DEF s
    <3>8. L!PopFirst(l)
      <4> HIDE DEF C
      <4>1. C' = [C EXCEPT ![l] = Tail(C[l])] /\ answer' = <<Head(C[l])>> /\ C[l] # <<>>
        BY <3>2, <3>3, <3>6, <3>7 DEF t
      <4> QED BY <4>1 DEF L!PopFirst, C
    <3> QED BY <3>6, <3>8 DEF L!ListsNext
  <2> QED BY <2>2, <2>3
<1>4. ASSUME NEW n \in NodeIds, on[n] = NULL PROVE n \notin L!Listed
  <2>1. L!Listed = UNION {ToSet(C[l]) : l \in ListIds}
    BY DEF L!Listed, L!ToSet, ToSet
  <2>2. ASSUME NEW l \in ListIds, n \in ToSet(C[l]) PROVE FALSE
    <3> DEFINE s == Walk(l)
    <3>1. Represents(next, prev, on, l, s) /\ C[l] = s
      BY <1>2
    <3> HIDE DEF C, s
    <3>2. DOMAIN s = 1 .. Len(s) /\ \A i \in 1 .. Len(s) : on[s[i]] = l
      BY <3>1, ReadFacts
    <3>3. PICK i \in 1 .. Len(s) : s[i] = n
      BY <2>2, <3>1, <3>2 DEF ToSet
    <3> QED BY <1>4, <3>2, <3>3, CellsAssumption
  <2> HIDE DEF C
  <2> QED BY <2>1, <2>2
<1>5. ASSUME NEW l \in ListIds, NEW n \in NodeIds, ListPush(l, n) \/ ListAppend(l, n)
      PROVE  Chained' /\ [L!ListsNext]_(L!lvars)
  <2> DEFINE s == Walk(l)
  <2>1. Represents(next, prev, on, l, s) /\ C[l] = s
    BY <1>2
  <2> HIDE DEF s
  <2>2. /\ Len(s) \in Nat /\ s \in Seq(NodeIds)
        /\ At(l, s, Len(s) + 1) = TailOf(l) /\ next[HeadOf(l)] = At(l, s, 1)
    BY <2>1, ReadFacts
  <2>3. n \notin L!Listed /\ on[n] = NULL /\ on' = [on EXCEPT ![n] = l] /\ answer' = <<>>
    BY <1>4, <1>5 DEF ListPush, ListAppend
  <2>4. CASE ListPush(l, n)
    <3> DEFINE t == <<n>> \o s
    <3>1. InsertBefore(At(l, s, 1), n) /\ 1 \in 1 .. Len(s) + 1
      BY <2>2, <2>4 DEF ListPush
    <3>2. /\ t \in Seq(NodeIds) /\ Len(t) = Len(s) + 1
          /\ \A j \in 1 .. Len(t) : t[j] = IF j < 1 THEN s[j] ELSE IF j = 1 THEN n ELSE s[j - 1]
      <4>1. <<n>> \in Seq(NodeIds) /\ Len(<<n>>) = 1 /\ <<n>>[1] = n
        OBVIOUS
      <4>2. /\ t \in Seq(NodeIds) /\ Len(t) = 1 + Len(s)
            /\ \A j \in 1 .. 1 + Len(s) : t[j] = IF j <= 1 THEN <<n>>[j] ELSE s[j - 1]
        BY <2>2, <4>1, ConcatProperties
      <4> HIDE DEF t
      <4>3. Len(t) = Len(s) + 1 /\ \A j \in 1 .. Len(t) : ~(j < 1) /\ (j <= 1 <=> j = 1) /\ j \in 1 .. 1 + Len(s)
        BY <2>2, <4>2
      <4> QED BY <4>1, <4>2, <4>3
    <3> HIDE DEF t
    <3>3. /\ Represents(next', prev', on', l, t)
          /\ \A m \in ListIds : \A u : (m # l /\ Represents(next, prev, on, m, u))
                                     => Represents(next', prev', on', m, u)
      <4>1. PICK i \in 1 .. Len(s) + 1 : i = 1
        BY <3>1
      <4>2. /\ InsertBefore(At(l, s, i), n)
            /\ \A j \in 1 .. Len(t) : t[j] = IF j < i THEN s[j] ELSE IF j = i THEN n ELSE s[j - 1]
        BY <3>1, <3>2, <4>1
      <4>3. Links /\ Represents(next, prev, on, l, s) /\ on[n] = NULL /\ on' = [on EXCEPT ![n] = l]
        BY <1>1, <2>1, <2>3
      <4>4. t \in Seq(NodeIds) /\ Len(t) = Len(s) + 1
        BY <3>2
      <4> QED BY <4>2, <4>3, <4>4, Inserted
    <3>4. Chained' /\ C' = [C EXCEPT ![l] = t]
      BY <1>1, <3>3, NewWalks
    <3>5. L!Push(l, n)
      <4> HIDE DEF C
      <4>1. C' = [C EXCEPT ![l] = <<n>> \o C[l]]
        BY <2>1, <3>4 DEF t
      <4> QED BY <2>3, <4>1 DEF L!Push, C
    <3> QED BY <3>4, <3>5 DEF L!ListsNext
  <2>5. CASE ListAppend(l, n)
    <3> DEFINE t == Append(s, n)
    <3>1. InsertBefore(At(l, s, Len(s) + 1), n) /\ Len(s) + 1 \in 1 .. Len(s) + 1
      BY <2>2, <2>5 DEF ListAppend
    <3>2. /\ t \in Seq(NodeIds) /\ Len(t) = Len(s) + 1
          /\ \A j \in 1 .. Len(t) : t[j] = IF j < Len(s) + 1 THEN s[j]
                                           ELSE IF j = Len(s) + 1 THEN n ELSE s[j - 1]
      BY <2>2
    <3> HIDE DEF t
    <3>3. /\ Represents(next', prev', on', l, t)
          /\ \A m \in ListIds : \A u : (m # l /\ Represents(next, prev, on, m, u))
                                     => Represents(next', prev', on', m, u)
      <4>1. PICK i \in 1 .. Len(s) + 1 : i = Len(s) + 1
        BY <3>1
      <4>2. /\ InsertBefore(At(l, s, i), n)
            /\ \A j \in 1 .. Len(t) : t[j] = IF j < i THEN s[j] ELSE IF j = i THEN n ELSE s[j - 1]
        BY <3>1, <3>2, <4>1
      <4>3. Links /\ Represents(next, prev, on, l, s) /\ on[n] = NULL /\ on' = [on EXCEPT ![n] = l]
        BY <1>1, <2>1, <2>3
      <4>4. t \in Seq(NodeIds) /\ Len(t) = Len(s) + 1
        BY <3>2
      <4> QED BY <4>2, <4>3, <4>4, Inserted
    <3>4. Chained' /\ C' = [C EXCEPT ![l] = t]
      BY <1>1, <3>3, NewWalks
    <3>5. L!PutLast(l, n)
      <4> HIDE DEF C
      <4>1. C' = [C EXCEPT ![l] = Append(C[l], n)]
        BY <2>1, <3>4 DEF t
      <4> QED BY <2>3, <4>1 DEF L!PutLast, C
    <3> QED BY <3>4, <3>5 DEF L!ListsNext
  <2> QED BY <1>5, <2>4, <2>5
<1>6. ASSUME NEW n \in NodeIds, ListUnlink(n) PROVE Chained' /\ [L!ListsNext]_(L!lvars)
  <2>1. PICK l \in ListIds : on[n] = l
    BY <1>1, <1>6 DEF ListUnlink, Links
  <2> DEFINE s == Walk(l)
  <2>2. Represents(next, prev, on, l, s) /\ C[l] = s
    BY <1>2
  <2> HIDE DEF s
  <2>3. s \in Seq(NodeIds) /\ Len(s) \in Nat /\ DOMAIN s = 1 .. Len(s)
    BY <2>2, ReadFacts
  <2>4. PICK i \in 1 .. Len(s) : s[i] = n
    BY <2>1, <2>2, Zenon DEF Represents
  <2> DEFINE t == RemoveAt(s, i)
  <2>5. /\ t \in Seq(NodeIds) /\ Len(t) = Len(s) - 1
        /\ \A j \in 1 .. Len(t) : t[j] = IF j < i THEN s[j] ELSE s[j + 1]
    BY <2>3, RemoveAtFacts
  <2>6. ListRemove(s[i]) /\ on' = [on EXCEPT ![s[i]] = NULL] /\ answer' = <<>>
    BY <1>6, <2>4 DEF ListUnlink
  <2> HIDE DEF t
  <2>7. /\ Represents(next', prev', on', l, t)
        /\ \A m \in ListIds : \A u : (m # l /\ Represents(next, prev, on, m, u))
                                   => Represents(next', prev', on', m, u)
    BY <1>1, <2>2, <2>5, <2>6, Removed
  <2>8. Chained' /\ C' = [C EXCEPT ![l] = t]
    BY <1>1, <2>7, NewWalks
  <2>9. L!Unlink(l, i) /\ i \in DOMAIN C[l]
    <3>1. i \in DOMAIN C[l]
      <4> HIDE DEF C
      <4> QED BY <2>2, <2>3
    <3>2. C' = [C EXCEPT ![l] = RemoveAt(C[l], i)] /\ answer' = <<>>
      <4> HIDE DEF C
      <4> QED BY <2>2, <2>6, <2>8 DEF t
    <3>3. L!Unlink(l, i)
      <4> HIDE DEF Walk
      <4> QED BY <3>2, Zenon DEF L!Unlink, L!RemoveAt, RemoveAt
    <3> QED BY <3>1, <3>3
  <2> QED BY <2>8, <2>9 DEF L!ListsNext
<1>7. CASE UNCHANGED vars
  <2>1. UNCHANGED <<next, prev, on, answer>>
    BY <1>7 DEF vars
  <2>2. Chained' /\ UNCHANGED C
    BY <2>1 DEF Chained, Links, Walk
  <2> QED BY <2>1, <2>2 DEF L!lvars
<1> QED BY <1>3, <1>5, <1>6, <1>7 DEF Next

\* The pointers implement sequences: every operation does to the nodes, read
\* from the head to the tail, what its name says, for any number of lists and
\* nodes, and no walk of list_find or list_len runs in circles.
THEOREM ListsImplemented == Spec => ImplementsLists
<1>1. Init => ListInv /\ Chained /\ L!ListsInit
  BY ListInit, ChainedInit
<1>2. ListInv /\ Chained /\ [Next]_vars => ListInv' /\ Chained' /\ [L!ListsNext]_(L!lvars)
  BY ListStep, ListsStep
<1> QED BY <1>1, <1>2, PTL DEF Spec, ImplementsLists, L!ListsSpec
=============================================================================
