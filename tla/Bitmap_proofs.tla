---------------------------- MODULE Bitmap_proofs ---------------------------
(***************************************************************************)
(* Facts about natural numbers that several proofs rest on, and what the   *)
(* operators of Bitmap return, for every map and every request.            *)
(***************************************************************************)
EXTENDS Bitmap, TLAPS, WellFoundedInduction

-----------------------------------------------------------------------------
(* Natural numbers.                                                        *)

\* A non-empty set of natural numbers has a least element.
LEMMA NatMin ==
  ASSUME NEW T, T \subseteq Nat, T # {}
  PROVE  \E x \in T : \A y \in T : x <= y
<1> DEFINE less == {p \in Nat \X Nat : p[1] < p[2]}
<1>1. IsWellFoundedOn(less, Nat)
  BY NatLessThanWellFounded DEF OpToRel
<1>2. PICK x \in T : \A y \in T : ~(<<y, x>> \in less)
  <2> HIDE DEF less
  <2> QED BY <1>1, WFMin
<1>3. \A y, z \in Nat : y < z => <<y, z>> \in less
  OBVIOUS
<1> HIDE DEF less
<1>4. \A y \in T : ~(y < x)
  BY <1>2, <1>3
<1> QED
  BY <1>4

\* Induction over the natural numbers, for a set.
LEMMA NatInduct ==
  ASSUME NEW T, 0 \in T, \A n \in Nat : n \in T => n + 1 \in T
  PROVE  \A n \in Nat : n \in T
<1> DEFINE bad == {n \in Nat : n \notin T}
<1> SUFFICES ASSUME bad # {} PROVE FALSE
  OBVIOUS
<1>1. PICK n \in bad : \A k \in bad : n <= k
  <2>1. bad \subseteq Nat
    OBVIOUS
  <2> HIDE DEF bad
  <2> QED BY <2>1, NatMin
<1>2. n \in Nat /\ n \notin T /\ n # 0
  BY <1>1
<1>3. n - 1 \in Nat /\ ~(n <= n - 1) /\ n = (n - 1) + 1
  BY <1>2
<1>4. n - 1 \in T
  BY <1>1, <1>3
<1> QED BY <1>2, <1>3, <1>4

\* A product grows by the factor at each step.
LEMMA MulMono ==
  ASSUME NEW s \in Nat, NEW m \in Nat, NEW n \in Nat
  PROVE  /\ m * s \in Nat
         /\ m <= n => m * s <= n * s
         /\ m < n => m * s + s <= n * s
<1>1. m * s \in Nat /\ n * s \in Nat OBVIOUS
<1>2. ASSUME m < n PROVE m * s + s <= n * s
  <2>1. PICK k \in Nat : n = m + 1 + k
    <3>1. n - m - 1 \in Nat /\ n = m + 1 + (n - m - 1) BY <1>2
    <3> QED BY <3>1
  <2>2. n * s = m * s + s + k * s BY <2>1
  <2>3. k * s \in Nat OBVIOUS
  <2> QED BY <2>2, <2>3, <1>1
<1> QED BY <1>1, <1>2

\* A quotient, and what is left of the number.
LEMMA Division ==
  ASSUME NEW a \in Nat, NEW s \in Nat, s >= 1
  PROVE a \div s \in Nat /\ (a \div s) * s <= a /\ a < (a \div s) * s + s
OBVIOUS

\* A number from one multiple up to the next has that quotient.
LEMMA Multiple ==
  ASSUME NEW q \in Nat, NEW s \in Nat, s >= 1, NEW a \in Nat, q * s <= a, a < q * s + s
  PROVE a \div s = q
<1> DEFINE d == a \div s
<1>1. d \in Nat /\ d * s <= a /\ a < d * s + s
  BY Division
<1> HIDE DEF d
<1>2. ~(d < q) BY <1>1, MulMono
<1>3. ~(q < d) BY <1>1, MulMono
<1>4. d = q BY <1>1, <1>2, <1>3
<1> QED BY <1>4 DEF d

-----------------------------------------------------------------------------
(* The operators.                                                          *)

\* A successful bitmap_alloc returns the first free run and marks exactly it.
LEMMA AllocFound ==
  ASSUME NEW used, NEW bits \in Nat, NEW cnt \in Nat \ {0},
         ~AllocFails(used, bits, cnt)
  PROVE  LET idx == AllocIndex(used, bits, cnt)
         IN  /\ idx \in 0 .. (bits - 1) /\ idx + cnt <= bits
             /\ \A i \in idx .. (idx + cnt - 1) : i \notin used
             /\ \A s \in 0 .. (idx - 1) : ~RunFree(used, bits, s, cnt)
             /\ AllocUsed(used, bits, cnt) = used \cup idx .. (idx + cnt - 1)
<1> DEFINE idx == AllocIndex(used, bits, cnt)
<1> DEFINE runs == FreeRuns(used, bits, cnt)
<1>1. Scan(used, bits, cnt) # NotFound
  BY DEF AllocFails
<1>2. /\ runs # {}
      /\ Scan(used, bits, cnt) = CHOOSE s \in runs : \A t \in runs : s <= t
  BY <1>1 DEF Scan
<1>3. runs \subseteq Nat
  BY DEF FreeRuns
<1>4. \E s \in runs : \A t \in runs : s <= t
  <2> HIDE DEF runs
  <2> QED BY <1>2, <1>3, NatMin
<1>5. idx = CHOOSE s \in runs : \A t \in runs : s <= t
  BY <1>1, <1>2 DEF AllocIndex
<1>6. idx \in runs /\ \A t \in runs : idx <= t
  <2> HIDE DEF runs, idx
  <2> QED BY <1>4, <1>5
<1>7. idx \in 0 .. (bits - 1) /\ RunFree(used, bits, idx, cnt)
  BY <1>6 DEF FreeRuns
<1>8. \A s \in 0 .. (idx - 1) : ~RunFree(used, bits, s, cnt)
  BY <1>6, <1>7 DEF FreeRuns
<1>9. AllocUsed(used, bits, cnt) = used \cup idx .. (idx + cnt - 1)
  BY <1>1, <1>7 DEF AllocUsed, AllocIndex, ConSet, RunFree
<1> QED
  BY <1>7, <1>8, <1>9 DEF RunFree

\* A failed one returns index 0 and marks nothing.
LEMMA AllocNotFound ==
  ASSUME NEW used, NEW bits, NEW cnt, AllocFails(used, bits, cnt)
  PROVE  AllocIndex(used, bits, cnt) = 0 /\ AllocUsed(used, bits, cnt) = used
BY DEF AllocFails, AllocIndex, AllocUsed
=============================================================================
