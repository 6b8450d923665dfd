---------------------------- MODULE Format_proofs ---------------------------
(***************************************************************************)
(* Proofs about Format, in three parts.  Powers, quotients and numerals:   *)
(* dividing by the base again and again gives the digits of a numeral,     *)
(* last to first.  Texts joined: a character of a format stands behind the *)
(* pieces before it.  The steps: FInv says how far vsprintf has come, and  *)
(* what the conversion it is in has stored.                                *)
(***************************************************************************)
EXTENDS Format, Bitmap_proofs, SequenceTheorems

-----------------------------------------------------------------------------
(* Quotients and powers.                                                   *)

\* Dividing twice is dividing by the product.
LEMMA DivDiv ==
  ASSUME NEW a \in Nat, NEW s \in Nat, s >= 1, NEW b \in Nat, b >= 1
  PROVE  (a \div s) \div b = a \div (b * s)
<1> DEFINE q == a \div s
           r == q \div b
<1>1. q \in Nat /\ q * s <= a /\ a < q * s + s
  BY Division
<1> HIDE DEF q
<1>2. r \in Nat /\ r * b <= q /\ q < r * b + b
  BY <1>1, Division
<1> HIDE DEF r
<1>3. r * b \in Nat /\ (r + 1) * b \in Nat /\ r * b + b = (r + 1) * b
  BY <1>2
<1>4. (r * b) * s <= q * s /\ q * s + s <= ((r + 1) * b) * s
  BY <1>1, <1>2, <1>3, MulMono
<1>5. /\ b * s \in Nat /\ b * s >= 1
      /\ (r * b) * s = r * (b * s) /\ ((r + 1) * b) * s = r * (b * s) + b * s
  <2>1. 1 * s <= b * s /\ b * s \in Nat
    BY MulMono
  <2> QED BY <1>2, <2>1
<1>6. q * s \in Nat /\ r * (b * s) \in Nat
  <2>1. q * s \in Nat /\ \A t \in Nat : r * t \in Nat
    BY <1>1, <1>2
  <2> QED BY <2>1, <1>5
<1> DEFINE t == b * s
           rt == r * t
           qs == q * s
<1>7. rt <= a /\ a < rt + t
  <2>1. /\ rt \in Nat /\ t \in Nat /\ qs \in Nat /\ rt <= qs /\ qs + s <= rt + t
        /\ qs <= a /\ a < qs + s
    BY <1>1, <1>4, <1>5, <1>6
  <2> HIDE DEF rt, t, qs
  <2> QED BY <2>1
<1>8. a \div t = r
  <2>1. t \in Nat /\ t >= 1 /\ r * t <= a /\ a < r * t + t
    BY <1>5, <1>7
  <2> HIDE DEF t
  <2> QED BY <2>1, <1>2, Multiple
<1> QED BY <1>8 DEF q, r

\* A quotient is zero exactly below the divisor.
LEMMA DivZero ==
  ASSUME NEW a \in Nat, NEW s \in Nat, s >= 1
  PROVE  a \div s = 0 <=> a < s
<1> DEFINE q == a \div s
<1>1. q \in Nat /\ q * s <= a /\ a < q * s + s
  BY Division
<1> HIDE DEF q
<1>2. q = 0 => a < s
  BY <1>1
<1>3. q # 0 => s <= a
  <2>1. q # 0 => 1 * s <= q * s /\ q * s \in Nat
    BY <1>1, MulMono
  <2> QED BY <2>1, <1>1
<1> QED BY <1>1, <1>2, <1>3 DEF q

\* Power is what its recursion says.
Powers(b) == CHOOSE p : p = [j \in Nat |-> IF j = 0 THEN 1 ELSE b * p[j - 1]]

LEMMA PowerRecursion ==
  ASSUME NEW b
  PROVE  Power(b, 0) = 1 /\ \A k \in Nat : Power(b, k + 1) = b * Power(b, k)
<1> DEFINE Solves(g, m) == g = [j \in 0 .. m |-> IF j = 0 THEN 1 ELSE b * g[j - 1]]
           solvable == {m \in Nat : \E g : Solves(g, m)}
           Agree(k) == \A m, n \in Nat : \A g, h :
                         Solves(g, m) /\ Solves(h, n) /\ k <= m /\ k <= n => g[k] = h[k]
           agreed == {k \in Nat : Agree(k)}
<1>1. \A m \in Nat : \E g : Solves(g, m)
  <2>1. 0 \in solvable
    <3>1. Solves([j \in 0 .. 0 |-> 1], 0)
      OBVIOUS
    <3> QED BY <3>1
  <2>2. ASSUME NEW m \in Nat, m \in solvable PROVE m + 1 \in solvable
    <3>1. PICK g : Solves(g, m)
      BY <2>2
    <3> DEFINE h == [j \in 0 .. m + 1 |-> IF j = m + 1 THEN b * g[m] ELSE g[j]]
    <3>2. ASSUME NEW j \in 0 .. m + 1
          PROVE  h[j] = IF j = 0 THEN 1 ELSE b * h[j - 1]
      <4>1. CASE j = m + 1
        <5>1. m \in 0 .. m + 1 /\ m # m + 1 /\ j - 1 = m /\ j # 0
          BY <4>1
        <5> QED BY <4>1, <5>1
      <4>2. CASE j # m + 1
        <5>1. j \in 0 .. m /\ (j # 0 => j - 1 \in 0 .. m + 1 /\ j - 1 # m + 1)
          BY <4>2
        <5>2. g[j] = IF j = 0 THEN 1 ELSE b * g[j - 1]
          BY <3>1, <5>1
        <5> QED BY <4>2, <5>1, <5>2
      <4> QED BY <4>1, <4>2
    <3>3. Solves(h, m + 1)
      <4>1. h = [j \in 0 .. m + 1 |-> h[j]]
        OBVIOUS
      <4> HIDE DEF h
      <4> QED BY <3>2, <4>1
    <3>4. m + 1 \in Nat /\ \E f : Solves(f, m + 1)
      <4> HIDE DEF Solves, h
      <4> QED BY <3>3
    <3> HIDE DEF Solves
    <3> QED BY <3>4
  <2> HIDE DEF solvable
  <2>3. \A m \in Nat : m \in solvable
    BY <2>1, <2>2, NatInduct
  <2> QED BY <2>3 DEF solvable
<1>2. \A k \in Nat : Agree(k)
  <2>1. 0 \in agreed
    <3>1. ASSUME NEW m \in Nat, NEW g, Solves(g, m) PROVE g[0] = 1
      <4>1. 0 \in 0 .. m
        OBVIOUS
      <4> QED BY <3>1, <4>1
    <3> HIDE DEF Solves
    <3>2. Agree(0)
      BY <3>1
    <3> QED BY <3>2
  <2>2. ASSUME NEW k \in Nat, k \in agreed PROVE k + 1 \in agreed
    <3>1. ASSUME NEW m \in Nat, NEW g, Solves(g, m), k + 1 <= m
          PROVE  g[k + 1] = b * g[k] /\ k <= m
      <4>1. k + 1 \in 0 .. m /\ k + 1 # 0 /\ (k + 1) - 1 = k /\ k <= m
        BY <3>1
      <4> QED BY <3>1, <4>1
    <3>2. ASSUME NEW m \in Nat, NEW n \in Nat, NEW g, NEW h, Solves(g, m), Solves(h, n),
                 k + 1 <= m, k + 1 <= n
          PROVE  g[k + 1] = h[k + 1]
      <4>1. g[k + 1] = b * g[k] /\ h[k + 1] = b * h[k] /\ k <= m /\ k <= n
        <5> HIDE DEF Solves
        <5> QED BY <3>1, <3>2
      <4>2. Agree(k)
        BY <2>2
      <4>3. g[k] = h[k]
        <5> HIDE DEF Solves
        <5> QED BY <3>2, <4>1, <4>2
      <4> QED BY <4>1, <4>3
    <3> HIDE DEF Solves
    <3> QED BY <3>2
  <2> HIDE DEF agreed
  <2>3. \A k \in Nat : k \in agreed
    BY <2>1, <2>2, NatInduct
  <2> QED BY <2>3 DEF agreed
<1> DEFINE some == [m \in Nat |-> CHOOSE g : Solves(g, m)]
           all == [j \in Nat |-> some[j][j]]
<1>3. ASSUME NEW m \in Nat PROVE Solves(some[m], m)
  <2>1. \E g : Solves(g, m)
    BY <1>1
  <2>2. some[m] = CHOOSE g : Solves(g, m)
    OBVIOUS
  <2> HIDE DEF some, Solves
  <2> QED BY <2>1, <2>2
<1>4. ASSUME NEW j \in Nat PROVE all[j] = IF j = 0 THEN 1 ELSE b * all[j - 1]
  <2>1. all[j] = some[j][j] /\ (j # 0 => j - 1 \in Nat /\ all[j - 1] = some[j - 1][j - 1])
    OBVIOUS
  <2>2. Solves(some[j], j) /\ (j # 0 => Solves(some[j - 1], j - 1))
    <3>1. j # 0 => j - 1 \in Nat
      OBVIOUS
    <3> HIDE DEF Solves, some
    <3> QED BY <1>3, <3>1
  <2> HIDE DEF some, all
  <2>3. some[j][j] = IF j = 0 THEN 1 ELSE b * some[j][j - 1]
    BY <2>2
  <2>4. j # 0 => some[j][j - 1] = some[j - 1][j - 1]
    <3> HIDE DEF Solves
    <3>1. j # 0 => j - 1 \in Nat /\ j - 1 <= j /\ j - 1 <= j - 1
      OBVIOUS
    <3> QED BY <1>2, <2>2, <3>1
  <2> QED BY <2>1, <2>3, <2>4
<1> DEFINE Full(p) == p = [j \in Nat |-> IF j = 0 THEN 1 ELSE b * p[j - 1]]
<1>5. Full(all)
  <2>1. all = [j \in Nat |-> all[j]]
    OBVIOUS
  <2> HIDE DEF all
  <2> QED BY <1>4, <2>1
<1> DEFINE p == Powers(b)
<1>6. Full(p)
  <2>1. p = CHOOSE q : Full(q)
    BY DEF Powers
  <2> HIDE DEF Full, all, p
  <2> QED BY <1>5, <2>1
<1>7. \A k : Power(b, k) = p[k]
  BY DEF Power, Powers
<1> HIDE DEF p
<1>8. \A j \in Nat : p[j] = IF j = 0 THEN 1 ELSE b * p[j - 1]
  <2>1. p = [j \in Nat |-> IF j = 0 THEN 1 ELSE b * p[j - 1]]
    BY <1>6
  <2> QED BY <2>1
<1>9. ASSUME NEW k \in Nat PROVE p[k + 1] = b * p[k]
  <2>1. k + 1 \in Nat /\ k + 1 # 0 /\ (k + 1) - 1 = k
    OBVIOUS
  <2> QED BY <1>8, <2>1
<1> QED BY <1>7, <1>8, <1>9

\* Powers of a base grow with the exponent.
LEMMA PowerFacts ==
  ASSUME NEW b \in Nat, b >= 2
  PROVE  /\ Power(b, 0) = 1
         /\ \A k \in Nat : Power(b, k) \in Nat /\ Power(b, k) >= 1
         /\ \A k \in Nat : Power(b, k + 1) = b * Power(b, k)
         /\ \A j, k \in Nat : j < k => Power(b, j) < Power(b, k)
<1> DEFINE P(k) == Power(b, k)
           T == {k \in Nat : P(k) \in Nat /\ P(k) >= 1}
           U == {k \in Nat : \A j \in Nat : j < k => P(j) < P(k)}
<1>1. P(0) = 1 /\ \A k \in Nat : P(k + 1) = b * P(k)
  BY PowerRecursion
<1> HIDE DEF P
<1>2. ASSUME NEW k \in Nat, P(k) \in Nat, P(k) >= 1
      PROVE  P(k + 1) \in Nat /\ P(k) < P(k + 1)
  <2>1. b * P(k) \in Nat /\ 2 * P(k) <= b * P(k)
    BY <1>2, MulMono
  <2> QED BY <1>1, <1>2, <2>1
<1>3. \A k \in Nat : k \in T
  <2>1. 0 \in T
    BY <1>1
  <2>2. ASSUME NEW k \in Nat, k \in T PROVE k + 1 \in T
    BY <1>2, <2>2
  <2> HIDE DEF T
  <2> QED BY <2>1, <2>2, NatInduct
<1>4. \A k \in Nat : P(k) \in Nat /\ P(k) >= 1
  BY <1>3
<1>5. \A k \in Nat : k \in U
  <2>1. 0 \in U
    OBVIOUS
  <2>2. ASSUME NEW k \in Nat, k \in U PROVE k + 1 \in U
    <3>1. P(k) < P(k + 1) /\ P(k) \in Nat /\ P(k + 1) \in Nat
      BY <1>2, <1>4
    <3>2. ASSUME NEW j \in Nat, j < k + 1 PROVE P(j) < P(k + 1)
      <4>1. P(j) \in Nat /\ (j < k \/ j = k)
        BY <1>4, <3>2
      <4>2. j < k => P(j) < P(k)
        BY <2>2
      <4> QED BY <3>1, <4>1, <4>2
    <3> QED BY <3>2
  <2> HIDE DEF U
  <2> QED BY <2>1, <2>2, NatInduct
<1>6. \A j, k \in Nat : j < k => P(j) < P(k)
  BY <1>5
<1> QED BY <1>1, <1>4, <1>6 DEF P

\* And with the base.
LEMMA PowerOfTwo ==
  ASSUME NEW b \in Nat, b >= 2
  PROVE  \A k \in Nat : Power(2, k) <= Power(b, k)
<1> DEFINE P(k) == Power(b, k)
           Q(k) == Power(2, k)
           T == {k \in Nat : Q(k) <= P(k)}
<1>1. /\ P(0) = 1 /\ Q(0) = 1
      /\ \A k \in Nat : P(k) \in Nat /\ Q(k) \in Nat
      /\ \A k \in Nat : P(k + 1) = b * P(k) /\ Q(k + 1) = 2 * Q(k)
  <2>1. P(0) = 1 /\ \A k \in Nat : P(k) \in Nat /\ P(k + 1) = b * P(k)
    BY PowerFacts
  <2>2. 2 \in Nat /\ 2 >= 2
    OBVIOUS
  <2>3. Q(0) = 1 /\ \A k \in Nat : Q(k) \in Nat /\ Q(k + 1) = 2 * Q(k)
    BY <2>2, PowerFacts
  <2> HIDE DEF P, Q
  <2> QED BY <2>1, <2>3
<1> HIDE DEF P, Q
<1>2. \A k \in Nat : k \in T
  <2>1. 0 \in T
    BY <1>1
  <2>2. ASSUME NEW k \in Nat, k \in T PROVE k + 1 \in T
    <3>1. 2 * P(k) <= b * P(k) /\ b * P(k) \in Nat
      BY <1>1, MulMono
    <3>2. Q(k) <= P(k) /\ P(k) \in Nat /\ Q(k) \in Nat
      BY <1>1, <2>2
    <3>3. Q(k + 1) <= P(k + 1)
      <4>1. 2 * Q(k) <= 2 * P(k)
        BY <3>2
      <4> QED BY <1>1, <3>1, <3>2, <4>1
    <3> QED BY <3>3
  <2> HIDE DEF T
  <2> QED BY <2>1, <2>2, NatInduct
<1>3. \A k \in Nat : Q(k) <= P(k)
  BY <1>2
<1> QED BY <1>3 DEF P, Q

-----------------------------------------------------------------------------
(* Numerals.                                                               *)

\* The digit of n worth b to the power k.
DigitAt(n, b, k, letter) == Digit((n \div Power(b, k)) % b, letter)
HasDigits(n, b, k) == n < Power(b, k) /\ (k > 1 => Power(b, k - 1) <= n)

\* A number's numeral has just the digits that no power of the base exceeds.
LEMMA NumeralIs ==
  ASSUME NEW b \in Nat, b >= 2, NEW n \in Nat, NEW letter \in Nat,
         NEW k \in 1 .. IntBits + WordBits, HasDigits(n, b, k)
  PROVE  Numeral(n, b, letter) = [p \in 1 .. k |-> DigitAt(n, b, k - p, letter)]
<1> DEFINE P(j) == Power(b, j)
           K == 1 .. IntBits + WordBits
           Fits(j) == n < Power(b, j) /\ (j > 1 => n >= Power(b, j - 1))
<1>1. /\ \A j \in Nat : P(j) \in Nat /\ P(j) >= 1
      /\ \A j, m \in Nat : j < m => P(j) < P(m)
  BY PowerFacts
<1>2. Fits(k)
  <2>1. k \in Nat /\ (k > 1 => k - 1 \in Nat)
    BY WidthAssumption
  <2> QED BY <1>1, <2>1 DEF HasDigits
<1>3. ASSUME NEW j \in K, NEW m \in K, j < m, Fits(j), Fits(m) PROVE FALSE
  <2>1. m - 1 \in Nat /\ j \in Nat /\ m > 1 /\ (j < m - 1 \/ j = m - 1)
    BY <1>3, WidthAssumption
  <2>2. P(j) <= P(m - 1) /\ P(j) \in Nat /\ P(m - 1) \in Nat
    <3> HIDE DEF P
    <3> QED BY <1>1, <2>1
  <2>3. n < P(j) /\ P(m - 1) <= n
    BY <1>3, <2>1
  <2> HIDE DEF P
  <2> QED BY <2>2, <2>3
<1>4. Digits(n, b) = k
  <2>1. Digits(n, b) = CHOOSE j \in K : Fits(j)
    BY DEF Digits
  <2>2. \A j \in K : Fits(j) => j = k
    <3>1. \A j \in K : j < k \/ j = k \/ k < j
      BY WidthAssumption
    <3> HIDE DEF Fits, K
    <3>2. k \in K
      BY DEF K
    <3> QED BY <1>2, <1>3, <3>1, <3>2
  <2>3. k \in K
    OBVIOUS
  <2> HIDE DEF Fits, K
  <2> QED BY <1>2, <2>1, <2>2, <2>3
<1> HIDE DEF P, K, Fits
<1>5. Numeral(n, b, letter) =
        [p \in 1 .. k |-> LET d == (n \div Power(b, k - p)) % b
                          IN  IF d < 10 THEN 48 + d ELSE letter + d - 10]
  BY <1>4 DEF Numeral
<1>6. ASSUME NEW p \in 1 .. k
      PROVE  LET d == (n \div Power(b, k - p)) % b
             IN  (IF d < 10 THEN 48 + d ELSE letter + d - 10) = DigitAt(n, b, k - p, letter)
  <2> DEFINE d == (n \div Power(b, k - p)) % b
  <2>1. k - p \in Nat
    BY WidthAssumption
  <2>2. n \div Power(b, k - p) \in Nat
    BY <2>1, PowerFacts, Division
  <2>3. d \in Nat
    <3> DEFINE q == n \div Power(b, k - p)
    <3> HIDE DEF q
    <3>1. q \in Nat => q % b \in Nat
      OBVIOUS
    <3> QED BY <2>2, <3>1 DEF q
  <2>4. DigitAt(n, b, k - p, letter) = Digit(d, letter)
    BY DEF DigitAt
  <2> HIDE DEF d
  <2>5. (IF d < 10 THEN 48 + d ELSE letter + d - 10) = Digit(d, letter)
    BY <2>3 DEF Digit
  <2> QED BY <2>4, <2>5 DEF d
<1> QED BY <1>5, <1>6

\* What a loop over the digits of m has stored in ds, the last digit first,
\* and what is left of m.
Counted(m, b, left, ds) ==
  /\ ds \in Seq(Int) /\ left = m \div Power(b, Len(ds))
  /\ Len(ds) > 0 => Power(b, Len(ds) - 1) <= m
Spelled(m, b, letter, ds) ==
  \A k \in 1 .. Len(ds) : ds[k] = DigitAt(m, b, k - 1, letter)

\* One turn of the loop.
LEMMA DigitStep ==
  ASSUME NEW m \in Nat, NEW b \in Nat, b >= 2, NEW left, NEW ds, NEW c \in Int,
         Counted(m, b, left, ds), left # 0
  PROVE  /\ Counted(m, b, left \div b, Append(ds, c))
         /\ \A letter : /\ Spelled(m, b, letter, ds)
                        /\ c = Digit(left % b, letter)
                        => Spelled(m, b, letter, Append(ds, c))
<1> DEFINE l == Len(ds)
           P(k) == Power(b, k)
           es == Append(ds, c)
<1>1. /\ ds \in Seq(Int) /\ l \in Nat /\ left = m \div P(l)
      /\ P(l) \in Nat /\ P(l) >= 1 /\ P(l + 1) = b * P(l)
  BY PowerFacts DEF Counted
<1>2. /\ es \in Seq(Int) /\ Len(es) = l + 1 /\ es[l + 1] = c
      /\ \A k \in 1 .. l : es[k] = ds[k]
  BY <1>1, AppendProperties
<1>3. left \div b = m \div P(l + 1)
  <2>1. (m \div P(l)) \div b = m \div (b * P(l))
    <3> HIDE DEF P
    <3> QED BY <1>1, DivDiv
  <2> QED BY <1>1, <2>1
<1>4. P(l) <= m
  <2>1. ~(m < P(l))
    <3> HIDE DEF P
    <3> QED BY <1>1, DivZero
  <2> HIDE DEF P
  <2> QED BY <1>1, <2>1
<1>5. Counted(m, b, left \div b, es)
  <2>1. (l + 1) - 1 = l
    BY <1>1
  <2> HIDE DEF es, l
  <2> QED BY <1>2, <1>3, <1>4, <2>1 DEF Counted
<1>6. ASSUME NEW letter, Spelled(m, b, letter, ds), c = Digit(left % b, letter)
      PROVE  Spelled(m, b, letter, es)
  <2>1. ASSUME NEW k \in 1 .. l + 1 PROVE es[k] = DigitAt(m, b, k - 1, letter)
    <3>1. CASE k = l + 1
      <4>1. k - 1 = l
        BY <1>1, <3>1
      <4> HIDE DEF es
      <4> QED BY <1>1, <1>2, <1>6, <3>1, <4>1 DEF DigitAt
    <3>2. CASE k # l + 1
      <4>1. k \in 1 .. l
        <5> HIDE DEF l
        <5> QED BY <1>1, <3>2
      <4> HIDE DEF es
      <4> QED BY <1>2, <1>6, <4>1 DEF Spelled
    <3> QED BY <3>1, <3>2
  <2> HIDE DEF es, l
  <2> QED BY <1>2, <2>1 DEF Spelled
<1> HIDE DEF es
<1>7. \A letter : Spelled(m, b, letter, ds) /\ c = Digit(left % b, letter)
                    => Spelled(m, b, letter, es)
  BY <1>6
<1> QED BY <1>5, <1>7 DEF es

\* The numbers that are converted have no more digits than bits.
Narrow(m) == m < Power(2, IntBits + WordBits)

LEMMA DigitsEnd ==
  ASSUME NEW m \in Nat, m # 0, Narrow(m), NEW b \in Nat, b >= 2, NEW ds,
         Counted(m, b, 0, ds)
  PROVE  Len(ds) \in 1 .. IntBits + WordBits /\ HasDigits(m, b, Len(ds))
<1> DEFINE l == Len(ds)
           P(k) == Power(b, k)
           W == IntBits + WordBits
<1>1. /\ l \in Nat /\ 0 = m \div P(l) /\ W \in Nat
      /\ P(0) = 1 /\ \A k \in Nat : P(k) \in Nat /\ P(k) >= 1
      /\ \A j, k \in Nat : j < k => P(j) < P(k)
  <2>1. l \in Nat /\ 0 = m \div P(l) /\ W \in Nat
    BY LenProperties, WidthAssumption DEF Counted
  <2> HIDE DEF l, W
  <2> QED BY <2>1, PowerFacts
<1>2. l > 0 => P(l - 1) <= m
  BY DEF Counted
<1>3. m < P(W)
  <2>1. Power(2, W) <= Power(b, W) /\ Power(2, W) \in Nat /\ P(W) \in Nat
    <3>1. 2 \in Nat /\ 2 >= 2
      OBVIOUS
    <3> HIDE DEF W
    <3> QED BY <1>1, <3>1, PowerOfTwo, PowerFacts
  <2>2. m < Power(2, W)
    BY DEF Narrow
  <2>3. P(W) = Power(b, W)
    OBVIOUS
  <2> HIDE DEF P, W
  <2> QED BY <2>1, <2>2, <2>3
<1> HIDE DEF W
<1>4. m < P(l)
  <2> HIDE DEF P, l
  <2> QED BY <1>1, DivZero
<1>5. l > 0
  <2> HIDE DEF P, l
  <2> QED BY <1>1, <1>4
<1>6. l - 1 < W
  <2>1. l - 1 \in Nat /\ (W < l - 1 \/ W = l - 1 \/ l - 1 < W)
    <3> HIDE DEF P, l
    <3> QED BY <1>1, <1>5
  <2> HIDE DEF P, l
  <2> QED BY <1>1, <1>2, <1>3, <1>5, <2>1
<1>7. l \in 1 .. W
  <2> HIDE DEF P, l
  <2> QED BY <1>1, <1>5, <1>6
<1> QED BY <1>2, <1>4, <1>7 DEF HasDigits, W

\* Reversed, what the loop stored is the numeral.
LEMMA NumeralOf ==
  ASSUME NEW m \in Nat, m # 0, Narrow(m), NEW b \in Nat, b >= 2, NEW ds, NEW letter \in Nat,
         Counted(m, b, 0, ds), Spelled(m, b, letter, ds)
  PROVE  Numeral(m, b, letter) = Reverse(ds)
<1> DEFINE l == Len(ds)
<1>1. l \in 1 .. IntBits + WordBits /\ HasDigits(m, b, l)
  BY DigitsEnd
<1>2. Numeral(m, b, letter) = [p \in 1 .. l |-> DigitAt(m, b, l - p, letter)]
  <2> HIDE DEF l
  <2> QED BY <1>1, NumeralIs
<1>3. ASSUME NEW p \in 1 .. l PROVE DigitAt(m, b, l - p, letter) = ds[(l - p) + 1]
  <2>1. (l - p) + 1 \in 1 .. l /\ ((l - p) + 1) - 1 = l - p
    BY <1>1, WidthAssumption
  <2> QED BY <2>1 DEF Spelled
<1> QED BY <1>2, <1>3 DEF Reverse

LEMMA NumeralOfZero ==
  ASSUME NEW b \in Nat, b >= 2, NEW letter \in Nat
  PROVE  Numeral(0, b, letter) = <<48>>
<1>1. HasDigits(0, b, 1)
  <2>1. Power(b, 1) \in Nat /\ Power(b, 1) >= 1
    BY PowerFacts
  <2> QED BY <2>1 DEF HasDigits
<1>2. 1 \in 1 .. IntBits + WordBits
  BY WidthAssumption
<1>3. Numeral(0, b, letter) = [p \in 1 .. 1 |-> DigitAt(0, b, 1 - p, letter)]
  <2> DEFINE k == 1
             z == 0
  <2>1. z \in Nat /\ k \in 1 .. IntBits + WordBits /\ HasDigits(z, b, k)
    BY <1>1, <1>2
  <2> HIDE DEF k, z
  <2>2. Numeral(z, b, letter) = [p \in 1 .. k |-> DigitAt(z, b, k - p, letter)]
    BY <2>1, NumeralIs
  <2> QED BY <2>2 DEF k, z
<1>4. ASSUME NEW p \in 1 .. 1 PROVE DigitAt(0, b, 1 - p, letter) = 48
  <2>1. 1 - p = 0 /\ Power(b, 0) = 1
    BY PowerFacts
  <2>2. (0 \div 1) % b = 0
    OBVIOUS
  <2>3. Digit(0, letter) = 48
    BY DEF Digit
  <2> QED BY <2>1, <2>2, <2>3 DEF DigitAt
<1>5. Numeral(0, b, letter) = [p \in 1 .. 1 |-> 48]
  BY <1>3, <1>4
<1> QED BY <1>5

-----------------------------------------------------------------------------
(* A sequence of texts, joined.                                            *)

Joins(s) ==
  CHOOSE f : f = [k \in 1 .. Len(s) |-> IF k = 1 THEN s[k] ELSE f[k - 1] \o s[k]]
\* The first q of them.
Joined(s, q) == IF q = 0 THEN <<>> ELSE Joins(s)[q]

LEMMA JoinRecursion ==
  ASSUME NEW s, Len(s) \in Nat
  PROVE  /\ Len(s) # 0 => FlattenSeq(s) = Joined(s, Len(s))
         /\ Len(s) = 0 => FlattenSeq(s) = s
         /\ Joined(s, 0) = <<>>
         /\ Len(s) # 0 => Joined(s, 1) = s[1]
         /\ \A q \in 1 .. Len(s) - 1 : Joined(s, q + 1) = Joined(s, q) \o s[q + 1]
<1> DEFINE Solves(g, m) == g = [k \in 1 .. m |-> IF k = 1 THEN s[k] ELSE g[k - 1] \o s[k]]
           solvable == {m \in Nat : \E g : Solves(g, m)}
           n == Len(s)
           js == Joins(s)
<1>1. \A m \in Nat : \E g : Solves(g, m)
  <2>1. 0 \in solvable
    <3>1. Solves([k \in 1 .. 0 |-> s[k]], 0)
      OBVIOUS
    <3> QED BY <3>1
  <2>2. ASSUME NEW m \in Nat, m \in solvable PROVE m + 1 \in solvable
    <3>1. PICK g : Solves(g, m)
      BY <2>2
    <3> DEFINE h == [k \in 1 .. m + 1 |->
                       IF k = 1 THEN s[k] ELSE IF k = m + 1 THEN g[m] \o s[k] ELSE g[k]]
    <3>2. ASSUME NEW k \in 1 .. m + 1
          PROVE  h[k] = IF k = 1 THEN s[k] ELSE h[k - 1] \o s[k]
      <4>1. CASE k = 1
        BY <4>1
      <4>2. CASE k # 1
        <5>1. k - 1 \in 1 .. m /\ k - 1 \in 1 .. m + 1 /\ k - 1 # m + 1 /\ m \in 1 .. m
          BY <4>2
        <5>2. \A x \in 1 .. m : g[x] = IF x = 1 THEN s[x] ELSE g[x - 1] \o s[x]
          BY <3>1
        <5>3. g[k - 1] = h[k - 1]
          <6>1. h[k - 1] = IF k - 1 = 1 THEN s[k - 1] ELSE g[k - 1]
            BY <5>1
          <6>2. k - 1 = 1 => g[k - 1] = s[k - 1]
            BY <5>1, <5>2
          <6> HIDE DEF h
          <6> QED BY <6>1, <6>2
        <5>4. h[k] = IF k = m + 1 THEN g[m] \o s[k] ELSE g[k]
          BY <4>2
        <5>5. k = m + 1 => m = k - 1
          OBVIOUS
        <5>6. k # m + 1 => k \in 1 .. m
          OBVIOUS
        <5> HIDE DEF h
        <5> QED BY <4>2, <5>2, <5>3, <5>4, <5>5, <5>6
      <4> QED BY <4>1, <4>2
    <3>3. Solves(h, m + 1)
      <4>1. h = [k \in 1 .. m + 1 |-> h[k]]
        OBVIOUS
      <4> HIDE DEF h
      <4> QED BY <3>2, <4>1
    <3>4. m + 1 \in Nat /\ \E f : Solves(f, m + 1)
      <4> HIDE DEF Solves, h
      <4> QED BY <3>3
    <3> HIDE DEF Solves
    <3> QED BY <3>4
  <2> HIDE DEF solvable
  <2>3. \A m \in Nat : m \in solvable
    BY <2>1, <2>2, NatInduct
  <2> QED BY <2>3 DEF solvable
<1>2. Solves(js, n)
  <2>1. js = CHOOSE f : Solves(f, n)
    BY DEF Joins
  <2>2. \E f : Solves(f, n)
    BY <1>1
  <2> HIDE DEF Solves, js, n
  <2> QED BY <2>1, <2>2
<1>3. /\ n # 0 => FlattenSeq(s) = js[n]
      /\ n = 0 => FlattenSeq(s) = s
  BY DEF FlattenSeq, Joins
<1>4. \A k \in 1 .. n : js[k] = IF k = 1 THEN s[k] ELSE js[k - 1] \o s[k]
  <2> HIDE DEF js, n
  <2> QED BY <1>2
<1>5. n # 0 => js[1] = s[1]
  <2>1. n # 0 => 1 \in 1 .. n
    OBVIOUS
  <2> QED BY <1>4, <2>1
<1>6. \A q \in 1 .. n - 1 : js[q + 1] = js[q] \o s[q + 1]
  <2>1. \A q \in 1 .. n - 1 : q + 1 \in 1 .. n /\ q + 1 # 1 /\ (q + 1) - 1 = q
    <3> HIDE DEF n
    <3>1. n \in Nat
      BY DEF n
    <3> QED BY <3>1
  <2> HIDE DEF js, n
  <2> QED BY <1>4, <2>1
<1>7. \A q \in 1 .. n - 1 : q # 0 /\ q + 1 # 0
  OBVIOUS
<1> HIDE DEF js, n
<1>8. Joined(s, 0) = <<>> /\ \A q : q # 0 => Joined(s, q) = js[q]
  BY DEF Joined, js
<1>9. Joined(s, n) = IF n = 0 THEN <<>> ELSE js[n]
  BY <1>8
<1>10. n # 0 => Joined(s, 1) = s[1]
  BY <1>5, <1>8
<1>11. \A q \in 1 .. n - 1 : Joined(s, q + 1) = Joined(s, q) \o s[q + 1]
  BY <1>6, <1>7, <1>8
<1> QED BY <1>3, <1>8, <1>9, <1>10, <1>11 DEF n

\* A function on 1 .. n is a sequence.
LEMMA IntervalSeq ==
  ASSUME NEW n \in Nat, NEW f, f = [k \in 1 .. n |-> f[k]]
  PROVE  f \in Seq({f[k] : k \in 1 .. n}) /\ Len(f) = n /\ DOMAIN f = 1 .. n
<1> DEFINE S == {f[k] : k \in 1 .. n}
<1>1. \A k \in 1 .. n : f[k] \in S
  OBVIOUS
<1> HIDE DEF S
<1>2. f \in [1 .. n -> S]
  BY <1>1
<1>3. f \in Seq(S)
  BY <1>2
<1>4. DOMAIN f = 1 .. n
  BY <1>2
<1> QED BY <1>3, <1>4, LenProperties DEF S

\* One text more is joined at the end.
LEMMA JoinStep ==
  ASSUME NEW S, NEW n \in Nat, NEW s, s = [k \in 1 .. n |-> s[k]],
         NEW q \in 0 .. n - 1, s[q + 1] \in Seq(S)
  PROVE  Joined(s, q + 1) = Joined(s, q) \o s[q + 1]
<1>1. Len(s) = n
  BY IntervalSeq
<1>2. /\ Joined(s, 0) = <<>> /\ (n # 0 => Joined(s, 1) = s[1])
      /\ \A x \in 1 .. n - 1 : Joined(s, x + 1) = Joined(s, x) \o s[x + 1]
  <2>1. Len(s) \in Nat
    BY <1>1
  <2> QED BY <1>1, <2>1, JoinRecursion
<1>3. CASE q = 0
  <2>1. q + 1 = 1 /\ n # 0
    BY <1>3
  <2>2. s[1] \in Seq(S)
    BY <2>1
  <2>3. <<>> \o s[1] = s[1]
    BY <2>2, ConcatEmptySeq
  <2> QED BY <1>2, <1>3, <2>1, <2>3
<1>4. CASE q # 0
  <2>1. q \in 1 .. n - 1
    BY <1>4
  <2> QED BY <1>2, <2>1
<1> QED BY <1>3, <1>4

LEMMA JoinText ==
  ASSUME NEW n \in Nat, NEW s, s = [k \in 1 .. n |-> s[k]],
         NEW q \in 0 .. n - 1, s[q + 1] \in Seq(Int)
  PROVE  Joined(s, q + 1) = Joined(s, q) \o s[q + 1]
BY JoinStep

\* All of them joined are what FlattenSeq returns.
LEMMA JoinAll ==
  ASSUME NEW n \in Nat, NEW s, s = [k \in 1 .. n |-> s[k]]
  PROVE  FlattenSeq(s) = Joined(s, n) /\ Joined(s, 0) = <<>>
<1>1. Len(s) = n
  BY IntervalSeq
<1>2. n = 0 => s = <<>>
  OBVIOUS
<1>3. Len(s) \in Nat
  BY <1>1
<1> QED BY <1>1, <1>2, <1>3, JoinRecursion

\* Each character of a text keeps its place behind the texts before it.
Laid(S, n, s) ==
  /\ \A q \in 0 .. n : Joined(s, q) \in Seq(S)
  /\ \A q \in 0 .. n - 1 :
       /\ Len(Joined(s, q + 1)) = Len(Joined(s, q)) + Len(s[q + 1])
       /\ \A p \in 1 .. Len(s[q + 1]) :
            /\ Len(Joined(s, q)) + p \in 1 .. Len(FlattenSeq(s))
            /\ FlattenSeq(s)[Len(Joined(s, q)) + p] = s[q + 1][p]

LEMMA JoinAt ==
  ASSUME NEW S, NEW n \in Nat, NEW s, s \in [1 .. n -> Seq(S)]
  PROVE  Laid(S, n, s)
<1> DEFINE J(q) == Joined(s, q)
           T == {q \in Nat : q <= n => J(q) \in Seq(S)}
<1>1. J(0) = <<>> /\ FlattenSeq(s) = J(n)
  BY JoinAll
<1>2. ASSUME NEW q \in 0 .. n - 1 PROVE J(q + 1) = J(q) \o s[q + 1] /\ s[q + 1] \in Seq(S)
  <2>1. q + 1 \in 1 .. n /\ s = [k \in 1 .. n |-> s[k]]
    OBVIOUS
  <2>2. s[q + 1] \in Seq(S)
    BY <2>1
  <2> QED BY <2>1, <2>2, JoinStep
<1> HIDE DEF J
<1>3. \A q \in Nat : q \in T
  <2>1. 0 \in T
    <3>1. J(0) \in Seq(S)
      BY <1>1, EmptySeq
    <3> QED BY <3>1
  <2>2. ASSUME NEW q \in Nat, q \in T PROVE q + 1 \in T
    <3>1. ASSUME q + 1 <= n PROVE J(q + 1) \in Seq(S)
      <4>1. q <= n /\ q \in 0 .. n - 1
        BY <3>1
      <4>2. J(q) \in Seq(S)
        BY <2>2, <4>1
      <4>3. J(q + 1) = J(q) \o s[q + 1] /\ s[q + 1] \in Seq(S)
        BY <1>2, <4>1
      <4>4. J(q) \o s[q + 1] \in Seq(S)
        BY <4>2, <4>3, ConcatProperties
      <4> QED BY <4>3, <4>4
    <3> QED BY <3>1
  <2> HIDE DEF T
  <2> QED BY <2>1, <2>2, NatInduct
<1>4. \A q \in 0 .. n : J(q) \in Seq(S)
  BY <1>3
<1>5. ASSUME NEW q \in 0 .. n - 1, NEW p \in 1 .. Len(s[q + 1])
      PROVE  /\ Len(J(q)) + p \in 1 .. Len(J(n))
             /\ J(n)[Len(J(q)) + p] = s[q + 1][p]
  <2> DEFINE x == Len(J(q)) + p
             U == {m \in Nat : q + 1 + m <= n =>
                     x \in 1 .. Len(J(q + 1 + m)) /\ J(q + 1 + m)[x] = s[q + 1][p]}
  <2>1. x \in 1 .. Len(J(q + 1)) /\ J(q + 1)[x] = s[q + 1][p]
    <3>1. J(q) \in Seq(S) /\ s[q + 1] \in Seq(S) /\ J(q + 1) = J(q) \o s[q + 1]
      BY <1>2, <1>4
    <3>2. Len(J(q)) \in Nat /\ Len(s[q + 1]) \in Nat
          /\ Len(J(q + 1)) = Len(J(q)) + Len(s[q + 1])
      BY <3>1, ConcatProperties, LenProperties
    <3>3. x \in 1 .. Len(J(q)) + Len(s[q + 1]) /\ ~(x <= Len(J(q))) /\ x - Len(J(q)) = p
      BY <3>2
    <3>4. (J(q) \o s[q + 1])[x] = s[q + 1][x - Len(J(q))]
      <4> HIDE DEF x
      <4> QED BY <3>1, <3>3, ConcatProperties
    <3> HIDE DEF x
    <3> QED BY <3>1, <3>2, <3>3, <3>4
  <2>2. 0 \in U
    <3>1. q + 1 + 0 = q + 1
      OBVIOUS
    <3> HIDE DEF x
    <3> QED BY <2>1, <3>1
  <2>3. ASSUME NEW m \in Nat, m \in U PROVE m + 1 \in U
    <3> DEFINE r == q + 1 + m
    <3>1. r \in Nat /\ q + 1 + (m + 1) = r + 1 /\ (r + 1 <= n => r \in 0 .. n - 1 /\ r <= n /\ r \in 0 .. n)
      OBVIOUS
    <3>2. r <= n => x \in 1 .. Len(J(r)) /\ J(r)[x] = s[q + 1][p]
      BY <2>3
    <3> HIDE DEF r, x
    <3>3. ASSUME r + 1 <= n
          PROVE  x \in 1 .. Len(J(r + 1)) /\ J(r + 1)[x] = s[q + 1][p]
      <4>1. /\ J(r) \in Seq(S) /\ s[r + 1] \in Seq(S) /\ J(r + 1) = J(r) \o s[r + 1]
            /\ x \in 1 .. Len(J(r)) /\ J(r)[x] = s[q + 1][p]
        BY <1>2, <1>4, <3>1, <3>2, <3>3
      <4>2. /\ Len(J(r)) \in Nat /\ Len(s[r + 1]) \in Nat
            /\ Len(J(r + 1)) = Len(J(r)) + Len(s[r + 1])
        BY <4>1, ConcatProperties, LenProperties
      <4>3. x \in 1 .. Len(J(r)) + Len(s[r + 1]) /\ x <= Len(J(r))
        BY <4>1, <4>2
      <4>4. (J(r) \o s[r + 1])[x] = J(r)[x]
        BY <4>1, <4>3, ConcatProperties
      <4> QED BY <4>1, <4>2, <4>3, <4>4
    <3>4. m + 1 \in Nat
      OBVIOUS
    <3> QED BY <3>1, <3>3, <3>4
  <2> HIDE DEF U
  <2>4. \A m \in Nat : m \in U
    BY <2>2, <2>3, NatInduct
  <2>5. n - (q + 1) \in Nat /\ q + 1 + (n - (q + 1)) = n /\ n <= n
    OBVIOUS
  <2>6. x \in 1 .. Len(J(n)) /\ J(n)[x] = s[q + 1][p]
    <3> DEFINE m == n - (q + 1)
    <3>1. m \in U /\ q + 1 + m = n
      <4> HIDE DEF x, U
      <4> QED BY <2>4, <2>5
    <3> HIDE DEF x, m
    <3> QED BY <3>1, <2>5 DEF U
  <2> QED BY <2>6
<1>6. ASSUME NEW q \in 0 .. n - 1 PROVE Len(J(q + 1)) = Len(J(q)) + Len(s[q + 1])
  <2>1. J(q) \in Seq(S) /\ s[q + 1] \in Seq(S) /\ J(q + 1) = J(q) \o s[q + 1]
    BY <1>2, <1>4
  <2> QED BY <2>1, ConcatProperties
<1> QED BY <1>1, <1>4, <1>5, <1>6 DEF J, Laid

-----------------------------------------------------------------------------
(* The invariant.                                                          *)

AbsOf(n) == IF n < 0 THEN -n ELSE n
Spelling(n, b) == IF b = 10 THEN Signed(n) ELSE Numeral(n, b, 97)

\* Room for what has been stored, the terminator included.
Fits == job.call = "vsprintf" => Len(num_str) + 1 <= DecRoom

\* Outside the middle, what reverse leaves is the text; inside it is the text
\* backwards.
Swapped(text) ==
  LET len == Len(num_str) IN
  /\ text \in Seq(Int) /\ Len(text) = len
  /\ \A k \in 1 .. len :
       num_str[k] = IF k < start \/ k > len + 1 - start THEN text[k] ELSE text[len + 1 - k]

\* itoa or ulltoa under way with the number n in base b.
Entered(n, b) == num = n /\ num_str = <<>> /\ (pc = "ulltoa" => n \in Words)
Dividing(n, b) ==
  /\ n # 0 /\ num \in Int /\ is_negative = (n < 0 /\ b = 10)
  /\ Counted(AbsOf(n), b, AbsOf(num), num_str)
  /\ Convertible(n, b) => num >= 0 /\ Spelled(AbsOf(n), b, 97, num_str)
Reversing(n, b) ==
  /\ num_str \in Seq(Int) /\ start \in Nat \ {0} /\ Fits
  /\ Convertible(n, b) => Swapped(Spelling(n, b))
Converted(n, b) ==
  num_str \in Seq(Int) /\ Fits /\ (Convertible(n, b) => num_str = Spelling(n, b))

NumberOK(n, b) ==
  /\ base = b
  /\ pc \in {"itoa", "ulltoa"} => Entered(n, b)
  /\ pc = "digits" => Dividing(n, b)
  /\ pc = "reverse" => Reversing(n, b)
  /\ pc \in {"copy", "done"} => Converted(n, b)

HexOK(n) ==
  /\ n # 0 /\ num \in Nat
  /\ Counted(n, 16, num, num_str)
  /\ Spelled(n, 16, IF pc = "HEX" THEN 65 ELSE 97, num_str)

\* vsprintf has read the first q pieces, and written what they mean.
Count == Len(job.pieces)
Ready(q) ==
  /\ i = Len(Joined(Formats(job.pieces), q)) + 1
  /\ arg = Len(Joined(Taken(job.pieces), q)) + 1
Wrote(q) == WellFormed => str = Joined(Meanings(job.pieces), q)

InNumber == pc \in {"itoa", "digits", "reverse", "copy"}
InHex == pc \in {"hex", "HEX"}
NumberAt(q) ==
  /\ Ready(q + 1) /\ Wrote(q)
  /\ job.pieces[q + 1].conv = LowerD
  /\ \E n \in Ints : n = job.pieces[q + 1].num /\ NumberOK(n, 10)
HexAt(q) ==
  /\ Ready(q + 1) /\ Wrote(q)
  /\ job.pieces[q + 1].conv = (IF pc = "hex" THEN LowerX ELSE UpperX)
  /\ \E n \in Words : n = job.pieces[q + 1].num /\ HexOK(n)

AloneOK ==
  /\ pc \in {"itoa", "ulltoa", "digits", "reverse", "done"}
  /\ pc \in {"itoa", "ulltoa"} => pc = job.call
  /\ \E n \in Ints \cup Words, b \in 2 .. 36 :
       n = job.num /\ b = job.base /\ NumberOK(n, b)
PrintOK ==
  /\ str \in Seq(Int) /\ written = Len(str)
  /\ pc \in {"vsprintf", "past", "done"} \/ InNumber \/ InHex
  /\ pc = "vsprintf" => \E q \in 0 .. Count : Ready(q) /\ Wrote(q)
  /\ pc = "done" => Wrote(Count)
  /\ InNumber => \E q \in 0 .. Count - 1 : NumberAt(q)
  /\ InHex => \E q \in 0 .. Count - 1 : HexAt(q)

FInv ==
  /\ job \in Jobs
  /\ IF job.call = "vsprintf" THEN PrintOK ELSE AloneOK

-----------------------------------------------------------------------------
(* What the format holds where vsprintf reads it.                          *)

\* The pieces of a vsprintf, and the texts made of them.
LEMMA PiecesFacts ==
  ASSUME job \in Jobs, job.call = "vsprintf"
  PROVE  /\ Count \in Nat /\ DOMAIN job.pieces = 1 .. Count
         /\ \A k \in 1 .. Count :
              Sane(job.pieces[k]) /\ (Stray(job.pieces[k]) => k = Count)
         /\ Formats(job.pieces) = [k \in 1 .. Count |-> FormatOf(job.pieces[k])]
         /\ Formats(job.pieces) \in [1 .. Count -> Seq(Int)]
         /\ Taken(job.pieces) =
              [k \in 1 .. Count |-> IF Takes(job.pieces[k]) THEN <<job.pieces[k]>> ELSE <<>>]
         /\ Taken(job.pieces) \in [1 .. Count -> Seq({job.pieces[k] : k \in 1 .. Count})]
         /\ Meanings(job.pieces) = [k \in 1 .. Count |-> Meaning(job.pieces[k])]
<1> DEFINE n == Count
           S == {job.pieces[k] : k \in 1 .. Count}
<1>1. /\ n \in Nat /\ DOMAIN job.pieces = 1 .. n
      /\ \A k \in 1 .. n : Sane(job.pieces[k]) /\ (Stray(job.pieces[k]) => k = n)
  BY JobsAssumption DEF Count
<1>2. Formats(job.pieces) = [k \in 1 .. n |-> FormatOf(job.pieces[k])]
  BY <1>1 DEF Formats
<1>3. ASSUME NEW k \in 1 .. n PROVE FormatOf(job.pieces[k]) \in Seq(Int)
  <2> DEFINE piece == job.pieces[k]
  <2>1. Sane(piece)
    BY <1>1
  <2> HIDE DEF piece
  <2>2. piece.conv \in Int /\ Percent \in Int /\ (piece.conv = NUL => piece.num \in Int)
    BY <2>1 DEF Sane, Chars, Percent
  <2>3. piece.conv = NUL => <<piece.num>> \in Seq(Int)
    BY <2>2
  <2>4. <<Percent, piece.conv>> \in Seq(Int)
    BY <2>2
  <2>5. FormatOf(piece) \in Seq(Int)
    BY <2>3, <2>4 DEF FormatOf
  <2> QED BY <2>5 DEF piece
<1>4. Taken(job.pieces) =
        [k \in 1 .. n |-> IF Takes(job.pieces[k]) THEN <<job.pieces[k]>> ELSE <<>>]
  BY <1>1 DEF Taken
<1>5. ASSUME NEW k \in 1 .. n
      PROVE  (IF Takes(job.pieces[k]) THEN <<job.pieces[k]>> ELSE <<>>) \in Seq(S)
  <2>1. job.pieces[k] \in S
    OBVIOUS
  <2> HIDE DEF S
  <2> QED BY <2>1
<1>6. Meanings(job.pieces) = [k \in 1 .. n |-> Meaning(job.pieces[k])]
  BY <1>1 DEF Meanings
<1>7. Formats(job.pieces) \in [1 .. n -> Seq(Int)]
  <2> HIDE DEF n
  <2> QED BY <1>2, <1>3
<1>8. Taken(job.pieces) \in [1 .. n -> Seq(S)]
  <2> HIDE DEF n, S
  <2> QED BY <1>4, <1>5
<1> QED BY <1>1, <1>2, <1>4, <1>6, <1>7, <1>8

\* Behind the last piece is the terminator.
LEMMA ReadEnd ==
  ASSUME job \in Jobs, job.call = "vsprintf", Ready(Count)
  PROVE  format[i] = NUL
<1> DEFINE F == Formats(job.pieces)
<1>1. /\ Count \in Nat /\ F \in [1 .. Count -> Seq(Int)]
      /\ F = [k \in 1 .. Count |-> F[k]]
  BY PiecesFacts
<1>2. FlattenSeq(F) = Joined(F, Count) /\ Joined(F, Count) \in Seq(Int)
  <2> HIDE DEF F
  <2>1. Count \in 0 .. Count
    BY <1>1
  <2>2. Laid(Int, Count, F)
    BY <1>1, JoinAt
  <2> QED BY <1>1, <2>1, <2>2, JoinAll DEF Laid
<1>3. i = Len(FlattenSeq(F)) + 1 /\ format = FlattenSeq(F) \o <<NUL>>
  BY <1>2 DEF Ready, format, FormatText
<1> DEFINE t == FlattenSeq(F)
<1>4. t \in Seq(Int)
  BY <1>2
<1> HIDE DEF t
<1>5. (t \o <<NUL>>)[Len(t) + 1] = NUL
  BY <1>4
<1> QED BY <1>3, <1>5 DEF t

\* Piece q + 1 is what stands behind the first q.
LEMMA ReadPiece ==
  ASSUME job \in Jobs, job.call = "vsprintf",
         NEW q \in 0 .. Count - 1, Ready(q)
  PROVE  LET piece == job.pieces[q + 1]
             F == Formats(job.pieces)
             T == Taken(job.pieces)
         IN  /\ \A p \in 1 .. Len(FormatOf(piece)) : format[i + p - 1] = FormatOf(piece)[p]
             /\ Len(Joined(F, q + 1)) + 1 = i + Len(FormatOf(piece))
             /\ Takes(piece) => va_arg = piece /\ Len(Joined(T, q + 1)) + 1 = arg + 1
             /\ ~Takes(piece) => Len(Joined(T, q + 1)) + 1 = arg
             /\ i \in Nat /\ arg \in Nat
<1> DEFINE piece == job.pieces[q + 1]
           F == Formats(job.pieces)
           T == Taken(job.pieces)
           S == {job.pieces[k] : k \in 1 .. Count}
           t == FlattenSeq(F)
<1>1. /\ Count \in Nat /\ F \in [1 .. Count -> Seq(Int)] /\ T \in [1 .. Count -> Seq(S)]
      /\ F = [k \in 1 .. Count |-> F[k]]
  BY PiecesFacts
<1>2. q + 1 \in 1 .. Count /\ q \in 0 .. Count /\ Count \in 0 .. Count
  BY <1>1
<1>3. /\ F[q + 1] = FormatOf(piece)
      /\ T[q + 1] = IF Takes(piece) THEN <<piece>> ELSE <<>>
  BY <1>2, PiecesFacts
<1>4. /\ Joined(F, q) \in Seq(Int) /\ t \in Seq(Int)
      /\ Len(Joined(F, q + 1)) = Len(Joined(F, q)) + Len(F[q + 1])
      /\ \A p \in 1 .. Len(F[q + 1]) :
           Len(Joined(F, q)) + p \in 1 .. Len(t) /\ t[Len(Joined(F, q)) + p] = F[q + 1][p]
  <2>1. t = Joined(F, Count)
    <3> HIDE DEF F
    <3> QED BY <1>1, JoinAll
  <2>2. Laid(Int, Count, F)
    <3> HIDE DEF F
    <3> QED BY <1>1, JoinAt
  <2> HIDE DEF F, t
  <2> QED BY <1>2, <2>1, <2>2 DEF Laid, t
<1>5. /\ Joined(T, q) \in Seq(S)
      /\ Len(Joined(T, q + 1)) = Len(Joined(T, q)) + Len(T[q + 1])
      /\ \A p \in 1 .. Len(T[q + 1]) :
           FlattenSeq(T)[Len(Joined(T, q)) + p] = T[q + 1][p]
  <2>1. Laid(S, Count, T)
    <3> HIDE DEF T, S
    <3> QED BY <1>1, JoinAt
  <2> HIDE DEF T, S
  <2> QED BY <1>2, <2>1 DEF Laid
<1>6. /\ i = Len(Joined(F, q)) + 1 /\ arg = Len(Joined(T, q)) + 1
      /\ format = t \o <<NUL>> /\ va_arg = FlattenSeq(T)[arg]
  BY DEF Ready, format, FormatText, va_arg, Arguments
<1>7. Len(Joined(F, q)) \in Nat /\ Len(Joined(T, q)) \in Nat /\ Len(F[q + 1]) \in Nat
  <2>1. F[q + 1] \in Seq(Int)
    BY <1>1, <1>2
  <2> HIDE DEF F, T, S
  <2> QED BY <1>4, <1>5, <2>1, LenProperties
<1> HIDE DEF t, F, T, S, piece
<1>8. ASSUME NEW p \in 1 .. Len(F[q + 1]) PROVE format[i + p - 1] = F[q + 1][p]
  <2> DEFINE x == Len(Joined(F, q)) + p
  <2>1. x \in 1 .. Len(t) /\ t[x] = F[q + 1][p]
    BY <1>4
  <2>2. i + p - 1 = x
    <3> DEFINE l == Len(Joined(F, q))
    <3>1. i = l + 1 /\ l \in Nat /\ p \in Int
      BY <1>6, <1>7
    <3> HIDE DEF l
    <3>2. i + p - 1 = l + p
      BY <3>1
    <3> QED BY <3>2 DEF l
  <2> HIDE DEF x
  <2>3. (t \o <<NUL>>)[x] = t[x]
    BY <1>4, <2>1
  <2> QED BY <1>6, <2>1, <2>2, <2>3
<1>9. Takes(piece) => va_arg = piece /\ Len(Joined(T, q + 1)) + 1 = arg + 1
  <2>1. Takes(piece) => Len(T[q + 1]) = 1 /\ T[q + 1][1] = piece /\ 1 \in 1 .. Len(T[q + 1])
    BY <1>3
  <2> QED BY <1>5, <1>6, <1>7, <2>1
<1>10. ~Takes(piece) => Len(Joined(T, q + 1)) + 1 = arg
  <2>1. ~Takes(piece) => Len(T[q + 1]) = 0
    BY <1>3
  <2> QED BY <1>5, <1>6, <1>7, <2>1
<1>11. Len(Joined(F, q + 1)) + 1 = i + Len(F[q + 1]) /\ i \in Nat /\ arg \in Nat
  <2> DEFINE l == Len(Joined(F, q))
             d == Len(F[q + 1])
             e == Len(Joined(F, q + 1))
             m == Len(Joined(T, q))
  <2>1. e = l + d /\ i = l + 1 /\ arg = m + 1 /\ l \in Nat /\ m \in Nat /\ d \in Nat
    BY <1>4, <1>6, <1>7
  <2> HIDE DEF l, d, e, m
  <2>2. e + 1 = i + d /\ i \in Nat /\ arg \in Nat
    BY <2>1
  <2> QED BY <2>2 DEF e, d
<1> QED BY <1>3, <1>8, <1>9, <1>10, <1>11 DEF F, T, piece

-----------------------------------------------------------------------------
(* The numbers that are converted.                                         *)

LEMMA NumberFacts ==
  /\ IntMin \in Int /\ Ints \subseteq Int /\ Words \subseteq Nat
  /\ \A n \in Ints \cup Words : AbsOf(n) \in Nat /\ Narrow(AbsOf(n))
  /\ \A n \in Ints : AbsOf(n) < Power(10, DecRoom - 2)
  /\ \A n \in Words : n < Power(16, HexRoom)
<1> DEFINE P(k) == Power(2, k)
<1>1. /\ \A k \in Nat : P(k) \in Nat
      /\ \A j, k \in Nat : j < k => P(j) < P(k)
  <2>1. 2 \in Nat /\ 2 >= 2
    OBVIOUS
  <2> QED BY <2>1, PowerFacts
<1>2. /\ IntBits - 1 \in Nat /\ WordBits \in Nat /\ IntBits + WordBits \in Nat
      /\ IntBits - 1 < IntBits + WordBits /\ WordBits < IntBits + WordBits
      /\ DecRoom - 2 \in Nat /\ HexRoom \in Nat
  BY WidthAssumption
<1> DEFINE pi == P(IntBits - 1)
           pw == P(WordBits)
           all == P(IntBits + WordBits)
<1>3. pi \in Nat /\ pw \in Nat /\ all \in Nat /\ pi < all /\ pw < all
  <2> HIDE DEF P
  <2> QED BY <1>1, <1>2
<1>4. /\ IntMin = -pi /\ Ints = -pi .. pi - 1 /\ Words = 0 .. pw - 1
      /\ pi < Power(10, DecRoom - 2) /\ pw <= Power(16, HexRoom)
  BY WidthAssumption DEF IntMin, Ints, Words
<1>5. Power(10, DecRoom - 2) \in Nat /\ Power(16, HexRoom) \in Nat
  <2>1. 10 \in Nat /\ 10 >= 2 /\ 16 \in Nat /\ 16 >= 2
    OBVIOUS
  <2>2. \A k \in Nat : Power(10, k) \in Nat
    BY <2>1, PowerFacts
  <2>3. \A k \in Nat : Power(16, k) \in Nat
    BY <2>1, PowerFacts
  <2> QED BY <1>2, <2>2, <2>3
<1>6. \A x : Narrow(x) <=> x < all
  BY DEF Narrow
<1> HIDE DEF pi, pw, all
<1>7. \A n \in Ints : AbsOf(n) \in Nat /\ AbsOf(n) <= pi
  BY <1>3, <1>4 DEF AbsOf
<1>8. \A n \in Words : n \in Nat /\ AbsOf(n) = n /\ n < pw
  BY <1>3, <1>4 DEF AbsOf
<1>9. IntMin \in Int /\ Ints \subseteq Int /\ Words \subseteq Nat
  BY <1>3, <1>4
<1>10. \A n \in Ints \cup Words : AbsOf(n) \in Nat /\ Narrow(AbsOf(n))
  BY <1>3, <1>6, <1>7, <1>8
<1>11. \A n \in Ints : AbsOf(n) < Power(10, DecRoom - 2)
  BY <1>3, <1>4, <1>5, <1>7
<1>12. \A n \in Words : n < Power(16, HexRoom)
  BY <1>3, <1>4, <1>5, <1>8
<1> QED BY <1>9, <1>10, <1>11, <1>12

\* What is stored of a number below a power of the base has no more digits
\* than that power.
LEMMA FewDigits ==
  ASSUME NEW m \in Nat, NEW b \in Nat, b >= 2, NEW left, NEW ds, NEW k \in Nat,
         Counted(m, b, left, ds), m < Power(b, k)
  PROVE  Len(ds) \in Nat /\ Len(ds) <= k
<1> DEFINE P(x) == Power(b, x)
           l == Len(ds)
<1>1. l \in Nat /\ (l > 0 => P(l - 1) <= m)
  BY LenProperties DEF Counted
<1>2. /\ \A x \in Nat : P(x) \in Nat
      /\ \A x, y \in Nat : x < y => P(x) < P(y)
  BY PowerFacts
<1>3. m < P(k)
  OBVIOUS
<1> HIDE DEF P, l
<1>4. ASSUME k < l PROVE FALSE
  <2>1. l - 1 \in Nat /\ l > 0 /\ (k < l - 1 \/ k = l - 1)
    BY <1>1, <1>4
  <2>2. P(k) <= P(l - 1) /\ P(k) \in Nat /\ P(l - 1) \in Nat
    BY <1>2, <2>1
  <2> QED BY <1>1, <1>3, <2>1, <2>2
<1> QED BY <1>1, <1>4 DEF l

\* The loop, then the sign: the text backwards.
WithSign(n, b, ds) == IF n < 0 /\ b = 10 THEN Append(ds, Minus) ELSE ds
Backwards(es, text) ==
  /\ es \in Seq(Int) /\ text \in Seq(Int) /\ Len(text) = Len(es)
  /\ \A k \in 1 .. Len(es) : es[k] = text[Len(es) + 1 - k]

LEMMA SpellingOf ==
  ASSUME NEW n \in Ints \cup Words, n # 0, NEW b \in 2 .. 36, Convertible(n, b), NEW ds,
         Counted(AbsOf(n), b, 0, ds), Spelled(AbsOf(n), b, 97, ds)
  PROVE  Backwards(WithSign(n, b, ds), Spelling(n, b))
<1> DEFINE l == Len(ds)
           m == AbsOf(n)
<1>1. n \in Int /\ m \in Nat /\ m # 0 /\ Narrow(m)
  BY NumberFacts DEF AbsOf
<1>2. b \in Nat /\ b >= 2 /\ 97 \in Nat
  OBVIOUS
<1>3. Numeral(m, b, 97) = Reverse(ds)
  <2> HIDE DEF m
  <2>1. Counted(m, b, 0, ds) /\ Spelled(m, b, 97, ds)
    BY DEF m
  <2> QED BY <1>1, <1>2, <2>1, NumeralOf
<1>4. ds \in Seq(Int) /\ l \in Nat
  BY LenProperties DEF Counted
<1>5. /\ Reverse(ds) \in Seq(Int) /\ Len(Reverse(ds)) = l
      /\ \A k \in 1 .. l : Reverse(ds)[k] = ds[(l - k) + 1]
  <2>1. \A k \in 1 .. l : (l - k) + 1 \in 1 .. l
    <3> HIDE DEF l
    <3> QED BY <1>4
  <2>2. \A k \in 1 .. l : ds[(l - k) + 1] \in Int
    BY <1>4, <2>1, ElementOfSeq
  <2>3. Reverse(ds) = [k \in 1 .. l |-> ds[(l - k) + 1]]
    BY DEF Reverse
  <2> HIDE DEF l
  <2>4. Reverse(ds) \in [1 .. l -> Int]
    BY <2>2, <2>3
  <2>5. Reverse(ds) \in Seq(Int) /\ Len(Reverse(ds)) = l
    BY <1>4, <2>4
  <2> QED BY <2>3, <2>5
<1> DEFINE r == Reverse(ds)
<1>6. CASE n >= 0
  <2>1. ~(n < 0) /\ Spelling(n, b) = r
    <3>1. ~(n < 0) /\ m = n
      BY <1>1, <1>6 DEF AbsOf
    <3> HIDE DEF m
    <3> QED BY <1>3, <3>1 DEF Spelling, Signed
  <2> HIDE DEF r
  <2>2. \A k \in 1 .. l : ds[k] = r[l + 1 - k]
    <3> HIDE DEF l
    <3>1. \A k \in 1 .. l : l + 1 - k \in 1 .. l /\ (l - (l + 1 - k)) + 1 = k
      BY <1>4
    <3> QED BY <1>5, <3>1 DEF r
  <2>3. WithSign(n, b, ds) = ds
    BY <2>1 DEF WithSign
  <2> QED BY <1>4, <1>5, <2>1, <2>2, <2>3 DEF r, Backwards
<1>7. CASE n < 0
  <2>1. b = 10 /\ Spelling(n, b) = <<Minus>> \o r
    <3>1. b = 10
      BY <1>1, <1>7 DEF Convertible
    <3>2. m = -n
      BY <1>7 DEF AbsOf
    <3> HIDE DEF m
    <3> QED BY <1>3, <1>7, <3>1, <3>2 DEF Spelling, Signed
  <2> DEFINE es == Append(ds, Minus)
             t == <<Minus>> \o r
  <2>2. r \in Seq(Int) /\ Len(r) = l /\ <<Minus>> \in Seq(Int) /\ Len(<<Minus>>) = 1
        /\ Minus \in Int
    BY <1>5 DEF Minus
  <2>3. /\ es \in Seq(Int) /\ Len(es) = l + 1 /\ es[l + 1] = Minus
        /\ \A k \in 1 .. l : es[k] = ds[k]
    BY <1>4, <2>2, AppendProperties
  <2>4. t \in Seq(Int) /\ Len(t) = l + 1 /\ t[1] = Minus /\ \A k \in 1 .. l : t[k + 1] = r[k]
    <3> HIDE DEF r, l
    <3>1. Len(t) = l + 1
      BY <1>4, <2>2, ConcatProperties
    <3>2. 1 \in 1 .. 1 + l /\ 1 <= 1 /\ \A k \in 1 .. l : k + 1 \in 1 .. 1 + l /\ ~(k + 1 <= 1) /\ (k + 1) - 1 = k
      BY <1>4
    <3>3. \A k \in 1 .. 1 + l : t[k] = IF k <= 1 THEN <<Minus>>[k] ELSE r[k - 1]
      BY <1>4, <2>2, ConcatProperties
    <3>4. <<Minus>>[1] = Minus
      OBVIOUS
    <3>5. t \in Seq(Int)
      BY <2>2, ConcatProperties
    <3> HIDE DEF t
    <3> QED BY <3>1, <3>2, <3>3, <3>4, <3>5
  <2>5. ASSUME NEW k \in 1 .. l + 1 PROVE es[k] = t[(l + 1) + 1 - k]
    <3> HIDE DEF r, l, es, t
    <3>1. CASE k = l + 1
      <4>1. (l + 1) + 1 - k = 1
        BY <1>4, <3>1
      <4> QED BY <2>3, <2>4, <3>1, <4>1
    <3>2. CASE k # l + 1
      <4>1. /\ k \in 1 .. l /\ (l + 1 - k) \in 1 .. l
            /\ (l + 1) + 1 - k = (l + 1 - k) + 1 /\ (l - (l + 1 - k)) + 1 = k
        BY <1>4, <3>2
      <4>2. t[(l + 1 - k) + 1] = r[l + 1 - k]
        BY <2>4, <4>1
      <4>3. r[l + 1 - k] = ds[k]
        BY <1>5, <4>1 DEF r
      <4> QED BY <2>3, <4>1, <4>2, <4>3
    <3> QED BY <3>1, <3>2
  <2> HIDE DEF es, t, r
  <2>6. l + 1 \in Nat
    BY <1>4
  <2>7. WithSign(n, b, ds) = es /\ Spelling(n, b) = t
    BY <1>7, <2>1 DEF es, t, WithSign
  <2> HIDE DEF l
  <2> QED BY <2>3, <2>4, <2>5, <2>6, <2>7 DEF Backwards
<1> QED BY <1>1, <1>6, <1>7

LEMMA SpellingOfZero ==
  ASSUME NEW b \in 2 .. 36
  PROVE  Spelling(0, b) = <<48>>
<1>1. Numeral(0, b, 97) = <<48>>
  BY NumeralOfZero
<1> QED BY <1>1 DEF Spelling, Signed

-----------------------------------------------------------------------------
(* The steps of itoa and ulltoa.                                           *)

Converts == Zero \/ Sign \/ AddDigit \/ AddMinus \/ ReverseStep

LEMMA ZeroKeeps ==
  ASSUME NEW n \in Ints \cup Words, NEW b \in 2 .. 36, NumberOK(n, b), Zero
  PROVE  NumberOK(n, b)' /\ (pc' = IF job.call = "vsprintf" THEN "copy" ELSE "done")
         /\ UNCHANGED <<job, textVars>>
<1>1. n = 0 /\ base' = b /\ num_str' = <<48>>
      /\ (pc' = IF job.call = "vsprintf" THEN "copy" ELSE "done")
      /\ UNCHANGED <<job, textVars>>
  BY DEF Zero, NumberOK, Entered
<1>2. Len(num_str') = 1 /\ num_str' \in Seq(Int) /\ 1 + 1 <= DecRoom
  BY <1>1, WidthAssumption
<1>3. Fits'
  BY <1>2 DEF Fits
<1>4. Spelling(n, b) = <<48>>
  BY <1>1, SpellingOfZero
<1>5. Converted(n, b)'
  BY <1>1, <1>2, <1>3, <1>4 DEF Converted
<1> QED BY <1>1, <1>5 DEF NumberOK

LEMMA SignKeeps ==
  ASSUME NEW n \in Ints \cup Words, NEW b \in 2 .. 36, NumberOK(n, b), Sign,
         pc = "itoa" => n \in Ints
  PROVE  NumberOK(n, b)' /\ pc' = "digits" /\ UNCHANGED <<job, textVars>>
<1>1. /\ n # 0 /\ base = b /\ base' = b /\ num = n /\ num_str' = <<>> /\ pc' = "digits"
      /\ is_negative' = (pc = "itoa" /\ n < 0 /\ b = 10)
      /\ num' = (IF is_negative' THEN Negated(n) ELSE n)
      /\ UNCHANGED <<job, textVars>>
  BY DEF Sign, NumberOK, Entered
<1>2. /\ IntMin \in Int /\ n \in Int /\ AbsOf(n) \in Nat
      /\ pc = "ulltoa" => n >= 0
  BY NumberFacts DEF Sign, NumberOK, Entered
<1>3. is_negative' = (n < 0 /\ b = 10)
  BY <1>1, <1>2 DEF Sign
<1>4. num' \in Int /\ AbsOf(num') = AbsOf(n)
  BY <1>1, <1>2 DEF Negated, AbsOf
<1>5. Convertible(n, b) => num' >= 0
  <2>1. num' = IF n < 0 /\ b = 10 THEN Negated(n) ELSE n
    <3> DEFINE neg == n < 0 /\ b = 10
               flag == is_negative'
    <3>1. num' = (IF flag THEN Negated(n) ELSE n) /\ flag = neg
      BY <1>1, <1>3
    <3> HIDE DEF neg, flag
    <3>2. num' = IF neg THEN Negated(n) ELSE n
      BY <3>1
    <3> QED BY <3>2 DEF neg
  <2> QED BY <1>2, <2>1 DEF Convertible, Negated
<1>6. Counted(AbsOf(n), b, AbsOf(num'), num_str')
  <2> DEFINE m == AbsOf(n)
  <2>1. Power(b, 0) = 1 /\ Len(num_str') = 0 /\ num_str' \in Seq(Int)
    BY <1>1, PowerFacts
  <2>2. m \in Nat => m \div 1 = m
    OBVIOUS
  <2> HIDE DEF m
  <2>3. m = m \div Power(b, Len(num_str'))
    BY <1>2, <2>1, <2>2 DEF m
  <2> QED BY <1>4, <2>1, <2>3 DEF Counted, m
<1>7. \A letter : Spelled(AbsOf(n), b, letter, num_str')
  BY <1>1 DEF Spelled
<1>8. Dividing(n, b)'
  BY <1>1, <1>3, <1>4, <1>5, <1>6, <1>7 DEF Dividing
<1> QED BY <1>1, <1>8 DEF NumberOK

LEMMA DigitKeeps ==
  ASSUME NEW n \in Ints \cup Words, NEW b \in 2 .. 36, NumberOK(n, b), AddDigit
  PROVE  NumberOK(n, b)' /\ pc' = "digits" /\ UNCHANGED <<job, textVars>>
<1> DEFINE c == Digit(Rem(num, b), 97)
           m == AbsOf(n)
           left == AbsOf(num)
<1>1. /\ Dividing(n, b) /\ base = b /\ num # 0
      /\ num_str' = Append(num_str, c) /\ num' = Quot(num, b)
      /\ pc = "digits" /\ UNCHANGED <<job, pc, textVars, base, is_negative, start>>
  BY DEF AddDigit, NumberOK
<1>2. num \in Int /\ m \in Nat /\ b \in Nat /\ b >= 2
  BY <1>1, NumberFacts DEF Dividing
<1>3. left \in Nat /\ left # 0
  BY <1>1, <1>2 DEF AbsOf
<1>4. c \in Int
  <2>1. \A x \in Nat : x % b \in Nat
    BY <1>2
  <2>2. Rem(num, b) \in Int
    BY <1>2, <2>1 DEF Rem
  <2> DEFINE rem == Rem(num, b)
  <2> HIDE DEF rem
  <2>3. rem \in Int => Digit(rem, 97) \in Int
    BY DEF Digit
  <2> QED BY <2>2, <2>3 DEF rem
<1>5. num' \in Int /\ AbsOf(num') = left \div b
  <2>1. \A x \in Nat : x \div b \in Nat
    BY <1>2
  <2>2. CASE num >= 0
    <3>1. left = num /\ num \in Nat
      BY <1>2, <2>2 DEF AbsOf
    <3>2. num' = num \div b /\ num \div b \in Nat
      BY <1>1, <2>1, <2>2, <3>1 DEF Quot
    <3> QED BY <3>1, <3>2 DEF AbsOf
  <2>3. CASE ~(num >= 0)
    <3>1. left = -num /\ -num \in Nat
      BY <1>2, <2>3 DEF AbsOf
    <3> DEFINE q == (-num) \div b
    <3>2. num' = -q /\ q \in Nat
      BY <1>1, <2>1, <2>3, <3>1 DEF Quot
    <3> HIDE DEF q
    <3>3. num' \in Int /\ AbsOf(num') = q
      BY <3>2 DEF AbsOf
    <3> QED BY <3>1, <3>3 DEF q
  <2> QED BY <2>2, <2>3
<1>6. /\ Counted(m, b, left \div b, num_str')
      /\ Spelled(m, b, 97, num_str) /\ c = Digit(left % b, 97) => Spelled(m, b, 97, num_str')
  <2>1. Counted(m, b, left, num_str)
    BY <1>1 DEF Dividing
  <2> HIDE DEF m, left, c
  <2> QED BY <1>1, <1>2, <1>3, <1>4, <2>1, DigitStep
<1>7. Convertible(n, b) => num' >= 0 /\ Spelled(m, b, 97, num_str')
  <2> SUFFICES ASSUME Convertible(n, b) PROVE num' >= 0 /\ Spelled(m, b, 97, num_str')
    OBVIOUS
  <2>1. num >= 0 /\ Spelled(m, b, 97, num_str)
    BY <1>1 DEF Dividing
  <2>2. c = Digit(left % b, 97)
    BY <1>2, <2>1 DEF Rem, AbsOf
  <2>3. num' >= 0
    <3>1. num \in Nat => num \div b >= 0
      BY <1>2
    <3> QED BY <1>1, <1>2, <2>1, <3>1 DEF Quot
  <2> QED BY <1>6, <2>1, <2>2, <2>3
<1>8. Dividing(n, b)'
  <2>1. n # 0 /\ is_negative' = (n < 0 /\ b = 10)
    BY <1>1 DEF Dividing
  <2>2. Counted(AbsOf(n), b, AbsOf(num'), num_str')
    BY <1>5, <1>6
  <2> QED BY <1>5, <1>7, <2>1, <2>2 DEF Dividing
<1> QED BY <1>1, <1>8 DEF NumberOK

LEMMA MinusKeeps ==
  ASSUME NEW n \in Ints \cup Words, NEW b \in 2 .. 36, NumberOK(n, b), AddMinus,
         job.call = "vsprintf" => n \in Ints /\ b = 10
  PROVE  NumberOK(n, b)' /\ pc' = "reverse" /\ UNCHANGED <<job, textVars>>
<1>1. /\ Dividing(n, b) /\ base = b /\ num = 0 /\ base' = b
      /\ pc' = "reverse" /\ start' = 1 /\ UNCHANGED <<job, textVars>>
      /\ num_str' = WithSign(n, b, num_str)
  BY DEF AddMinus, NumberOK, Dividing, WithSign
<1>2. /\ n # 0 /\ Counted(AbsOf(n), b, 0, num_str)
      /\ Convertible(n, b) => Spelled(AbsOf(n), b, 97, num_str)
  BY <1>1 DEF Dividing, AbsOf
<1>3. num_str \in Seq(Int) /\ Len(num_str) \in Nat
  BY <1>2, LenProperties DEF Counted
<1>4. num_str' \in Seq(Int) /\ Len(num_str') \in Nat /\ Len(num_str') <= Len(num_str) + 1
  <2>1. Minus \in Int
    BY DEF Minus
  <2>2. /\ Append(num_str, Minus) \in Seq(Int)
        /\ Len(Append(num_str, Minus)) = Len(num_str) + 1
    BY <1>3, <2>1, AppendProperties
  <2> QED BY <1>1, <1>3, <2>2 DEF WithSign
<1>5. Fits'
  <2> SUFFICES ASSUME job.call = "vsprintf" PROVE Len(num_str') + 1 <= DecRoom
    BY <1>1 DEF Fits
  <2> DEFINE m == AbsOf(n)
             k == DecRoom - 2
  <2>1. m \in Nat /\ m < Power(10, k) /\ k \in Nat /\ Counted(m, 10, 0, num_str)
    BY <1>2, NumberFacts, WidthAssumption
  <2>2. 10 \in Nat /\ 10 >= 2
    OBVIOUS
  <2>3. Len(num_str) <= k
    <3> HIDE DEF m, k
    <3> QED BY <2>1, <2>2, FewDigits
  <2> QED BY <1>3, <1>4, <2>3, WidthAssumption
<1>6. Convertible(n, b) => Swapped(Spelling(n, b))'
  <2> SUFFICES ASSUME Convertible(n, b) PROVE Swapped(Spelling(n, b))'
    OBVIOUS
  <2>1. Backwards(num_str', Spelling(n, b))
    BY <1>1, <1>2, SpellingOf
  <2> DEFINE l == Len(num_str')
             t == Spelling(n, b)
  <2>2. /\ t \in Seq(Int) /\ Len(t) = l
        /\ \A k \in 1 .. l : num_str'[k] = t[l + 1 - k]
    BY <2>1 DEF Backwards
  <2>3. \A k \in 1 .. l : ~(k < start' \/ k > l + 1 - start')
    <3> HIDE DEF l
    <3>1. l \in Nat
      BY <1>4 DEF l
    <3> QED BY <1>1, <3>1
  <2> QED BY <2>2, <2>3 DEF Swapped
<1>7. Reversing(n, b)'
  BY <1>1, <1>4, <1>5, <1>6 DEF Reversing
<1> QED BY <1>1, <1>7 DEF NumberOK

LEMMA ReverseKeeps ==
  ASSUME NEW n \in Ints \cup Words, NEW b \in 2 .. 36, NumberOK(n, b), ReverseStep
  PROVE  NumberOK(n, b)'
         /\ (pc' = "reverse" \/ pc' = IF job.call = "vsprintf" THEN "copy" ELSE "done")
         /\ UNCHANGED <<job, textVars>>
<1> DEFINE l == Len(num_str)
           o == l + 1 - start
           t == Spelling(n, b)
<1>1. /\ Reversing(n, b) /\ base = b /\ base' = b /\ pc = "reverse"
      /\ UNCHANGED <<job, textVars>>
  BY DEF ReverseStep, NumberOK
<1>2. num_str \in Seq(Int) /\ l \in Nat /\ start \in Nat \ {0}
  BY <1>1, LenProperties DEF Reversing
<1>3. o \in Int
  <2> HIDE DEF l
  <2> QED BY <1>2
<1>4. CASE Swaps(start, l)
  <2>1. /\ num_str' = [num_str EXCEPT ![start] = num_str[o], ![o] = num_str[start]]
        /\ start' = start + 1 /\ pc' = "reverse"
    BY <1>1, <1>4 DEF ReverseStep
  <2>2. start < o
    BY <1>4 DEF Swaps
  <2>3. start \in 1 .. l /\ o \in 1 .. l
    <3> HIDE DEF l
    <3> QED BY <1>2, <2>2
  <2>4. num_str[start] \in Int /\ num_str[o] \in Int
    BY <1>2, <2>3, ElementOfSeq
  <2>5. num_str \in [1 .. l -> Int]
    BY <1>2
  <2> HIDE DEF o, l
  <2>6. /\ num_str' \in [1 .. l -> Int]
        /\ num_str'[start] = num_str[o] /\ num_str'[o] = num_str[start]
        /\ \A k \in 1 .. l : k # start /\ k # o => num_str'[k] = num_str[k]
    BY <2>1, <2>2, <2>3, <2>4, <2>5
  <2>7. num_str' \in Seq(Int) /\ Len(num_str') = l
    BY <1>2, <2>6
  <2>8. Fits'
    BY <1>1, <2>7 DEF Reversing, Fits, l
  <2>9. ASSUME Convertible(n, b) PROVE Swapped(t)'
    <3>1. /\ t \in Seq(Int) /\ Len(t) = l
          /\ \A k \in 1 .. l :
               num_str[k] = IF k < start \/ k > o THEN t[k] ELSE t[l + 1 - k]
      BY <1>1, <2>9 DEF Reversing, Swapped, l, o
    <3>2. /\ l + 1 - start = o /\ l + 1 - o = start /\ l + 1 - start' = o - 1
          /\ ~(start < start) /\ ~(start > o) /\ ~(o < start) /\ ~(o > o)
      <4>1. l \in Int /\ start \in Int /\ start' = start + 1 /\ o = l + 1 - start /\ start < o
        BY <1>2, <1>3, <2>1, <2>2 DEF o
      <4> QED BY <4>1
    <3>3. num_str[start] = t[o] /\ num_str[o] = t[start]
      BY <2>3, <3>1, <3>2
    <3>4. ASSUME NEW k \in 1 .. l
          PROVE  num_str'[k] = IF k < start' \/ k > o - 1 THEN t[k] ELSE t[l + 1 - k]
      <4>1. k \in Int /\ start \in Int /\ o \in Int /\ start' = start + 1
        BY <1>2, <1>3, <2>1
      <4>2. CASE k = start
        <5>1. k < start'
          BY <4>1, <4>2
        <5> QED BY <2>6, <3>3, <4>2, <5>1
      <4>3. CASE k = o
        <5>1. k > o - 1
          BY <4>1, <4>3
        <5> QED BY <2>6, <3>3, <4>3, <5>1
      <4>4. CASE k # start /\ k # o
        <5>1. (k < start' <=> k < start) /\ (k > o - 1 <=> k > o)
          BY <4>1, <4>4
        <5> QED BY <2>6, <3>1, <4>4, <5>1
      <4> QED BY <4>2, <4>3, <4>4
    <3> HIDE DEF t
    <3>5. \A k \in 1 .. l :
            num_str'[k] = IF k < start' \/ k > l + 1 - start' THEN t[k] ELSE t[l + 1 - k]
      BY <3>2, <3>4
    <3> QED BY <2>7, <3>1, <3>5 DEF Swapped
  <2>10. start' \in Nat \ {0}
    BY <1>2, <2>1
  <2>11. Reversing(n, b)'
    BY <2>7, <2>8, <2>9, <2>10 DEF Reversing
  <2> QED BY <1>1, <2>1, <2>11 DEF NumberOK
<1>5. CASE ~Swaps(start, l)
  <2>1. /\ (pc' = IF job.call = "vsprintf" THEN "copy" ELSE "done")
        /\ num_str' = num_str
    BY <1>1, <1>5 DEF ReverseStep
  <2>2. ~(start < o)
    BY <1>5 DEF Swaps
  <2>3. ASSUME Convertible(n, b) PROVE num_str = t
    <3> HIDE DEF l, o
    <3>1. /\ t \in Seq(Int) /\ Len(t) = l
          /\ \A k \in 1 .. l :
               num_str[k] = IF k < start \/ k > o THEN t[k] ELSE t[l + 1 - k]
      BY <1>1, <2>3 DEF Reversing, Swapped, l, o
    <3>2. ASSUME NEW k \in 1 .. l, ~(k < start \/ k > o) PROVE l + 1 - k = k
      BY <1>2, <1>3, <2>2, <3>2 DEF o
    <3>3. \A k \in 1 .. l : num_str[k] = t[k]
      <4> HIDE DEF t
      <4> QED BY <3>1, <3>2
    <3> HIDE DEF t
    <3> QED BY <1>2, <3>1, <3>3, SeqEqual DEF l
  <2>4. Fits'
    BY <1>1, <2>1 DEF Reversing, Fits
  <2>5. Converted(n, b)'
    BY <1>2, <2>1, <2>3, <2>4 DEF Converted
  <2> QED BY <1>1, <2>1, <2>5 DEF NumberOK
<1> QED BY <1>4, <1>5

\* A call under way stays one until its text is complete.
LEMMA ConvertsKeeps ==
  ASSUME NEW n \in Ints \cup Words, NEW b \in 2 .. 36, NumberOK(n, b), Converts,
         pc = "itoa" => n \in Ints,
         job.call = "vsprintf" => n \in Ints /\ b = 10
  PROVE  /\ NumberOK(n, b)' /\ UNCHANGED <<job, textVars>>
         /\ \/ pc' \in {"digits", "reverse"}
            \/ pc' = IF job.call = "vsprintf" THEN "copy" ELSE "done"
<1>1. CASE Zero
  BY <1>1, ZeroKeeps
<1>2. CASE Sign
  BY <1>2, SignKeeps
<1>3. CASE AddDigit
  BY <1>3, DigitKeeps
<1>4. CASE AddMinus
  BY <1>4, MinusKeeps
<1>5. CASE ReverseStep
  BY <1>5, ReverseKeeps
<1> QED BY <1>1, <1>2, <1>3, <1>4, <1>5 DEF Converts

LEMMA HexDigitKeeps ==
  ASSUME NEW n \in Words, HexOK(n), HexDigit
  PROVE  HexOK(n)' /\ UNCHANGED <<job, pc, textVars>>
<1> DEFINE letter == IF pc = "HEX" THEN 65 ELSE 97
           c == Digit(Rem(num, 16), letter)
<1>1. /\ n # 0 /\ num \in Nat /\ num # 0 /\ Counted(n, 16, num, num_str)
      /\ Spelled(n, 16, letter, num_str)
      /\ num_str' = Append(num_str, c) /\ num' = Quot(num, 16)
      /\ UNCHANGED <<job, pc, textVars>>
  BY DEF HexOK, HexDigit
<1>2. n \in Nat /\ 16 \in Nat /\ 16 >= 2
  BY NumberFacts
<1>3. /\ Rem(num, 16) = num % 16 /\ num' = num \div 16 /\ num' \in Nat
      /\ letter \in Nat /\ num % 16 \in Nat
  BY <1>1 DEF Rem, Quot
<1>4. c \in Int /\ c = Digit(num % 16, letter)
  BY <1>3 DEF Digit
<1> HIDE DEF c, letter
<1>5. Counted(n, 16, num', num_str') /\ Spelled(n, 16, letter, num_str')
  BY <1>1, <1>2, <1>3, <1>4, DigitStep
<1>6. HexOK(n)'
  BY <1>1, <1>3, <1>5 DEF HexOK, letter
<1> QED BY <1>1, <1>6

-----------------------------------------------------------------------------
(* The steps of vsprintf.                                                  *)

Piece(q) == job.pieces[q + 1]

\* What the next characters say about the next piece.
LEMMA Parse ==
  ASSUME job \in Jobs, job.call = "vsprintf", NEW q \in 0 .. Count, Ready(q)
  PROVE  /\ format[i] = NUL => q = Count
         /\ format[i] \notin {Percent, NUL} =>
              /\ q \in 0 .. Count - 1 /\ Piece(q).conv = NUL /\ Piece(q).num = format[i]
              /\ Len(FormatOf(Piece(q))) = 1 /\ ~Takes(Piece(q))
         /\ format[i] = Percent /\ format[i + 1] # NUL =>
              /\ q \in 0 .. Count - 1 /\ Piece(q).conv = format[i + 1]
              /\ Len(FormatOf(Piece(q))) = 2
              /\ Takes(Piece(q)) => va_arg = Piece(q)
<1>1. Count \in Nat
  BY PiecesFacts
<1>2. CASE q = Count
  <2>1. format[i] = NUL
    BY <1>2, ReadEnd
  <2> QED BY <1>2, <2>1 DEF Percent, NUL
<1>3. CASE q # Count
  <2>1. q \in 0 .. Count - 1 /\ q + 1 \in 1 .. Count
    BY <1>1, <1>3
  <2>2. Sane(Piece(q)) /\ (Stray(Piece(q)) => q + 1 = Count)
    BY <2>1, PiecesFacts DEF Piece
  <2>3. /\ \A p \in 1 .. Len(FormatOf(Piece(q))) : format[i + p - 1] = FormatOf(Piece(q))[p]
        /\ Len(Joined(Formats(job.pieces), q + 1)) + 1 = i + Len(FormatOf(Piece(q)))
        /\ Takes(Piece(q)) => va_arg = Piece(q)
        /\ i \in Nat
    BY <2>1, ReadPiece DEF Piece
  <2>4. /\ i + 1 - 1 = i /\ i + 2 - 1 = i + 1
    BY <2>3
  <2>5. CASE Piece(q).conv = NUL
    <3>1. FormatOf(Piece(q)) = <<Piece(q).num>>
      BY <2>5 DEF FormatOf
    <3>2. /\ Len(FormatOf(Piece(q))) = 1 /\ FormatOf(Piece(q))[1] = Piece(q).num
          /\ 1 \in 1 .. Len(FormatOf(Piece(q)))
      BY <3>1
    <3>3. format[i] = Piece(q).num
      BY <2>3, <2>4, <3>2
    <3>4. Piece(q).num # NUL /\ ~Takes(Piece(q))
      BY <2>2, <2>5 DEF Sane, Takes, Conversions, NUL, LowerC, LowerS, LowerD, LowerX, UpperX
    <3>5. Piece(q).num = Percent => format[i + 1] = NUL
      <4> SUFFICES ASSUME Piece(q).num = Percent PROVE format[i + 1] = NUL
        OBVIOUS
      <4>1. q + 1 = Count
        BY <2>2, <2>5 DEF Stray
      <4> DEFINE F == Formats(job.pieces)
                 t == FlattenSeq(F)
      <4>2. t = Joined(F, Count) /\ t \in Seq(Int)
        <5>1. F \in [1 .. Count -> Seq(Int)] /\ F = [k \in 1 .. Count |-> F[k]]
          BY PiecesFacts
        <5> HIDE DEF F
        <5>2. Laid(Int, Count, F) /\ t = Joined(F, Count)
          BY <1>1, <5>1, JoinAt, JoinAll
        <5>3. Count \in 0 .. Count
          BY <1>1
        <5> QED BY <5>2, <5>3 DEF Laid
      <4>3. i + 1 = Len(t) + 1 /\ format = t \o <<NUL>>
        BY <2>3, <3>2, <4>1, <4>2 DEF format, FormatText
      <4> HIDE DEF t
      <4>4. (t \o <<NUL>>)[Len(t) + 1] = NUL
        BY <4>2
      <4> QED BY <4>3, <4>4
    <3> QED BY <2>1, <2>5, <3>2, <3>3, <3>4, <3>5
  <2>6. CASE Piece(q).conv # NUL
    <3>1. FormatOf(Piece(q)) = <<Percent, Piece(q).conv>>
      BY <2>6 DEF FormatOf
    <3>2. /\ Len(FormatOf(Piece(q))) = 2 /\ FormatOf(Piece(q))[1] = Percent
          /\ FormatOf(Piece(q))[2] = Piece(q).conv
          /\ 1 \in 1 .. Len(FormatOf(Piece(q))) /\ 2 \in 1 .. Len(FormatOf(Piece(q)))
      BY <3>1
    <3>3. format[i] = Percent /\ format[i + 1] = Piece(q).conv
      BY <2>3, <2>4, <3>2
    <3> QED BY <2>1, <2>3, <3>2, <3>3 DEF Percent, NUL
  <2> QED BY <2>5, <2>6
<1> QED BY <1>2, <1>3

\* Behind a piece the next one is ready.
LEMMA Advance ==
  ASSUME job \in Jobs, job.call = "vsprintf", NEW q \in 0 .. Count - 1, Ready(q),
         job' = job, i' = i + Len(FormatOf(Piece(q))),
         arg' = IF Takes(Piece(q)) THEN arg + 1 ELSE arg
  PROVE  Ready(q + 1)'
<1> DEFINE F == Formats(job.pieces)
           T == Taken(job.pieces)
<1>1. /\ Len(Joined(F, q + 1)) + 1 = i + Len(FormatOf(Piece(q)))
      /\ Takes(Piece(q)) => Len(Joined(T, q + 1)) + 1 = arg + 1
      /\ ~Takes(Piece(q)) => Len(Joined(T, q + 1)) + 1 = arg
  BY ReadPiece DEF Piece
<1>2. i' = Len(Joined(F, q + 1)) + 1 /\ arg' = Len(Joined(T, q + 1)) + 1
  <2> HIDE DEF F, T
  <2> QED BY <1>1
<1>3. F' = F /\ T' = T
  BY DEF Formats, Taken
<1> QED BY <1>2, <1>3 DEF Ready

\* And what it means is written.
LEMMA WriteNext ==
  ASSUME job \in Jobs, job.call = "vsprintf", NEW q \in 0 .. Count - 1, Wrote(q),
         job' = job, NEW text \in Seq(Int), str' = str \o text,
         WellFormed => text = Meaning(Piece(q))
  PROVE  Wrote(q + 1)'
<1> DEFINE M == Meanings(job.pieces)
<1>1. WellFormed' = WellFormed
  BY DEF WellFormed
<1>2. (Meanings(job.pieces))' = M
  BY DEF Meanings
<1>3. ASSUME WellFormed PROVE str' = Joined(M, q + 1)
  <2>1. Count \in Nat /\ M = [k \in 1 .. Count |-> Meaning(job.pieces[k])]
    BY PiecesFacts
  <2>2. q + 1 \in 1 .. Count
    BY <2>1
  <2>3. M[q + 1] = text /\ M = [k \in 1 .. Count |-> M[k]]
    BY <1>3, <2>1, <2>2 DEF Piece
  <2> HIDE DEF M
  <2>4. Joined(M, q + 1) = Joined(M, q) \o M[q + 1]
    <3> DEFINE n == Count
    <3>1. M[q + 1] \in Seq(Int) /\ n \in Nat /\ q \in 0 .. n - 1
      BY <2>1, <2>3
    <3>2. M = [k \in 1 .. n |-> M[k]]
      BY <2>3
    <3> HIDE DEF n
    <3> QED BY <3>1, <3>2, JoinText
  <2>5. str = Joined(M, q)
    BY <1>3 DEF Wrote, M
  <2> QED BY <2>3, <2>4, <2>5
<1> QED BY <1>1, <1>2, <1>3 DEF Wrote

LEMMA PutFacts ==
  ASSUME NEW text \in Seq(Int), str \in Seq(Int), written = Len(str), Put(text)
  PROVE  str' = str \o text /\ str' \in Seq(Int) /\ written' = Len(str')
<1>1. str' = str \o text /\ written' = Len(str) + Len(text)
  BY DEF Put
<1>2. str \o text \in Seq(Int) /\ Len(str \o text) = Len(str) + Len(text)
  BY ConcatProperties
<1> QED BY <1>1, <1>2

\* The cast gives the one char that differs by a multiple of 256.
LEMMA CharFacts ==
  ASSUME NEW n \in Int
  PROVE  /\ AsChar(n) \in Int
         /\ AsChar(n) = Congruent(n)
<1> DEFINE Same(c) == (c - n) % 256 = 0
           a == AsChar(n)
<1>1. a \in Chars /\ Same(a)
  BY DEF AsChar, Chars
<1>2. ASSUME NEW c \in Chars, NEW d \in Chars, Same(c), Same(d) PROVE c = d
  <2> DEFINE j == (c - n) \div 256
             k == (d - n) \div 256
  <2>1. c \in Int /\ d \in Int /\ c - d < 256 /\ d - c < 256
    BY DEF Chars
  <2>2. j \in Int /\ k \in Int /\ c - n = 256 * j /\ d - n = 256 * k
    BY <1>2, <2>1
  <2> HIDE DEF j, k
  <2> QED BY <2>1, <2>2
<1>3. a \in Int
  BY <1>1 DEF Chars
<1> HIDE DEF Same, a
<1>4. a = CHOOSE c \in Chars : Same(c)
  BY <1>1, <1>2
<1> QED BY <1>3, <1>4 DEF Same, a, Congruent

\* What each piece means, case by case.
LEMMA MeaningFacts ==
  ASSUME NEW piece
  PROVE  /\ piece.conv = NUL => Meaning(piece) = <<piece.num>>
         /\ (piece.conv = LowerC /\ piece.num \in Int) => Meaning(piece) = <<AsChar(piece.num)>>
         /\ piece.conv = LowerS =>
              Meaning(piece) = IF piece.text = NULL THEN NullText ELSE piece.text
         /\ piece.conv = LowerD => Meaning(piece) = Signed(piece.num)
         /\ piece.conv = LowerX => Meaning(piece) = Numeral(piece.num, 16, 97)
         /\ piece.conv = UpperX => Meaning(piece) = Numeral(piece.num, 16, 65)
         /\ piece.conv \notin Conversions \cup {NUL} => Meaning(piece) = <<piece.conv>>
<1>1. (piece.conv = LowerC /\ piece.num \in Int) => Meaning(piece) = <<AsChar(piece.num)>>
  <2>1. piece.conv = LowerC =>
          Meaning(piece) = <<Congruent(piece.num)>>
    BY DEF Meaning, NUL, LowerC, LowerS, LowerD, LowerX, UpperX
  <2> QED BY <2>1, CharFacts
<1> QED
  BY <1>1 DEF Meaning, Conversions, NUL, LowerC, LowerS, LowerD, LowerX, UpperX

\* A piece that is written at once: the next is ready.
LEMMA WrittenAtOnce ==
  ASSUME job \in Jobs, job.call = "vsprintf", PrintOK, pc = "vsprintf",
         NEW q \in 0 .. Count - 1, Ready(q), Wrote(q),
         job' = job, pc' = "vsprintf", i' = i + Len(FormatOf(Piece(q))),
         arg' = IF Takes(Piece(q)) THEN arg + 1 ELSE arg,
         NEW text \in Seq(Int), Put(text), WellFormed => text = Meaning(Piece(q))
  PROVE  PrintOK'
<1>1. str' = str \o text /\ str' \in Seq(Int) /\ written' = Len(str')
  BY PutFacts DEF PrintOK
<1>2. Ready(q + 1)' /\ Wrote(q + 1)'
  BY <1>1, Advance, WriteNext
<1>3. Count' = Count /\ Count \in Nat
  BY PiecesFacts DEF Count
<1>4. \E x \in 0 .. Count' : Ready(x)' /\ Wrote(x)'
  <2>1. q + 1 \in 0 .. Count'
    BY <1>3
  <2> QED BY <1>2, <2>1
<1> QED BY <1>1, <1>4 DEF PrintOK, InNumber, InHex

\* The pieces that are written as they are read.
LEMMA PlainKeeps ==
  ASSUME job \in Jobs, job.call = "vsprintf", PrintOK,
         Literal \/ Char \/ String \/ HexZero \/ Other
  PROVE  PrintOK' /\ job' = job
<1>1. pc = "vsprintf" /\ job' = job
  BY DEF Literal, Char, String, HexZero, Other, Directive
<1>2. PICK q \in 0 .. Count : Ready(q) /\ Wrote(q)
  BY <1>1 DEF PrintOK
<1> DEFINE piece == Piece(q)
<1>3. q \in 0 .. Count - 1 => Sane(piece)
  <2>1. q \in 0 .. Count - 1 => q + 1 \in 1 .. Count
    BY PiecesFacts
  <2> QED BY <2>1, PiecesFacts DEF Piece
<1> USE DEF NUL, Percent, LowerC, LowerS, LowerD, LowerX, UpperX
<1>4. CASE Literal
  <2>1. /\ format[i] \notin {Percent, NUL} /\ Put(<<format[i]>>) /\ i' = i + 1
        /\ arg' = arg /\ pc' = "vsprintf"
    BY <1>1, <1>4 DEF Literal
  <2>2. /\ q \in 0 .. Count - 1 /\ piece.conv = NUL /\ piece.num = format[i]
        /\ Len(FormatOf(piece)) = 1 /\ ~Takes(piece)
    BY <1>2, <2>1, Parse
  <2> DEFINE text == <<format[i]>>
  <2>3. text \in Seq(Int) /\ text = Meaning(piece)
    <3>1. format[i] \in Int
      BY <1>3, <2>2 DEF Sane, Chars
    <3>2. Meaning(piece) = <<piece.num>>
      BY <2>2, MeaningFacts
    <3> QED BY <2>2, <3>1, <3>2
  <2>4. Put(text) /\ i' = i + Len(FormatOf(piece)) /\ arg' = IF Takes(piece) THEN arg + 1 ELSE arg
    BY <2>1, <2>2
  <2> HIDE DEF text, piece
  <2> QED BY <1>1, <1>2, <2>1, <2>2, <2>3, <2>4, WrittenAtOnce DEF piece
<1>5. CASE Char
  <2>1. /\ format[i] = Percent /\ format[i + 1] = LowerC /\ Put(<<AsChar(va_arg.num)>>)
        /\ i' = i + 2 /\ arg' = arg + 1 /\ pc' = "vsprintf"
    BY <1>1, <1>5 DEF Char, Directive, Consumed
  <2>2. /\ q \in 0 .. Count - 1 /\ piece.conv = LowerC
        /\ Len(FormatOf(piece)) = 2 /\ Takes(piece) /\ va_arg = piece
    BY <1>2, <2>1, Parse DEF Takes, Conversions
  <2> DEFINE text == <<AsChar(va_arg.num)>>
  <2>3. text \in Seq(Int) /\ text = Meaning(piece)
    <3>0. piece.num \in Int /\ va_arg.num = piece.num
      BY <1>3, <2>2 DEF Sane
    <3>1. AsChar(va_arg.num) \in Int
      BY <3>0, CharFacts
    <3>2. Meaning(piece) = <<AsChar(piece.num)>>
      BY <2>2, <3>0, MeaningFacts
    <3> QED BY <2>2, <3>1, <3>2
  <2>4. Put(text) /\ i' = i + Len(FormatOf(piece)) /\ arg' = IF Takes(piece) THEN arg + 1 ELSE arg
    BY <2>1, <2>2
  <2> HIDE DEF text, piece
  <2> QED BY <1>1, <1>2, <2>1, <2>2, <2>3, <2>4, WrittenAtOnce DEF piece
<1>6. CASE String
  <2> DEFINE text == IF va_arg.text = NULL THEN NullText ELSE va_arg.text
  <2>1. /\ format[i] = Percent /\ format[i + 1] = LowerS /\ Put(text)
        /\ i' = i + 2 /\ arg' = arg + 1 /\ pc' = "vsprintf"
    BY <1>1, <1>6 DEF String, Directive, Consumed
  <2>2. /\ q \in 0 .. Count - 1 /\ piece.conv = LowerS
        /\ Len(FormatOf(piece)) = 2 /\ Takes(piece) /\ va_arg = piece
    <3> HIDE DEF text
    <3> QED BY <1>2, <2>1, Parse DEF Takes, Conversions
  <2>3. text \in Seq(Int) /\ text = Meaning(piece)
    <3>1. NullText \in Seq(Int)
      BY DEF NullText
    <3>2. va_arg.text = NULL \/ va_arg.text \in Seq(Chars)
      BY <1>3, <2>2 DEF Sane, Texts
    <3>3. Chars \subseteq Int
      BY DEF Chars
    <3>4. va_arg.text = NULL \/ va_arg.text \in Seq(Int)
      BY <3>2, <3>3, SeqMonotonic
    <3>5. Meaning(piece) = IF piece.text = NULL THEN NullText ELSE piece.text
      BY <2>2, MeaningFacts
    <3> QED BY <2>2, <3>1, <3>4, <3>5
  <2> HIDE DEF text, piece
  <2>4. i' = i + Len(FormatOf(piece)) /\ arg' = IF Takes(piece) THEN arg + 1 ELSE arg
    BY <2>1, <2>2
  <2> QED BY <1>1, <1>2, <2>1, <2>2, <2>3, <2>4, WrittenAtOnce DEF piece
<1>7. CASE HexZero
  <2>1. PICK x \in {LowerX, UpperX} : Directive(x)
    BY <1>7 DEF HexZero
  <2>2. /\ format[i] = Percent /\ format[i + 1] = x /\ Put(<<48>>) /\ va_arg.num = 0
        /\ i' = i + 2 /\ arg' = arg + 1 /\ pc' = "vsprintf"
    BY <1>1, <1>7, <2>1 DEF HexZero, Directive, Consumed
  <2>3. /\ q \in 0 .. Count - 1 /\ piece.conv \in {LowerX, UpperX}
        /\ Len(FormatOf(piece)) = 2 /\ Takes(piece) /\ va_arg = piece
    BY <1>2, <2>2, Parse DEF Takes, Conversions
  <2> DEFINE text == <<48>>
  <2>4. text \in Seq(Int) /\ text = Meaning(piece)
    <3>1. Numeral(0, 16, 97) = <<48>> /\ Numeral(0, 16, 65) = <<48>>
      BY NumeralOfZero
    <3> QED BY <2>2, <2>3, <3>1, MeaningFacts
  <2>5. Put(text) /\ i' = i + Len(FormatOf(piece)) /\ arg' = IF Takes(piece) THEN arg + 1 ELSE arg
    BY <2>2, <2>3
  <2> HIDE DEF text, piece
  <2> QED BY <1>1, <1>2, <2>2, <2>3, <2>4, <2>5, WrittenAtOnce DEF piece
<1>8. CASE Other
  <2> DEFINE text == <<format[i + 1]>>
  <2>1. /\ format[i] = Percent /\ format[i + 1] \notin Conversions /\ Put(text)
        /\ i' = i + 2 /\ arg' = arg
        /\ pc' = IF format[i + 1] = NUL THEN "past" ELSE "vsprintf"
    BY <1>1, <1>8 DEF Other
  <2>2. CASE format[i + 1] = NUL
    <3>1. text \in Seq(Int)
      BY <2>2
    <3>2. str' \in Seq(Int) /\ written' = Len(str')
      <4> HIDE DEF text
      <4> QED BY <2>1, <3>1, PutFacts DEF PrintOK
    <3>3. pc' = "past"
      BY <2>1, <2>2
    <3> QED BY <1>1, <3>2, <3>3 DEF PrintOK, InNumber, InHex
  <2>3. CASE format[i + 1] # NUL
    <3>1. /\ q \in 0 .. Count - 1 /\ piece.conv = format[i + 1]
          /\ Len(FormatOf(piece)) = 2 /\ ~Takes(piece)
      <4> HIDE DEF text
      <4> QED BY <1>2, <2>1, <2>3, Parse DEF Takes
    <3>2. text \in Seq(Int) /\ text = Meaning(piece)
      <4>1. format[i + 1] \in Int
        BY <1>3, <3>1 DEF Sane, Chars
      <4>2. Meaning(piece) = <<piece.conv>>
        BY <2>3, <3>1, MeaningFacts DEF Takes
      <4> QED BY <3>1, <4>1, <4>2
    <3> HIDE DEF text, piece
    <3>3. i' = i + Len(FormatOf(piece)) /\ (arg' = IF Takes(piece) THEN arg + 1 ELSE arg)
          /\ pc' = "vsprintf"
      BY <2>1, <2>3, <3>1
    <3> QED BY <1>1, <1>2, <2>1, <3>1, <3>2, <3>3, WrittenAtOnce DEF piece
  <2> QED BY <1>1, <2>2, <2>3
<1> QED BY <1>1, <1>4, <1>5, <1>6, <1>7, <1>8

\* %d and %x start a conversion of the next piece.
LEMMA BeginKeeps ==
  ASSUME job \in Jobs, job.call = "vsprintf", PrintOK, Decimal \/ Hex
  PROVE  PrintOK' /\ job' = job
<1> USE DEF NUL, Percent, LowerC, LowerS, LowerD, LowerX, UpperX
<1>1. /\ pc = "vsprintf" /\ job' = job /\ str' = str /\ written' = written
      /\ format[i] = Percent /\ format[i + 1] \in {LowerD, LowerX, UpperX}
      /\ i' = i + 2 /\ arg' = arg + 1 /\ num' = va_arg.num /\ num_str' = <<>>
  BY DEF Decimal, Hex, HexAs, Directive, Converting, Consumed
<1>2. PICK q \in 0 .. Count : Ready(q) /\ Wrote(q)
  BY <1>1 DEF PrintOK
<1> DEFINE piece == Piece(q)
<1>3. /\ q \in 0 .. Count - 1 /\ piece.conv = format[i + 1]
      /\ Len(FormatOf(piece)) = 2 /\ Takes(piece) /\ va_arg = piece
  BY <1>1, <1>2, Parse DEF Takes, Conversions
<1>4. Ready(q + 1)'
  <2> HIDE DEF piece
  <2>1. i' = i + Len(FormatOf(piece)) /\ arg' = IF Takes(piece) THEN arg + 1 ELSE arg
    BY <1>1, <1>3
  <2> QED BY <1>1, <1>2, <1>3, <2>1, Advance DEF piece
<1>5. Wrote(q)' /\ Count' = Count
  BY <1>1, <1>2 DEF Wrote, WellFormed, Meanings, Count
<1>6. Sane(piece) /\ Count \in Nat
  <2>1. q + 1 \in 1 .. Count
    BY <1>3, PiecesFacts
  <2> QED BY <2>1, PiecesFacts DEF Piece
<1>7. str' \in Seq(Int) /\ written' = Len(str')
  BY <1>1 DEF PrintOK
<1>8. job'.pieces[q + 1] = piece
  BY <1>1 DEF Piece
<1>9. CASE Decimal
  <2>1. pc' = "itoa" /\ base' = 10 /\ format[i + 1] = LowerD
    BY <1>9 DEF Decimal, Directive, Converting
  <2>2. piece.num \in Ints /\ piece.conv = LowerD
    BY <1>3, <1>6, <2>1 DEF Sane
  <2>3. \A n : n = piece.num => NumberOK(n, 10)'
    BY <1>1, <1>3, <2>1 DEF NumberOK, Entered
  <2>4. NumberAt(q)'
    <3> HIDE DEF piece
    <3> QED BY <1>4, <1>5, <1>8, <2>2, <2>3 DEF NumberAt
  <2>5. \E x \in 0 .. Count' - 1 : NumberAt(x)'
    BY <1>3, <1>5, <2>4
  <2> QED BY <1>1, <1>7, <2>1, <2>5 DEF PrintOK, InNumber, InHex
<1>10. CASE Hex
  <2>1. /\ pc' = IF format[i + 1] = LowerX THEN "hex" ELSE "HEX"
        /\ format[i + 1] \in {LowerX, UpperX} /\ va_arg.num # 0
    BY <1>10 DEF Hex, HexAs, Directive, Converting
  <2>2. piece.num \in Words /\ piece.conv = IF pc' = "hex" THEN LowerX ELSE UpperX
    BY <1>3, <1>6, <2>1 DEF Sane
  <2>3. ASSUME NEW n \in Words, n = piece.num PROVE HexOK(n)'
    <3>1. n \in Nat /\ num' = n /\ n # 0
      BY <1>1, <1>3, <2>1, <2>3, NumberFacts
    <3>2. Counted(n, 16, num', num_str')
      <4>1. Len(num_str') = 0 /\ num_str' \in Seq(Int) /\ n \div 1 = n
        BY <1>1, <3>1
      <4>2. 16 \in Nat /\ 16 >= 2
        OBVIOUS
      <4>3. Power(16, 0) = 1
        BY <4>2, PowerFacts
      <4> QED BY <3>1, <4>1, <4>3 DEF Counted
    <3>3. \A letter : Spelled(n, 16, letter, num_str')
      BY <1>1 DEF Spelled
    <3> QED BY <3>1, <3>2, <3>3 DEF HexOK
  <2>4. HexAt(q)'
    <3> HIDE DEF piece
    <3> QED BY <1>4, <1>5, <1>8, <2>2, <2>3 DEF HexAt
  <2>5. \E x \in 0 .. Count' - 1 : HexAt(x)'
    BY <1>3, <1>5, <2>4
  <2> QED BY <1>1, <1>7, <2>1, <2>5 DEF PrintOK, InNumber, InHex
<1> QED BY <1>1, <1>9, <1>10

\* The digits of a %d, and its copy.
LEMMA NumberKeeps ==
  ASSUME job \in Jobs, job.call = "vsprintf", PrintOK, InNumber, Converts
  PROVE  PrintOK' /\ job' = job
<1>1. PICK q \in 0 .. Count - 1 : NumberAt(q)
  BY DEF PrintOK
<1>2. PICK n \in Ints : n = job.pieces[q + 1].num /\ NumberOK(n, 10)
  BY <1>1 DEF NumberAt
<1>3. n \in Ints \cup Words /\ 10 \in 2 .. 36
  OBVIOUS
<1>4. /\ NumberOK(n, 10)' /\ UNCHANGED <<job, textVars>>
      /\ pc' \in {"digits", "reverse", "copy"}
  BY <1>2, <1>3, ConvertsKeeps
<1>5. UNCHANGED <<job, i, arg, str, written>>
  BY <1>4 DEF textVars
<1>6. Ready(q + 1)' /\ Wrote(q)' /\ Count' = Count
  BY <1>1, <1>5 DEF NumberAt, Ready, Wrote, WellFormed, Formats, Taken, Meanings, Count
<1>7. NumberAt(q)'
  BY <1>1, <1>2, <1>4, <1>5, <1>6 DEF NumberAt
<1>8. \E x \in 0 .. Count' - 1 : NumberAt(x)'
  BY <1>6, <1>7
<1>9. str' \in Seq(Int) /\ written' = Len(str')
  BY <1>5 DEF PrintOK
<1> QED BY <1>4, <1>5, <1>8, <1>9 DEF PrintOK, InNumber, InHex

\* A copy finishes a piece.
LEMMA CopyKeeps ==
  ASSUME job \in Jobs, job.call = "vsprintf", PrintOK,
         NEW q \in 0 .. Count - 1, Ready(q + 1), Wrote(q),
         job' = job, pc' = "vsprintf", i' = i, arg' = arg,
         NEW text \in Seq(Int), Put(text), WellFormed => text = Meaning(Piece(q))
  PROVE  PrintOK'
<1>1. str' = str \o text /\ str' \in Seq(Int) /\ written' = Len(str')
  BY PutFacts DEF PrintOK
<1>2. Wrote(q + 1)'
  BY <1>1, WriteNext
<1>3. Ready(q + 1)' /\ Count' = Count /\ Count \in Nat
  BY PiecesFacts DEF Ready, Formats, Taken, Count
<1>4. \E x \in 0 .. Count' : Ready(x)' /\ Wrote(x)'
  <2>1. q + 1 \in 0 .. Count'
    BY <1>3
  <2> QED BY <1>2, <1>3, <2>1
<1> QED BY <1>1, <1>4 DEF PrintOK, InNumber, InHex

LEMMA CopyDecimalKeeps ==
  ASSUME job \in Jobs, job.call = "vsprintf", PrintOK, CopyDecimal
  PROVE  PrintOK' /\ job' = job
<1>1. /\ pc = "copy" /\ Put(num_str) /\ pc' = "vsprintf"
      /\ job' = job /\ i' = i /\ arg' = arg
  BY DEF CopyDecimal
<1>2. PICK q \in 0 .. Count - 1 : NumberAt(q)
  BY <1>1 DEF PrintOK, InNumber
<1>3. PICK n \in Ints : n = job.pieces[q + 1].num /\ NumberOK(n, 10)
  BY <1>2 DEF NumberAt
<1>4. num_str \in Seq(Int) /\ (Convertible(n, 10) => num_str = Signed(n))
  BY <1>1, <1>3 DEF NumberOK, Converted, Spelling
<1>5. WellFormed => num_str = Meaning(Piece(q))
  <2>1. q + 1 \in DOMAIN job.pieces
    BY PiecesFacts
  <2>2. Piece(q).conv = LowerD /\ Piece(q).num = n
    BY <1>2, <1>3 DEF NumberAt, Piece
  <2>3. WellFormed => Convertible(n, 10)
    BY <2>1, <2>2 DEF WellFormed, Piece
  <2>4. Meaning(Piece(q)) = Signed(n)
    BY <2>2, MeaningFacts
  <2> QED BY <1>4, <2>3, <2>4
<1>6. Ready(q + 1) /\ Wrote(q)
  BY <1>2 DEF NumberAt
<1> QED BY <1>1, <1>4, <1>5, <1>6, CopyKeeps

\* The digits of a %x or %X, and their copy.
LEMMA HexKeeps ==
  ASSUME job \in Jobs, job.call = "vsprintf", PrintOK, HexDigit
  PROVE  PrintOK' /\ job' = job
<1>1. pc \in {"hex", "HEX"}
  BY DEF HexDigit
<1>2. PICK q \in 0 .. Count - 1 : HexAt(q)
  BY <1>1 DEF PrintOK, InHex
<1>3. PICK n \in Words : n = job.pieces[q + 1].num /\ HexOK(n)
  BY <1>2 DEF HexAt
<1>4. HexOK(n)' /\ UNCHANGED <<job, pc, textVars>>
  BY <1>3, HexDigitKeeps
<1>5. UNCHANGED <<job, pc, i, arg, str, written>>
  BY <1>4 DEF textVars
<1>6. Ready(q + 1)' /\ Wrote(q)' /\ Count' = Count
  BY <1>2, <1>5 DEF HexAt, Ready, Wrote, WellFormed, Formats, Taken, Meanings, Count
<1>7. HexAt(q)'
  BY <1>2, <1>3, <1>4, <1>5, <1>6 DEF HexAt
<1>8. \E x \in 0 .. Count' - 1 : HexAt(x)'
  BY <1>6, <1>7
<1>9. str' \in Seq(Int) /\ written' = Len(str')
  BY <1>5 DEF PrintOK
<1> QED BY <1>1, <1>5, <1>8, <1>9 DEF PrintOK, InNumber, InHex

LEMMA CopyHexKeeps ==
  ASSUME job \in Jobs, job.call = "vsprintf", PrintOK, CopyHex
  PROVE  PrintOK' /\ job' = job
<1>1. /\ pc \in {"hex", "HEX"} /\ num = 0 /\ Put(Reverse(num_str)) /\ pc' = "vsprintf"
      /\ job' = job /\ i' = i /\ arg' = arg
  BY DEF CopyHex
<1>2. PICK q \in 0 .. Count - 1 : HexAt(q)
  BY <1>1 DEF PrintOK, InHex
<1>3. PICK n \in Words : n = job.pieces[q + 1].num /\ HexOK(n)
  BY <1>2 DEF HexAt
<1> DEFINE letter == IF pc = "HEX" THEN 65 ELSE 97
<1>4. n # 0 /\ Counted(n, 16, 0, num_str) /\ Spelled(n, 16, letter, num_str)
  BY <1>1, <1>3 DEF HexOK
<1>5. Numeral(n, 16, letter) = Reverse(num_str)
  <2>1. n \in Nat /\ Narrow(n)
    <3>1. n \in Nat /\ Narrow(AbsOf(n))
      BY NumberFacts
    <3> QED BY <3>1 DEF AbsOf
  <2>2. 16 \in Nat /\ 16 >= 2 /\ letter \in Nat
    OBVIOUS
  <2> HIDE DEF letter
  <2> QED BY <1>4, <2>1, <2>2, NumeralOf
<1>6. Reverse(num_str) \in Seq(Int)
  <2>1. num_str \in Seq(Int)
    BY <1>4 DEF Counted
  <2>2. Len(num_str) \in Nat
    BY <2>1
  <2>3. ASSUME NEW k \in 1 .. Len(num_str) PROVE num_str[(Len(num_str) - k) + 1] \in Int
    BY <2>1, <2>2
  <2> QED BY <2>2, <2>3 DEF Reverse
<1>7. Meaning(Piece(q)) = Reverse(num_str)
  <2>1. Piece(q).conv = (IF pc = "hex" THEN LowerX ELSE UpperX) /\ Piece(q).num = n
    BY <1>2, <1>3 DEF HexAt, Piece
  <2>2. CASE pc = "hex"
    <3>1. Piece(q).conv = LowerX /\ letter = 97
      BY <2>1, <2>2
    <3> QED BY <1>5, <2>1, <3>1, MeaningFacts
  <2>3. CASE pc = "HEX"
    <3>1. Piece(q).conv = UpperX /\ letter = 65
      BY <2>1, <2>3
    <3> QED BY <1>5, <2>1, <3>1, MeaningFacts
  <2> QED BY <1>1, <2>2, <2>3
<1>8. Ready(q + 1) /\ Wrote(q)
  BY <1>2 DEF HexAt
<1> DEFINE text == Reverse(num_str)
<1>9. text \in Seq(Int) /\ Put(text) /\ (WellFormed => text = Meaning(Piece(q)))
  BY <1>1, <1>6, <1>7
<1> HIDE DEF text, letter
<1> QED BY <1>1, <1>8, <1>9, CopyKeeps

\* At the terminator every piece has been read.
LEMMA EndKeeps ==
  ASSUME job \in Jobs, job.call = "vsprintf", PrintOK, End
  PROVE  PrintOK' /\ job' = job
<1>1. /\ pc = "vsprintf" /\ format[i] = NUL /\ pc' = "done"
      /\ UNCHANGED <<job, i, arg, str, written>>
  BY DEF End, textVars
<1>2. PICK q \in 0 .. Count : Ready(q) /\ Wrote(q)
  BY <1>1 DEF PrintOK
<1>3. q = Count
  BY <1>1, <1>2, Parse
<1>4. Wrote(Count)'
  BY <1>1, <1>2, <1>3 DEF Wrote, WellFormed, Meanings, Count
<1> QED BY <1>1, <1>4 DEF PrintOK, InNumber, InHex

LEMMA PrintKeeps ==
  ASSUME job \in Jobs, job.call = "vsprintf", PrintOK, Next
  PROVE  PrintOK' /\ job' = job
<1>1. CASE Converts
  <2>1. pc \in {"itoa", "ulltoa", "digits", "reverse"}
    BY <1>1 DEF Converts, Zero, Sign, AddDigit, AddMinus, ReverseStep
  <2>2. InNumber
    BY <2>1 DEF PrintOK, InNumber, InHex
  <2> QED BY <1>1, <2>2, NumberKeeps
<1>2. CASE Literal \/ Char \/ String \/ HexZero \/ Other
  BY <1>2, PlainKeeps
<1>3. CASE Decimal \/ Hex
  BY <1>3, BeginKeeps
<1>4. CASE CopyDecimal
  BY <1>4, CopyDecimalKeeps
<1>5. CASE HexDigit
  BY <1>5, HexKeeps
<1>6. CASE CopyHex
  BY <1>6, CopyHexKeeps
<1>7. CASE End
  BY <1>7, EndKeeps
<1>8. CASE Returned
  <2>1. pc' = pc /\ pc \in {"done", "past"} /\ UNCHANGED <<job, str, written>>
    BY <1>8 DEF Returned, vars, textVars
  <2>2. Wrote(Count)' = Wrote(Count)
    BY <2>1 DEF Wrote, WellFormed, Meanings, Count
  <2> QED BY <2>1, <2>2 DEF PrintOK, InNumber, InHex
<1> QED BY <1>1, <1>2, <1>3, <1>4, <1>5, <1>6, <1>7, <1>8 DEF Next, Converts

-----------------------------------------------------------------------------
(* itoa and ulltoa called by themselves.                                   *)

LEMMA AloneKeeps ==
  ASSUME job \in Jobs, job.call # "vsprintf", AloneOK, Next
  PROVE  AloneOK' /\ job' = job
<1>1. /\ pc \in {"itoa", "ulltoa", "digits", "reverse", "done"}
      /\ pc \in {"itoa", "ulltoa"} => pc = job.call
  BY DEF AloneOK
<1>2. PICK n \in Ints \cup Words, b \in 2 .. 36 :
        n = job.num /\ b = job.base /\ NumberOK(n, b)
  BY DEF AloneOK
<1>3. Converts \/ Returned
  BY <1>1 DEF Next, Converts, Literal, Char, String, Decimal, CopyDecimal, HexZero, Hex, HexAs,
              HexDigit, CopyHex, Other, End, Directive
<1>4. CASE Converts
  <2>1. pc = "itoa" => n \in Ints
    BY <1>1, <1>2, JobsAssumption
  <2>2. /\ NumberOK(n, b)' /\ UNCHANGED <<job, textVars>>
        /\ pc' \in {"digits", "reverse", "done"}
    BY <1>2, <1>4, <2>1, ConvertsKeeps
  <2> QED BY <1>2, <2>2 DEF AloneOK
<1>5. CASE Returned
  <2>1. UNCHANGED <<job, pc, num, base, is_negative, num_str, start>> /\ pc = "done"
    BY <1>1, <1>5 DEF Returned, vars, numVars
  <2>2. NumberOK(n, b)'
    BY <1>2, <2>1 DEF NumberOK, Converted, Fits
  <2> QED BY <1>2, <2>1, <2>2 DEF AloneOK
<1> QED BY <1>3, <1>4, <1>5

-----------------------------------------------------------------------------
(* The theorems.                                                           *)

LEMMA InitFInv ==
  ASSUME Init
  PROVE  FInv
<1>1. /\ job \in Jobs /\ pc = job.call /\ i = 1 /\ arg = 1 /\ str = <<>> /\ written = 0
      /\ num = job.num /\ base = job.base /\ num_str = <<>>
  BY DEF Init
<1>2. CASE job.call = "vsprintf"
  <2>1. /\ Count \in Nat
        /\ Formats(job.pieces) = [k \in 1 .. Count |-> Formats(job.pieces)[k]]
        /\ Taken(job.pieces) = [k \in 1 .. Count |-> Taken(job.pieces)[k]]
        /\ Meanings(job.pieces) = [k \in 1 .. Count |-> Meanings(job.pieces)[k]]
    BY <1>1, <1>2, PiecesFacts
  <2>2. /\ Joined(Formats(job.pieces), 0) = <<>>
        /\ Joined(Taken(job.pieces), 0) = <<>>
        /\ Joined(Meanings(job.pieces), 0) = <<>>
    BY DEF Joined
  <2>3. Ready(0) /\ Wrote(0)
    BY <1>1, <2>2 DEF Ready, Wrote
  <2>4. \E q \in 0 .. Count : Ready(q) /\ Wrote(q)
    BY <2>1, <2>3
  <2> QED BY <1>1, <1>2, <2>4 DEF FInv, PrintOK, InNumber, InHex
<1>3. CASE job.call # "vsprintf"
  <2>1. /\ job.call \in {"itoa", "ulltoa"} /\ job.num \in Ints \cup Words
        /\ job.base \in 2 .. 36 /\ (job.call = "ulltoa" => job.num \in Words)
    BY <1>1, <1>3, JobsAssumption
  <2>2. \A n, b : n = job.num /\ b = job.base => NumberOK(n, b)
    BY <1>1, <2>1 DEF NumberOK, Entered
  <2> QED BY <1>1, <1>3, <2>1, <2>2 DEF FInv, AloneOK
<1> QED BY <1>2, <1>3

\* The inductive invariant: vsprintf stands behind a number of pieces and has
\* written what they mean, and a conversion under way has the digits it has
\* divided off so far, in the order it stored them.
THEOREM FormatInductive == Spec => []FInv
<1>1. Init => FInv
  BY InitFInv
<1>2. FInv /\ [Next]_vars => FInv'
  <2> SUFFICES ASSUME FInv, [Next]_vars PROVE FInv'
    OBVIOUS
  <2>1. CASE Next
    <3>1. job \in Jobs
      BY DEF FInv
    <3>2. CASE job.call = "vsprintf"
      <4>1. PrintOK' /\ job' = job
        BY <2>1, <3>1, <3>2, PrintKeeps DEF FInv
      <4> QED BY <3>1, <3>2, <4>1 DEF FInv
    <3>3. CASE job.call # "vsprintf"
      <4>1. AloneOK' /\ job' = job
        BY <2>1, <3>1, <3>3, AloneKeeps DEF FInv
      <4> QED BY <3>1, <3>3, <4>1 DEF FInv
    <3> QED BY <3>2, <3>3
  <2>2. CASE UNCHANGED vars
    <3>1. UNCHANGED <<job, pc, i, arg, str, written, num, base, is_negative, num_str, start>>
      BY <2>2 DEF vars, textVars, numVars
    <3>2. /\ \A q : Ready(q) <=> Ready(q)'
          /\ \A q : Wrote(q) <=> Wrote(q)'
          /\ Count' = Count
      BY <3>1 DEF Ready, Wrote, WellFormed, Formats, Taken, Meanings, Count
    <3>3. ASSUME NEW n, NEW b, NumberOK(n, b) PROVE NumberOK(n, b)'
      BY <3>1, <3>3, Zenon DEF NumberOK, Entered, Dividing, Reversing, Converted, Swapped, Fits
    <3>4. ASSUME NEW n, HexOK(n) PROVE HexOK(n)'
      BY <3>1, <3>4, Zenon DEF HexOK
    <3>5. ASSUME NEW q, NumberAt(q) PROVE NumberAt(q)'
      BY <3>1, <3>2, <3>3, <3>5 DEF NumberAt
    <3>6. ASSUME NEW q, HexAt(q) PROVE HexAt(q)'
      BY <3>1, <3>2, <3>4, <3>6 DEF HexAt
    <3>7. AloneOK => AloneOK'
      BY <3>1, <3>3 DEF AloneOK
    <3>8. PrintOK => PrintOK'
      BY <3>1, <3>2, <3>5, <3>6 DEF PrintOK, InNumber, InHex
    <3> QED BY <3>1, <3>7, <3>8 DEF FInv
  <2> QED BY <2>1, <2>2
<1> QED BY <1>1, <1>2, PTL DEF Spec

\* What vsprintf writes is what its format and its arguments mean, and it
\* counts it exactly; itoa and ulltoa write the numeral (string.c:21-175).
\* The numbers itoa cannot negate or is not meant for are excepted.
THEOREM TextIsRight == Spec => []TextRight
<1>1. FInv => TextRight
  <2> SUFFICES ASSUME FInv, pc = "done", WellFormed
               PROVE  IF job.call = "vsprintf"
                      THEN str = FlattenSeq(Meanings(job.pieces)) /\ written = Len(str)
                      ELSE num_str = Spelling(job.num, job.base)
    BY DEF TextRight, Spelling
  <2>1. CASE job.call = "vsprintf"
    <3>1. job \in Jobs /\ PrintOK
      BY <2>1 DEF FInv
    <3>2. str = Joined(Meanings(job.pieces), Count) /\ written = Len(str)
      BY <3>1 DEF PrintOK, Wrote
    <3> DEFINE M == Meanings(job.pieces)
               n == Count
    <3>3. n \in Nat /\ M = [k \in 1 .. n |-> M[k]]
      BY <2>1, <3>1, PiecesFacts
    <3>4. FlattenSeq(M) = Joined(M, n)
      <4> HIDE DEF M, n
      <4> QED BY <3>3, JoinAll
    <3> QED BY <2>1, <3>2, <3>4
  <2>2. CASE job.call # "vsprintf"
    <3>1. AloneOK
      BY <2>2 DEF FInv
    <3>2. Convertible(job.num, job.base)
      BY <2>2 DEF WellFormed
    <3> QED BY <2>2, <3>1, <3>2 DEF AloneOK, NumberOK, Converted
  <2> QED BY <2>1, <2>2
<1> QED BY <1>1, FormatInductive, PTL

\* The two arrays a conversion of vsprintf stores its digits in are large
\* enough, the minus sign and the terminator included (string.c:119, 130).
THEOREM StringsFit == Spec => []NumStrFits
<1>1. FInv => NumStrFits
  <2> SUFFICES ASSUME FInv, job.call = "vsprintf"
               PROVE  /\ InNumber => Len(num_str) + 1 <= DecRoom
                      /\ InHex => Len(num_str) <= HexRoom
    BY DEF NumStrFits, InNumber, InHex
  <2>1. PrintOK
    BY DEF FInv
  <2>2. ASSUME InNumber PROVE Len(num_str) + 1 <= DecRoom
    <3>1. PICK n \in Ints : NumberOK(n, 10)
      BY <2>1, <2>2 DEF PrintOK, NumberAt
    <3>2. CASE pc = "itoa"
      <4>1. Len(num_str) = 0
        BY <3>1, <3>2 DEF NumberOK, Entered
      <4> QED BY <4>1, WidthAssumption
    <3>3. CASE pc = "digits"
      <4>1. Counted(AbsOf(n), 10, AbsOf(num), num_str)
        BY <3>1, <3>3 DEF NumberOK, Dividing
      <4>2. /\ AbsOf(n) \in Nat /\ AbsOf(n) < Power(10, DecRoom - 2)
            /\ DecRoom - 2 \in Nat /\ 10 \in Nat /\ 10 >= 2
        BY NumberFacts, WidthAssumption
      <4>3. Len(num_str) \in Nat /\ Len(num_str) <= DecRoom - 2
        BY <4>1, <4>2, FewDigits
      <4> QED BY <4>2, <4>3, WidthAssumption
    <3>4. CASE pc = "reverse" \/ pc = "copy"
      <4>1. Fits
        BY <3>1, <3>4 DEF NumberOK, Reversing, Converted
      <4> QED BY <4>1 DEF Fits
    <3> QED BY <2>2, <3>2, <3>3, <3>4 DEF InNumber
  <2>3. ASSUME InHex PROVE Len(num_str) <= HexRoom
    <3>1. PICK n \in Words : HexOK(n)
      BY <2>1, <2>3 DEF PrintOK, HexAt
    <3>2. Counted(n, 16, num, num_str)
      BY <3>1 DEF HexOK
    <3>3. /\ n \in Nat /\ n < Power(16, HexRoom)
          /\ HexRoom \in Nat /\ 16 \in Nat /\ 16 >= 2
      BY NumberFacts, WidthAssumption
    <3> QED BY <3>2, <3>3, FewDigits
  <2> QED BY <2>2, <2>3
<1> QED BY <1>1, FormatInductive, PTL
=============================================================================
