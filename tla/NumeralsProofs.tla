--------------------------- MODULE NumeralsProofs ---------------------------
(***************************************************************************)
(* What a set of natural numbers is as a number: the number whose bits it  *)
(* is.  The library's induction takes an operator, which the provers       *)
(* cannot instantiate, so induction and recursion are proved first, from   *)
(* the least element of a set.                                             *)
(***************************************************************************)
EXTENDS Numerals, WellFoundedInduction, TLAPS

\* A set of natural numbers has a least one.
LEMMA LeastOf ==
  ASSUME NEW B \in SUBSET Nat, B # {}
  PROVE  \E m \in B : \A n \in Nat : n < m => n \notin B
<1>1. PICK m \in B : \A n \in B : <<n, m>> \notin OpToRel(<, Nat)
  BY NatLessThanWellFounded, WFMin
<1>2. \A n \in B : ~(n < m)
  BY <1>1 DEF OpToRel
<1> QED
  BY <1>2

\* Induction, on the set of the numbers a statement is true of.
LEMMA Induction ==
  ASSUME NEW G, 0 \in G, \A n \in Nat : n \in G => n + 1 \in G
  PROVE  \A n \in Nat : n \in G
<1> DEFINE B == Nat \ G
<1>1. SUFFICES ASSUME B # {} PROVE FALSE
  OBVIOUS
<1>2. PICK m \in B : \A n \in Nat : n < m => n \notin B
  BY <1>1, LeastOf
<1>3. m \in Nat \ {0}
  OBVIOUS
<1>4. m - 1 \in Nat /\ m - 1 \in G
  BY <1>2, <1>3
<1>5. (m - 1) + 1 \in G
  BY <1>4
<1> QED
  BY <1>3, <1>5

\* A function on the numbers may be defined from each value to the next.
LEMMA Recursion ==
  ASSUME NEW a \in Nat, NEW step \in [Nat \X Nat -> Nat]
  PROVE  \E s \in [Nat -> Nat] :
           s[0] = a /\ \A n \in Nat : s[n + 1] = step[<<n, s[n]>>]
<1> DEFINE Good(g, n) == /\ g \in [0 .. n -> Nat]
                         /\ g[0] = a
                         /\ \A k \in 1 .. n : g[k] = step[<<k - 1, g[k - 1]>>]
<1>1. \A n \in Nat : \E g : Good(g, n)
  <2> DEFINE G == {n \in Nat : \E g : Good(g, n)}
  <2>1. 0 \in G
    <3>1. Good([k \in 0 .. 0 |-> a], 0)
      OBVIOUS
    <3> QED
      BY <3>1
  <2>2. ASSUME NEW n \in Nat, n \in G PROVE n + 1 \in G
    <3>1. PICK g : Good(g, n)
      BY <2>2
    <3> DEFINE h == [k \in 0 .. n + 1 |->
                       IF k = n + 1 THEN step[<<n, g[n]>>] ELSE g[k]]
    <3>2. g[n] \in Nat /\ step[<<n, g[n]>>] \in Nat
      BY <3>1
    <3>3. h \in [0 .. n + 1 -> Nat]
      BY <3>1, <3>2
    <3>4. h[0] = a
      BY <3>1
    <3>5. ASSUME NEW k \in 1 .. n + 1
          PROVE  h[k] = step[<<k - 1, h[k - 1]>>]
      <4>1. CASE k = n + 1
        <5>1. k - 1 = n /\ n \in 0 .. n + 1 /\ n # n + 1 /\ k \in 0 .. n + 1
          BY <4>1
        <5>2. h[k] = step[<<n, g[n]>>] /\ h[n] = g[n]
          BY <4>1, <5>1
        <5> QED
          BY <5>1, <5>2
      <4>2. CASE k # n + 1
        BY <3>1, <4>2
      <4> QED
        BY <4>1, <4>2
    <3>6. Good(h, n + 1)
      BY <3>3, <3>4, <3>5
    <3> HIDE DEF h, Good
    <3> QED
      BY <3>6
  <2> HIDE DEF G
  <2>3. \A n \in Nat : n \in G
    BY <2>1, <2>2, Induction
  <2> QED
    BY <2>3 DEF G
<1>2. ASSUME NEW m \in Nat, NEW n \in Nat, NEW g, NEW h,
             Good(g, m), Good(h, n)
      PROVE  \A k \in Nat : k <= m /\ k <= n => g[k] = h[k]
  <2> DEFINE G == {k \in Nat : k <= m /\ k <= n => g[k] = h[k]}
  <2>1. 0 \in G
    BY <1>2
  <2>2. ASSUME NEW k \in Nat, k \in G PROVE k + 1 \in G
    <3>1. SUFFICES ASSUME k + 1 <= m, k + 1 <= n PROVE g[k + 1] = h[k + 1]
      OBVIOUS
    <3>2. g[k] = h[k]
      BY <2>2, <3>1
    <3>3. k + 1 \in 1 .. m /\ k + 1 \in 1 .. n /\ (k + 1) - 1 = k
      BY <3>1
    <3> QED
      BY <1>2, <3>2, <3>3
  <2> HIDE DEF G
  <2>3. \A k \in Nat : k \in G
    BY <2>1, <2>2, Induction
  <2> QED
    BY <2>3 DEF G
<1> DEFINE pick(n) == CHOOSE g : Good(g, n)
           s == [n \in Nat |-> pick(n)[n]]
<1>3. \A n \in Nat : Good(pick(n), n)
  BY <1>1
<1> HIDE DEF pick
<1>4. s \in [Nat -> Nat]
  BY <1>3
<1>5. s[0] = a
  BY <1>3
<1>6. ASSUME NEW n \in Nat PROVE s[n + 1] = step[<<n, s[n]>>]
  <2>1. n + 1 \in Nat /\ n + 1 \in 1 .. n + 1 /\ (n + 1) - 1 = n
    OBVIOUS
  <2>2. pick(n)[n] = pick(n + 1)[n]
    <3>1. Good(pick(n), n) /\ Good(pick(n + 1), n + 1)
      BY <1>3, <2>1
    <3>2. n <= n /\ n <= n + 1
      OBVIOUS
    <3> HIDE DEF Good
    <3> QED
      BY <1>2, <2>1, <3>1, <3>2
  <2>3. pick(n + 1)[n + 1] = step[<<n, pick(n + 1)[n]>>]
    BY <1>3, <2>1
  <2> QED
    BY <2>1, <2>2, <2>3
<1> HIDE DEF s
<1> QED
  BY <1>4, <1>5, <1>6

\* The powers of two exist, and are what they are defined to be.
LEMMA Pow2Is ==
  /\ Pow2 \in [Nat -> Nat]
  /\ Pow2[0] = 1
  /\ \A n \in Nat : Pow2[n + 1] = 2 * Pow2[n]
<1> DEFINE Doubles(g) == g = [n \in Nat |-> IF n = 0 THEN 1
                                             ELSE 2 * g[n - 1]]
           step == [p \in Nat \X Nat |-> 2 * p[2]]
<1>1. \E g : Doubles(g)
  <2>1. step \in [Nat \X Nat -> Nat]
    OBVIOUS
  <2>2. PICK s \in [Nat -> Nat] :
          s[0] = 1 /\ \A n \in Nat : s[n + 1] = step[<<n, s[n]>>]
    <3> HIDE DEF step
    <3>1. 1 \in Nat
      OBVIOUS
    <3> QED
      BY <2>1, <3>1, Recursion
  <2>3. \A n \in Nat : s[n] = IF n = 0 THEN 1 ELSE 2 * s[n - 1]
    <3>1. \A n \in Nat : s[n + 1] = 2 * s[n]
      BY <2>2
    <3>2. ASSUME NEW n \in Nat, n # 0 PROVE s[n] = 2 * s[n - 1]
      <4>1. n - 1 \in Nat /\ (n - 1) + 1 = n
        BY <3>2
      <4> QED
        BY <3>1, <4>1
    <3> QED
      BY <2>2, <3>2
  <2>4. Doubles(s)
    BY <2>2, <2>3
  <2> QED
    BY <2>4
<1>2. Pow2 = CHOOSE g : Doubles(g)
  BY DEF Pow2
<1>3. Doubles(Pow2)
  BY <1>1, <1>2
<1>4. Pow2[0] = 1 /\ \A n \in Nat : Pow2[n + 1] = 2 * Pow2[n]
  <2>1. \A n \in Nat : Pow2[n] = IF n = 0 THEN 1 ELSE 2 * Pow2[n - 1]
    BY <1>3
  <2>2. \A n \in Nat : n + 1 \in Nat /\ n + 1 # 0 /\ (n + 1) - 1 = n
    OBVIOUS
  <2> QED
    BY <2>1, <2>2
<1>5. \A n \in Nat : Pow2[n] \in Nat
  <2> DEFINE G == {n \in Nat : Pow2[n] \in Nat}
  <2>1. 0 \in G /\ \A n \in Nat : n \in G => n + 1 \in G
    BY <1>4
  <2> HIDE DEF G
  <2>2. \A n \in Nat : n \in G
    BY <2>1, Induction
  <2> QED
    BY <2>2 DEF G
<1> QED
  BY <1>3, <1>4, <1>5

\* None of them is 0.
LEMMA Pow2Type == \A n \in Nat : Pow2[n] \in Nat \ {0}
<1> DEFINE G == {n \in Nat : Pow2[n] \in Nat \ {0}}
<1>1. 0 \in G /\ \A n \in Nat : n \in G => n + 1 \in G
  BY Pow2Is
<1> HIDE DEF G
<1>2. \A n \in Nat : n \in G
  BY <1>1, Induction
<1> QED
  BY <1>2 DEF G

\* Exponents add.
LEMMA Pow2Plus ==
  ASSUME NEW m \in Nat
  PROVE  \A n \in Nat : Pow2[m + n] = Pow2[m] * Pow2[n]
<1> DEFINE G == {n \in Nat : Pow2[m + n] = Pow2[m] * Pow2[n]}
<1>1. 0 \in G
  BY Pow2Is, Pow2Type
<1>2. ASSUME NEW n \in Nat, n \in G PROVE n + 1 \in G
  <2>1. Pow2[m + (n + 1)] = 2 * Pow2[m + n]
    <3>1. m + (n + 1) = (m + n) + 1 /\ m + n \in Nat
      OBVIOUS
    <3> QED
      BY <3>1, Pow2Is
  <2>2. Pow2[m] * Pow2[n + 1] = 2 * (Pow2[m] * Pow2[n])
    <3>1. Pow2[n + 1] = 2 * Pow2[n] /\ Pow2[m] \in Nat /\ Pow2[n] \in Nat
      BY Pow2Is
    <3> QED
      BY <3>1
  <2> QED
    BY <1>2, <2>1, <2>2
<1> HIDE DEF G
<1>3. \A n \in Nat : n \in G
  BY <1>1, <1>2, Induction
<1> QED
  BY <1>3 DEF G

\* A number in binary, place by place.
LEMMA NumberIs ==
  ASSUME NEW x
  PROVE  /\ NumberOf(x, 0) = 0
         /\ \A n \in Nat :
              /\ NumberOf(x, n) \in Nat
              /\ NumberOf(x, n + 1) = NumberOf(x, n) +
                                        (IF n \in x THEN Pow2[n] ELSE 0)
<1> DEFINE term(k) == IF k \in x THEN Pow2[k] ELSE 0
           Adds(g) == g = [k \in Nat |-> IF k = 0 THEN 0
                                          ELSE g[k - 1] + term(k - 1)]
           step == [p \in Nat \X Nat |-> p[2] + term(p[1])]
           g == CHOOSE g : Adds(g)
<1>1. \A k \in Nat : term(k) \in Nat
  BY Pow2Is
<1>2. \E h : Adds(h) /\ h \in [Nat -> Nat]
  <2>1. step \in [Nat \X Nat -> Nat]
    BY <1>1
  <2>2. PICK s \in [Nat -> Nat] :
          s[0] = 0 /\ \A n \in Nat : s[n + 1] = step[<<n, s[n]>>]
    <3> HIDE DEF step
    <3>1. 0 \in Nat
      OBVIOUS
    <3> QED
      BY <2>1, <3>1, Recursion
  <2>3. \A n \in Nat : s[n] = IF n = 0 THEN 0 ELSE s[n - 1] + term(n - 1)
    <3>1. \A n \in Nat : s[n + 1] = s[n] + term(n)
      BY <2>2
    <3> HIDE DEF term
    <3>2. ASSUME NEW n \in Nat, n # 0 PROVE s[n] = s[n - 1] + term(n - 1)
      <4>1. n - 1 \in Nat /\ (n - 1) + 1 = n
        BY <3>2
      <4> QED
        BY <3>1, <4>1
    <3> QED
      BY <2>2, <3>2
  <2>4. Adds(s)
    BY <2>2, <2>3
  <2> QED
    BY <2>4
<1>3. Adds(g)
  BY <1>2
<1>4. \A n : NumberOf(x, n) = g[n]
  BY DEF NumberOf
<1> HIDE DEF g
<1>5. g[0] = 0 /\ \A n \in Nat : g[n + 1] = g[n] + term(n)
  <2>1. \A n \in Nat : g[n] = IF n = 0 THEN 0 ELSE g[n - 1] + term(n - 1)
    BY <1>3
  <2>2. \A n \in Nat : n + 1 \in Nat /\ n + 1 # 0 /\ (n + 1) - 1 = n
    OBVIOUS
  <2> HIDE DEF term
  <2> QED
    BY <2>1, <2>2
<1>6. \A n \in Nat : g[n] \in Nat
  <2> DEFINE G == {n \in Nat : g[n] \in Nat}
  <2>1. 0 \in G /\ \A n \in Nat : n \in G => n + 1 \in G
    <3> HIDE DEF term
    <3> QED
      BY <1>1, <1>5
  <2> HIDE DEF G
  <2>2. \A n \in Nat : n \in G
    BY <2>1, Induction
  <2> QED
    BY <2>2 DEF G
<1> QED
  BY <1>4, <1>5, <1>6

\* What is left of a set of bits behind m of them.
Drop(x, m) == {i \in Nat : i + m \in x}

\* The same facts, one place at a time, as the proofs below use them.
LEMMA Pow2Next ==
  ASSUME NEW n \in Nat
  PROVE  Pow2[n] \in Nat \ {0} /\ Pow2[n + 1] = 2 * Pow2[n]
BY Pow2Is, Pow2Type

\* A number with one more place.
LEMMA NumberNext ==
  ASSUME NEW x, NEW n \in Nat
  PROVE  /\ NumberOf(x, n) \in Nat
         /\ n \in x => NumberOf(x, n + 1) = NumberOf(x, n) + Pow2[n]
         /\ n \notin x => NumberOf(x, n + 1) = NumberOf(x, n)
<1>1. /\ NumberOf(x, n) \in Nat
      /\ NumberOf(x, n + 1) = NumberOf(x, n) + (IF n \in x THEN Pow2[n] ELSE 0)
  BY NumberIs
<1> QED
  BY <1>1

\* n bits make a number below 2^n.
LEMMA NumberBelow ==
  ASSUME NEW x
  PROVE  \A n \in Nat : NumberOf(x, n) < Pow2[n]
<1> DEFINE G == {n \in Nat : NumberOf(x, n) < Pow2[n]}
<1>1. 0 \in G
  BY NumberIs, Pow2Is
<1>2. ASSUME NEW n \in Nat, n \in G PROVE n + 1 \in G
  <2>1. NumberOf(x, n) < Pow2[n]
    BY <1>2
  <2>2. NumberOf(x, n + 1) < Pow2[n + 1]
    <3>1. Pow2[n] \in Nat /\ Pow2[n + 1] = 2 * Pow2[n]
      BY Pow2Next
    <3>2. /\ NumberOf(x, n) \in Nat
          /\ n \in x => NumberOf(x, n + 1) = NumberOf(x, n) + Pow2[n]
          /\ n \notin x => NumberOf(x, n + 1) = NumberOf(x, n)
      BY NumberNext
    <3> QED
      BY <2>1, <3>1, <3>2
  <2> QED
    BY <2>2
<1> HIDE DEF G
<1>3. \A n \in Nat : n \in G
  BY <1>1, <1>2, Induction
<1> QED
  BY <1>3 DEF G

\* Only the bits below n count.
LEMMA NumberAgrees ==
  ASSUME NEW x, NEW y, NEW n \in Nat,
         \A i \in 0 .. n - 1 : i \in x <=> i \in y
  PROVE  NumberOf(x, n) = NumberOf(y, n)
<1> DEFINE G == {k \in Nat : k <= n => NumberOf(x, k) = NumberOf(y, k)}
<1>1. 0 \in G
  BY NumberIs
<1>2. ASSUME NEW k \in Nat, k \in G PROVE k + 1 \in G
  <2>1. SUFFICES ASSUME k + 1 <= n
                 PROVE  NumberOf(x, k + 1) = NumberOf(y, k + 1)
    OBVIOUS
  <2>2. NumberOf(x, k) = NumberOf(y, k) /\ k \in 0 .. n - 1
    BY <1>2, <2>1
  <2> QED
    BY <2>2, NumberNext
<1> HIDE DEF G
<1>3. \A k \in Nat : k \in G
  BY <1>1, <1>2, Induction
<1> QED
  BY <1>3 DEF G

\* The low m bits, and the rest of them m places up.
LEMMA NumberSplit ==
  ASSUME NEW x, NEW m \in Nat
  PROVE  \A n \in Nat : NumberOf(x, m + n) =
           NumberOf(x, m) + Pow2[m] * NumberOf(Drop(x, m), n)
<1> DEFINE d(n) == NumberOf(Drop(x, m), n)
           G == {n \in Nat : NumberOf(x, m + n) =
                               NumberOf(x, m) + Pow2[m] * d(n)}
<1>0. \A n \in Nat : d(n) \in Nat /\ NumberOf(x, n) \in Nat /\ Pow2[n] \in Nat
  BY NumberIs, Pow2Is
<1>1. 0 \in G
  BY <1>0, NumberIs
<1>2. ASSUME NEW n \in Nat, n \in G PROVE n + 1 \in G
  <2> DEFINE t == IF m + n \in x THEN Pow2[n] ELSE 0
  <2>1. d(n + 1) = d(n) + t
    <3>1. n \in Drop(x, m) <=> m + n \in x
      <4>1. n + m = m + n
        OBVIOUS
      <4> QED
        BY <4>1 DEF Drop
    <3> QED
      BY <3>1, NumberNext
  <2>2. NumberOf(x, m + (n + 1)) = NumberOf(x, m + n) + Pow2[m] * t
    <3>1. m + (n + 1) = (m + n) + 1 /\ m + n \in Nat
      OBVIOUS
    <3>2. Pow2[m + n] = Pow2[m] * Pow2[n]
      BY Pow2Plus
    <3>3. CASE m + n \in x
      <4>1. NumberOf(x, (m + n) + 1) = NumberOf(x, m + n) + Pow2[m + n]
        BY <3>1, <3>3, NumberNext
      <4> QED
        BY <3>1, <3>2, <3>3, <4>1
    <3>4. CASE m + n \notin x
      <4>1. NumberOf(x, (m + n) + 1) = NumberOf(x, m + n)
        BY <3>1, <3>4, NumberNext
      <4>2. Pow2[m] * t = 0 /\ NumberOf(x, m + n) \in Nat
        BY <1>0, <3>1, <3>4
      <4> QED
        BY <3>1, <4>1, <4>2
    <3> QED
      BY <3>3, <3>4
  <2>3. t \in Nat
    BY <1>0
  <2>4. Pow2[m] * (d(n) + t) = Pow2[m] * d(n) + Pow2[m] * t
    <3> HIDE DEF d, t
    <3> QED
      BY <1>0, <2>3
  <2>5. NumberOf(x, m + n) = NumberOf(x, m) + Pow2[m] * d(n)
    BY <1>2
  <2>6. Pow2[m] * t \in Nat /\ Pow2[m] * d(n) \in Nat
    <3> HIDE DEF d, t
    <3> QED
      BY <1>0, <2>3
  <2> HIDE DEF d, t
  <2>7. NumberOf(x, m + (n + 1)) = NumberOf(x, m) + Pow2[m] * d(n + 1)
    BY <1>0, <2>1, <2>2, <2>4, <2>5, <2>6
  <2> QED
    BY <2>7
<1> HIDE DEF G
<1>3. \A n \in Nat : n \in G
  BY <1>1, <1>2, Induction
<1> QED
  BY <1>3 DEF G

\* Division with remainder has one answer.
LEMMA DivMod ==
  ASSUME NEW d \in Nat \ {0}, NEW q \in Nat, NEW r \in Nat, r < d
  PROVE  (r + d * q) \div d = q /\ (r + d * q) % d = r
<1> DEFINE n == r + d * q
           p == n \div d
<1>1. n \in Nat /\ d * q \in Nat
  OBVIOUS
<1> HIDE DEF n
<1>2. p \in Int /\ n % d \in 0 .. d - 1 /\ n = d * p + (n % d)
  BY <1>1
<1> HIDE DEF p
<1>3. d * (p - q) = r - (n % d)
  <2>1. d * (p - q) = d * p - d * q /\ d * p \in Int
    BY <1>2
  <2> QED
    BY <1>1, <1>2, <2>1 DEF n
<1>4. p - q = 0
  <2> DEFINE e == p - q
  <2>1. e \in Int /\ d * e > -d /\ d * e < d
    BY <1>2, <1>3
  <2> HIDE DEF e
  <2>2. ~(e >= 1)
    BY <2>1
  <2>3. ~(e <= -1)
    BY <2>1
  <2> QED
    BY <2>1, <2>2, <2>3 DEF e
<1>5. p = q
  BY <1>2, <1>4
<1>6. n % d = r
  <2>1. d * 0 = 0
    OBVIOUS
  <2> QED
    BY <1>2, <1>3, <1>4, <2>1
<1> QED
  BY <1>5, <1>6 DEF p, n

\* Dividing by a power drops bits, and the remainder is the bits dropped.
LEMMA NumberDivMod ==
  ASSUME NEW x, NEW n \in Nat, NEW m \in 0 .. n
  PROVE  /\ NumberOf(x, n) \div Pow2[m] = NumberOf(Drop(x, m), n - m)
         /\ NumberOf(x, n) % Pow2[m] = NumberOf(x, m)
<1>1. n - m \in Nat /\ m + (n - m) = n /\ m \in Nat
  OBVIOUS
<1>2. NumberOf(x, n) = NumberOf(x, m) + Pow2[m] * NumberOf(Drop(x, m), n - m)
  <2> DEFINE k == n - m
  <2>1. k \in Nat /\ m + k = n
    BY <1>1
  <2> HIDE DEF k
  <2>2. NumberOf(x, m + k) = NumberOf(x, m) + Pow2[m] * NumberOf(Drop(x, m), k)
    BY <1>1, <2>1, NumberSplit
  <2> QED
    BY <2>1, <2>2 DEF k
<1>3. /\ NumberOf(x, m) \in Nat /\ NumberOf(Drop(x, m), n - m) \in Nat
      /\ Pow2[m] \in Nat \ {0} /\ NumberOf(x, m) < Pow2[m]
  BY <1>1, NumberIs, NumberBelow, Pow2Type
<1> DEFINE q == NumberOf(Drop(x, m), n - m)
           w == NumberOf(x, m)
           d == Pow2[m]
<1> HIDE DEF q, w, d
<1>4. (w + d * q) \div d = q /\ (w + d * q) % d = w
  BY <1>3, DivMod DEF q, w, d
<1> QED
  BY <1>2, <1>4 DEF q, w, d

\* A bit, by arithmetic.
LEMMA NumberBit ==
  ASSUME NEW x, NEW n \in Nat, NEW i \in 0 .. n - 1
  PROVE  ((NumberOf(x, n) \div Pow2[i]) % 2 = 1) <=> i \in x
<1>1. i \in 0 .. n /\ n - i \in Nat /\ 1 \in 0 .. n - i /\ i \in Nat
  OBVIOUS
<1>2. NumberOf(x, n) \div Pow2[i] = NumberOf(Drop(x, i), n - i)
  BY <1>1, NumberDivMod
<1>3. Pow2[1] = 2
  <2>1. Pow2[0 + 1] = 2 * Pow2[0]
    BY Pow2Is
  <2> QED
    BY <2>1, Pow2Is
<1>4. NumberOf(Drop(x, i), n - i) % 2 = NumberOf(Drop(x, i), 1)
  BY <1>1, <1>3, NumberDivMod
<1>5. NumberOf(Drop(x, i), 1) = IF i \in x THEN 1 ELSE 0
  <2>1. NumberOf(Drop(x, i), 0 + 1) =
          NumberOf(Drop(x, i), 0) + IF 0 \in Drop(x, i) THEN Pow2[0] ELSE 0
    BY NumberIs
  <2>2. 0 \in Drop(x, i) <=> i \in x
    BY <1>1 DEF Drop
  <2> QED
    BY <2>1, <2>2, NumberIs, Pow2Is
<1> QED
  BY <1>2, <1>4, <1>5

\* All bits set.
LEMMA NumberFull ==
  ASSUME NEW x, NEW n \in Nat, \A i \in 0 .. n - 1 : i \in x
  PROVE  NumberOf(x, n) = Pow2[n] - 1
<1> DEFINE G == {k \in Nat : k <= n => NumberOf(x, k) = Pow2[k] - 1}
<1>1. 0 \in G
  BY NumberIs, Pow2Is
<1>2. ASSUME NEW k \in Nat, k \in G PROVE k + 1 \in G
  <2>1. SUFFICES ASSUME k + 1 <= n
                 PROVE  NumberOf(x, k + 1) = Pow2[k + 1] - 1
    OBVIOUS
  <2>2. NumberOf(x, k) = Pow2[k] - 1 /\ k \in x
    BY <1>2, <2>1
  <2> QED
    BY <2>2, NumberNext, Pow2Next
<1> HIDE DEF G
<1>3. \A k \in Nat : k \in G
  BY <1>1, <1>2, Induction
<1> QED
  BY <1>3 DEF G

\* The empty set of bits is the number 0.
LEMMA NumberNone ==
  ASSUME NEW x, NEW n \in Nat, \A i \in 0 .. n - 1 : i \notin x
  PROVE  NumberOf(x, n) = 0
<1> DEFINE G == {k \in Nat : k <= n => NumberOf(x, k) = 0}
<1>1. 0 \in G
  BY NumberIs
<1>2. ASSUME NEW k \in Nat, k \in G PROVE k + 1 \in G
  <2>1. SUFFICES ASSUME k + 1 <= n PROVE NumberOf(x, k + 1) = 0
    OBVIOUS
  <2>2. NumberOf(x, k) = 0 /\ k \notin x
    BY <1>2, <2>1
  <2> QED
    BY <2>2, NumberNext
<1> HIDE DEF G
<1>3. \A k \in Nat : k \in G
  BY <1>1, <1>2, Induction
<1> QED
  BY <1>3 DEF G

\* The last bit says which half of its range a number is in.
LEMMA NumberTop ==
  ASSUME NEW x, NEW n \in Nat
  PROVE  n \in x <=> NumberOf(x, n + 1) >= Pow2[n]
<1>1. NumberOf(x, n) < Pow2[n]
  BY NumberBelow
<1> QED
  BY <1>1, NumberNext, Pow2Next

\* Of two numbers the one with the highest bit they differ in is greater.
LEMMA NumberLess ==
  ASSUME NEW x, NEW y, NEW n \in Nat, NEW i \in 0 .. n - 1,
         i \notin x, i \in y, \A j \in i + 1 .. n - 1 : j \in x <=> j \in y
  PROVE  NumberOf(x, n) < NumberOf(y, n)
<1> DEFINE m == i + 1
           u == NumberOf(Drop(x, m), n - m)
           v == NumberOf(Drop(y, m), n - m)
<1>1. m \in Nat /\ n - m \in Nat /\ m + (n - m) = n /\ i \in Nat
  OBVIOUS
<1>2. /\ NumberOf(x, n) = NumberOf(x, m) + Pow2[m] * u
      /\ NumberOf(y, n) = NumberOf(y, m) + Pow2[m] * v
  <2> DEFINE k == n - m
  <2>0. m \in Nat /\ k \in Nat /\ m + k = n
    BY <1>1
  <2> HIDE DEF k, m
  <2>1. NumberOf(x, m + k) = NumberOf(x, m) + Pow2[m] * NumberOf(Drop(x, m), k)
    BY <2>0, NumberSplit
  <2>2. NumberOf(y, m + k) = NumberOf(y, m) + Pow2[m] * NumberOf(Drop(y, m), k)
    BY <2>0, NumberSplit
  <2> QED
    BY <2>0, <2>1, <2>2 DEF k
<1>3. u = v
  <2>1. \A j \in 0 .. (n - m) - 1 : j \in Drop(x, m) <=> j \in Drop(y, m)
    BY <1>1 DEF Drop
  <2> HIDE DEF m
  <2> QED
    BY <1>1, <2>1, NumberAgrees
<1>4. NumberOf(x, m) = NumberOf(x, i) /\ NumberOf(x, i) < Pow2[i]
  BY <1>1, NumberNext, NumberBelow
<1>5. NumberOf(y, m) >= Pow2[i]
  BY <1>1, NumberTop
<1>6. /\ NumberOf(x, m) \in Nat /\ NumberOf(y, m) \in Nat
      /\ Pow2[i] \in Nat /\ Pow2[m] \in Nat /\ u \in Nat
  <2>1. NumberOf(x, m) \in Nat /\ NumberOf(y, m) \in Nat /\ u \in Nat
    BY <1>1, NumberIs
  <2>2. Pow2[i] \in Nat /\ Pow2[m] \in Nat
    BY <1>1, Pow2Type
  <2> QED
    BY <2>1, <2>2
<1> HIDE DEF u, v, m
<1>7. Pow2[m] * u \in Nat
  BY <1>6
<1> QED
  BY <1>2, <1>3, <1>4, <1>5, <1>6, <1>7

\* Bits that are not there count nothing.
LEMMA NumberShort ==
  ASSUME NEW x, NEW n \in Nat, NEW m \in 0 .. n,
         \A i \in m .. n - 1 : i \notin x
  PROVE  NumberOf(x, n) = NumberOf(x, m)
<1> DEFINE k == n - m
           u == NumberOf(Drop(x, m), k)
<1>1. k \in Nat /\ m + k = n /\ m \in Nat
  OBVIOUS
<1>2. u = 0
  <2>1. \A i \in 0 .. k - 1 : i \notin Drop(x, m)
    BY DEF Drop
  <2> HIDE DEF k
  <2> QED
    BY <1>1, <2>1, NumberNone
<1>3. NumberOf(x, m + k) = NumberOf(x, m) + Pow2[m] * u
  <2> HIDE DEF k
  <2> QED
    BY <1>1, NumberSplit
<1>4. Pow2[m] \in Nat /\ NumberOf(x, m) \in Nat
  BY <1>1, Pow2Is, NumberIs
<1> HIDE DEF k, u
<1> QED
  BY <1>1, <1>2, <1>3, <1>4

\* A bounded set of numbers has a greatest one.
LEMMA GreatestOf ==
  ASSUME NEW n \in Nat, NEW B \in SUBSET (0 .. n - 1), B # {}
  PROVE  \E i \in B : \A j \in B : j <= i
<1> DEFINE C == {k \in Nat : n - 1 - k \in B}
<1>1. \A i \in B : n - 1 - i \in C
  <2>1. \A i \in B : /\ i \in 0 .. n - 1 /\ n - 1 - i \in Nat
                    /\ n - 1 - (n - 1 - i) = i
    OBVIOUS
  <2> QED
    BY <2>1
<1>2. PICK m \in C : \A k \in Nat : k < m => k \notin C
  <2>1. C \in SUBSET Nat /\ C # {}
    BY <1>1
  <2> HIDE DEF C
  <2> QED
    BY <2>1, LeastOf
<1>3. n - 1 - m \in B /\ m \in Nat
  BY <1>2
<1>4. ASSUME NEW j \in B PROVE j <= n - 1 - m
  <2>1. n - 1 - j \in C /\ n - 1 - j \in Nat /\ j \in Nat
    BY <1>1
  <2>2. ~(n - 1 - j < m)
    <3> HIDE DEF C
    <3> QED
      BY <1>2, <2>1
  <2> QED
    BY <1>3, <2>1, <2>2
<1> QED
  BY <1>3, <1>4

\* Two sets of bits that are different numbers differ in a highest bit.
LEMMA HighestDifference ==
  ASSUME NEW x, NEW y, NEW n \in Nat, NumberOf(x, n) # NumberOf(y, n)
  PROVE  \E i \in 0 .. n - 1 :
           /\ ~(i \in x <=> i \in y)
           /\ \A j \in i + 1 .. n - 1 : j \in x <=> j \in y
<1> DEFINE B == {i \in 0 .. n - 1 : ~(i \in x <=> i \in y)}
<1>1. B # {}
  BY NumberAgrees
<1>2. PICK i \in B : \A j \in B : j <= i
  <2>1. B \in SUBSET (0 .. n - 1)
    OBVIOUS
  <2> HIDE DEF B
  <2> QED
    BY <1>1, <2>1, GreatestOf
<1>3. ASSUME NEW j \in i + 1 .. n - 1 PROVE j \in x <=> j \in y
  <2>1. ~(j <= i) /\ j \in 0 .. n - 1
    OBVIOUS
  <2>2. j \notin B
    BY <1>2, <2>1
  <2> QED
    BY <2>1, <2>2
<1> QED
  BY <1>2, <1>3
=============================================================================
