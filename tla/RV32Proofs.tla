----------------------------- MODULE RV32Proofs -----------------------------
(***************************************************************************)
(* Proofs about RV32Laws, for words of 8, 16 and 32 bits, every layout of  *)
(* a float and every operand: what the programs of the laws have in their  *)
(* registers at their ends.  Of a straight program the invariant is that   *)
(* a run has led to where it is: the registers before each of its          *)
(* instructions, each as the one before makes them.  A program with a      *)
(* branch, a loop or a call has an invariant of its own, place by place.   *)
(* What the registers then hold is a fact about words, and a word is the   *)
(* set of the places of its bits (NumeralsProofs).                         *)
(***************************************************************************)
EXTENDS RV32Laws, NumeralsProofs, FiniteSetTheorems

-----------------------------------------------------------------------------
(* Words, and where a program is.                                          *)

\* The powers of 2 up to the width of a word are those of the naturals.
LEMMA WidthType ==
  /\ W \in Nat /\ W >= 8 /\ W % 4 = 0
  /\ \A n \in 0 .. W : Power[n] = Pow2[n] /\ Power[n] \in Nat \ {0}
BY WordsAssumption, Pow2Type DEF Power

\* A word is a number below the power of the width, and wrapping makes one.
LEMMA WrapIs ==
  /\ Power[W] \in Nat \ {0} /\ Power[W] = 2 * Power[W - 1]
  /\ Power[W - 1] \in Nat \ {0} /\ Word = 0 .. Power[W] - 1
  /\ \A n \in Int : Wrap(n) \in Word
  /\ \A n \in Word : Wrap(n) = n
<1>1. W - 1 \in Nat /\ (W - 1) + 1 = W /\ W \in 0 .. W /\ W - 1 \in 0 .. W
  BY WidthType
<1>2. /\ Power[W] \in Nat \ {0} /\ Power[W] = 2 * Power[W - 1]
      /\ Power[W - 1] \in Nat \ {0}
  BY <1>1, WidthType, Pow2Next
<1> DEFINE d == Power[W]
<1>3. d \in Nat \ {0} /\ Word = 0 .. d - 1 /\ \A n : Wrap(n) = (n % d)
  BY <1>2 DEF Word, Wrap
<1> HIDE DEF d
<1>4. \A n \in Int : (n % d) \in 0 .. d - 1
  BY <1>3
<1>5. \A n \in 0 .. d - 1 : (n % d) = n
  BY <1>3
<1> QED
  BY <1>2, <1>3, <1>4, <1>5 DEF d

\* The instructions that write what they compute of their operands.
Computed == IntegerOps \cup MulDivOps \cup BitManipOps

\* What an instruction computes.
Result(op, x, y, beyond) ==
  CASE op \in IntegerOps  -> Integer(op, x, y)
    [] op \in MulDivOps   -> MulDiv(op, x, y)
    [] op \in BitManipOps -> BitManip(op, x, y, beyond)

\* The operands of an instruction written with two registers, and with one
\* and an immediate.
LEMMA OpIs ==
  ASSUME NEW op, NEW rd, NEW r1, NEW r2, Instruction = Op(op, rd, r1, r2)
  PROVE  /\ Instruction.op = op /\ Instruction.rd = rd
         /\ Rdata1 = gpr[r1] /\ Rdata2 = gpr[r2]
BY DEF Op, Rdata1, Rdata2

\* The same of an instruction with an immediate.
LEMMA OpImmIs ==
  ASSUME NEW op, NEW rd, NEW r1, NEW imm,
         Instruction = OpImm(op, rd, r1, imm)
  PROVE  /\ Instruction.op = op /\ Instruction.rd = rd
         /\ Rdata1 = gpr[r1] /\ Rdata2 = Wrap(imm)
         /\ Instruction.imm = Wrap(imm)
BY DEF OpImm, Rdata1, Rdata2

\* What every program of the laws keeps: the zero register, and its operands.
Kept ==
  /\ program \in DOMAIN Programs
  /\ gpr = [r \in Registers |-> gpr[r]]
  /\ gpr[0] = 0 /\ gpr[1] \in Word /\ gpr[2] \in Word
  /\ fcsr_nv \in BOOLEAN

\* The instruction at place k of the code comes next.
At(k) == k \in 0 .. Len(Code) - 1 /\ Len(Code) \in Nat /\ pc = 4 * k

\* It goes on to place j, having changed no register but rd.
Goes(j, rd) ==
  /\ Kept' /\ program' = program /\ pc' = 4 * j
  /\ \A r \in Registers \ {rd} : gpr'[r] = gpr[r]

\* No instruction changes the program.
LEMMA ProgramStays == Next => program' = program
BY DEF Next, Branch, Jump, Compute, FloatStep, IllegalFloat, Nothing

\* At place k the instruction fetched is the one after the first k.
LEMMA PlaceIs ==
  ASSUME Kept, NEW k, At(k)
  PROVE  NextPc = 4 * (k + 1) /\ ~Ended /\ Instruction = Code[k + 1]
<1>1. 4 * Len(Code) < Power[W - 1]
  BY RV32IMAssumption DEF Code, Kept
<1>2. pc + 4 = 4 * (k + 1) /\ pc + 4 \in Word
  <2> DEFINE n == Len(Code)
             d == Power[W - 1]
             e == Power[W]
  <2>1. /\ n \in Nat /\ k \in 0 .. n - 1 /\ 4 * n < d /\ d \in Nat
        /\ e = 2 * d /\ Word = 0 .. e - 1 /\ pc = 4 * k
    BY <1>1, WrapIs DEF At
  <2> HIDE DEF n, d, e
  <2> QED
    BY <2>1
<1>3. pc \div 4 = k
  BY DEF At
<1> QED
  BY <1>2, <1>3, WrapIs DEF NextPc, Ended, Instruction, At

\* A program that goes on is at a place.
LEMMA PlaceOf ==
  ASSUME ~Ended, NEW k \in Nat, pc = 4 * k, Len(Code) \in Nat
  PROVE  At(k)
<1>1. pc \div 4 = k
  OBVIOUS
<1> QED
  BY <1>1 DEF Ended, At

\* Arithmetic modulo the size of a word.
LEMMA WrapsTo ==
  ASSUME NEW x \in Word, NEW k \in Int
  PROVE  Wrap(x + Power[W] * k) = x
<1> DEFINE d == Power[W]
           p == d * k
<1>1. d \in Nat \ {0} /\ x \in 0 .. d - 1 /\ p \in Int
  BY WrapIs
<1> DEFINE q == (x + p) \div d
           r == (x + p) % d
<1>2. q \in Int /\ r \in 0 .. d - 1 /\ x + p = d * q + r
  <2> HIDE DEF p, d
  <2> QED
    BY <1>1
<1>3. d * (k - q) = r - x
  <2>1. d * (k - q) = d * k - d * q
    <3> HIDE DEF d, q
    <3> QED
      BY <1>1, <1>2
  <2>2. d * q \in Int
    <3> HIDE DEF d, q
    <3> QED
      BY <1>1, <1>2
  <2> HIDE DEF q, r, d
  <2> QED
    BY <1>1, <1>2, <2>1, <2>2 DEF p
<1> DEFINE e == k - q
<1>4. e \in Int
  <2> HIDE DEF q
  <2> QED
    BY <1>2
<1> HIDE DEF d, p, q, r
<1>5. e = 0
  <2> HIDE DEF e
  <2>1. d * e = r - x
    BY <1>3 DEF e
  <2>2. ~(e >= 1)
    BY <1>1, <1>2, <1>4, <2>1
  <2>3. ~(e <= -1)
    BY <1>1, <1>2, <1>4, <2>1
  <2> QED
    BY <1>4, <2>2, <2>3
<1>6. r = x
  <2>1. d * 0 = 0
    BY <1>1
  <2>2. d * e = r - x
    BY <1>3
  <2> HIDE DEF e
  <2> QED
    BY <1>1, <1>2, <1>5, <2>1, <2>2
<1> QED
  BY <1>6 DEF Wrap, r, p, d

\* Wrapping adds a multiple of the size of a word.
LEMMA WrapSplit ==
  ASSUME NEW n \in Int
  PROVE  \E k \in Int : Wrap(n) = n + Power[W] * k
<1> DEFINE d == Power[W]
           q == n \div d
<1>1. d \in Nat \ {0}
  BY WrapIs
<1> HIDE DEF d
<1>2. q \in Int /\ n = d * q + (n % d) /\ (n % d) \in Int
  BY <1>1
<1> HIDE DEF q
<1>3. -q \in Int /\ d * (-q) = -(d * q) /\ d * q \in Int
  BY <1>1, <1>2
<1>4. (n % d) = n + d * (-q)
  BY <1>2, <1>3
<1> QED
  BY <1>3, <1>4 DEF Wrap, d

\* The signed value of a word: in two's complement.
LEMMA SignedIs ==
  ASSUME NEW x \in Word
  PROVE  /\ Signed(x) \in -Power[W - 1] .. Power[W - 1] - 1
         /\ \E k \in Int : Signed(x) = x + Power[W] * k
         /\ Signed(x) = 0 <=> x = 0
         /\ Signed(x) < 0 <=> x >= Power[W - 1]
         /\ x < Power[W - 1] => Signed(x) = x
         /\ x >= Power[W - 1] => Signed(x) = x - Power[W]
<1> DEFINE h == Power[W - 1]
           d == Power[W]
<1>1. h \in Nat \ {0} /\ d = 2 * h /\ x \in 0 .. d - 1
  BY WrapIs
<1>2. Signed(x) = IF x >= h THEN x - d ELSE x
  BY DEF Signed
<1> HIDE DEF h, d
<1>3. \E k \in Int : Signed(x) = x + d * k
  <2>1. x + d * 0 = x /\ x + d * (-1) = x - d
    BY <1>1
  <2> QED
    BY <1>2, <2>1
<1> QED
  BY <1>1, <1>2, <1>3 DEF h, d

\* A number in the range of signed words comes back from one.
LEMMA SignedWrap ==
  ASSUME NEW n \in -Power[W - 1] .. Power[W - 1] - 1
  PROVE  Signed(Wrap(n)) = n /\ Wrap(n) \in Word
<1> DEFINE h == Power[W - 1]
           d == Power[W]
           x == IF n < 0 THEN n + d ELSE n
<1>1. h \in Nat \ {0} /\ d = 2 * h /\ Word = 0 .. d - 1 /\ n \in -h .. h - 1
  BY WrapIs
<1> HIDE DEF h, d
<1>2. x \in Word /\ (x >= h <=> n < 0)
  BY <1>1
<1>3. n = x + d * (IF n < 0 THEN -1 ELSE 0)
  <2>1. d * (-1) = -d /\ d * 0 = 0
    BY <1>1
  <2> QED
    BY <1>1, <2>1
<1> HIDE DEF x
<1>4. Wrap(n) = x
  BY <1>2, <1>3, WrapsTo DEF d
<1>5. Signed(x) = n
  BY <1>1, <1>2, <1>4, SignedIs DEF x, h, d
<1> QED
  BY <1>2, <1>4, <1>5

\* Numbers that are the same modulo the size of a word wrap to the same.
LEMMA SameWrap ==
  ASSUME NEW m \in Int, NEW k \in Int
  PROVE  Wrap(m + Power[W] * k) = Wrap(m)
<1> DEFINE d == Power[W]
<1>1. PICK j \in Int : Wrap(m) = m + d * j
  BY WrapSplit
<1>2. d \in Nat \ {0} /\ Wrap(m) \in Word /\ Wrap(m) \in Int
  <2>1. d \in Nat \ {0} /\ Wrap(m) \in Word /\ Word = 0 .. d - 1
    BY WrapIs
  <2> HIDE DEF d
  <2> QED
    BY <2>1
<1> HIDE DEF d
<1>3. m + d * k = Wrap(m) + d * (k - j) /\ k - j \in Int
  BY <1>1, <1>2
<1> QED
  BY <1>2, <1>3, WrapsTo DEF d

\* Sums and products of wrapped numbers wrap to those of the numbers.
LEMMA WrapAdd ==
  ASSUME NEW m \in Int, NEW n \in Int
  PROVE  Wrap(Wrap(m) + Wrap(n)) = Wrap(m + n)
<1> DEFINE d == Power[W]
<1>1. PICK j \in Int : Wrap(m) = m + d * j
  BY WrapSplit
<1>2. PICK k \in Int : Wrap(n) = n + d * k
  BY WrapSplit
<1>3. d \in Nat \ {0}
  BY WrapIs
<1> HIDE DEF d
<1>4. (m + d * j) + (n + d * k) = (m + n) + d * (j + k)
  BY <1>3
<1>5. m + n \in Int /\ j + k \in Int
  OBVIOUS
<1> QED
  BY <1>1, <1>2, <1>4, <1>5, SameWrap DEF d

\* So it is of products.
LEMMA WrapTimes ==
  ASSUME NEW m \in Int, NEW n \in Int
  PROVE  Wrap(Wrap(m) * Wrap(n)) = Wrap(m * n)
<1> DEFINE d == Power[W]
<1>1. PICK j \in Int : Wrap(m) = m + d * j
  BY WrapSplit
<1>2. PICK k \in Int : Wrap(n) = n + d * k
  BY WrapSplit
<1>3. d \in Nat \ {0}
  BY WrapIs
<1> HIDE DEF d
<1> DEFINE e == m * k + j * n + d * (j * k)
<1>4. (m + d * j) * (n + d * k) = (m * n) + d * e
  BY <1>3
<1>5. m * n \in Int /\ e \in Int
  BY <1>3
<1> HIDE DEF e
<1> QED
  BY <1>1, <1>2, <1>4, <1>5, SameWrap DEF d

\* A word is its signed value, wrapped.
LEMMA WrapSigned ==
  ASSUME NEW x \in Word
  PROVE  Wrap(Signed(x)) = x /\ Signed(x) \in Int
<1>1. PICK k \in Int : Signed(x) = x + Power[W] * k
  BY SignedIs
<1>2. Signed(x) \in Int
  BY SignedIs, WrapIs
<1> QED
  BY <1>1, <1>2, WrapsTo

-----------------------------------------------------------------------------
(* Division.                                                               *)

\* C++'s quotient, towards zero, and what it leaves.
LEMMA QuotientIs ==
  ASSUME NEW m \in Int, NEW n \in Int, n # 0
  PROVE  LET r == m - n * Quotient(m, n) IN
         /\ Quotient(m, n) \in Int /\ r \in Int
         /\ Magnitude(r) < Magnitude(n)
         /\ r # 0 => (r < 0 <=> m < 0)
<1> DEFINE a == Magnitude(m)
           b == Magnitude(n)
           q == a \div b
           r == a % b
           s == m - n * Quotient(m, n)
<1>1. a \in Nat /\ b \in Nat \ {0}
  BY DEF Magnitude
<1>2. q \in Int /\ r \in 0 .. b - 1 /\ a = b * q + r
  <2> HIDE DEF a, b
  <2> QED
    BY <1>1
<1>3. Quotient(m, n) = IF (m < 0) = (n < 0) THEN q ELSE -q
  BY DEF Quotient
<1>4. /\ m < 0 => m = -a
      /\ ~(m < 0) => m = a
      /\ n < 0 => n = -b
      /\ ~(n < 0) => n = b
  BY DEF Magnitude
<1> HIDE DEF a, b, q, r
<1>5. b * q \in Int /\ (-b) * q = -(b * q) /\ b * (-q) = -(b * q)
      /\ (-b) * (-q) = b * q
  BY <1>1, <1>2
<1>6. CASE m < 0
  <2>1. n * Quotient(m, n) = -(b * q)
    <3>1. CASE n < 0
      BY <1>3, <1>4, <1>5, <1>6, <3>1
    <3>2. CASE ~(n < 0)
      BY <1>3, <1>4, <1>5, <1>6, <3>2
    <3> QED
      BY <3>1, <3>2
  <2>2. m - n * Quotient(m, n) = -r
    BY <1>2, <1>4, <1>5, <1>6, <2>1
  <2>4. Quotient(m, n) \in Int
    BY <1>2, <1>3
  <2>5. /\ s \in Int /\ Magnitude(s) < Magnitude(n)
        /\ s # 0 => (s < 0 <=> m < 0)
    <3>1. s = -r
      BY <2>2
    <3> HIDE DEF s
    <3>2. Magnitude(s) < Magnitude(n)
      <4>1. Magnitude(s) = r
        BY <1>2, <3>1 DEF Magnitude
      <4>2. Magnitude(n) = b
        BY DEF b
      <4> QED
        BY <1>1, <1>2, <4>1, <4>2
    <3>3. s \in Int /\ (s # 0 => s < 0)
      BY <1>2, <3>1
    <3> QED
      BY <1>6, <3>2, <3>3
  <2> QED
    BY <2>4, <2>5
<1>7. CASE ~(m < 0)
  <2>1. n * Quotient(m, n) = b * q
    <3>1. CASE n < 0
      BY <1>3, <1>4, <1>5, <1>7, <3>1
    <3>2. CASE ~(n < 0)
      BY <1>3, <1>4, <1>5, <1>7, <3>2
    <3> QED
      BY <3>1, <3>2
  <2>2. m - n * Quotient(m, n) = r
    BY <1>2, <1>4, <1>5, <1>7, <2>1
  <2>4. Quotient(m, n) \in Int
    BY <1>2, <1>3
  <2>5. /\ s \in Int /\ Magnitude(s) < Magnitude(n)
        /\ s # 0 => (s < 0 <=> m < 0)
    <3>1. s = r
      BY <2>2
    <3> HIDE DEF s
    <3>2. Magnitude(s) < Magnitude(n)
      <4>1. Magnitude(s) = r
        BY <1>2, <3>1 DEF Magnitude
      <4>2. Magnitude(n) = b
        BY DEF b
      <4> QED
        BY <1>1, <1>2, <4>1, <4>2
    <3>3. s \in Int /\ ~(s < 0)
      BY <1>2, <3>1
    <3> QED
      BY <1>7, <3>2, <3>3
  <2> QED
    BY <2>4, <2>5
<1> QED
  BY <1>6, <1>7

\* What div, rem, divu and remu leave in their registers.
DivOf(x, y)  == Wrap(SignedDiv(Signed(x), Signed(y)))
RemOf(x, y)  == Wrap(SignedRem(Signed(x), Signed(y)))

\* div and rem: dividend is quotient times divisor and remainder, the remainder
\* has the sign of the dividend and is below the divisor, and a division by
\* zero gives ones.
LEMMA SignedDivision ==
  ASSUME NEW x \in Word, NEW y \in Word
  PROVE  /\ Wrap(Wrap(DivOf(x, y) * y) + RemOf(x, y)) = x
         /\ y # 0 =>
              /\ Magnitude(Signed(RemOf(x, y))) < Magnitude(Signed(y))
              /\ RemOf(x, y) # 0 =>
                   (Signed(RemOf(x, y)) < 0) = (Signed(x) < 0)
         /\ y = 0 => DivOf(x, y) = Ones
         /\ DivOf(x, y) \in Word /\ RemOf(x, y) \in Word
<1> DEFINE m == Signed(x)
           n == Signed(y)
           q == SignedDiv(m, n)
           r == SignedRem(m, n)
<1>1. m \in Int /\ n \in Int /\ Wrap(m) = x /\ Wrap(n) = y
  BY WrapSigned
<1>2. n = 0 <=> y = 0
  BY SignedIs
<1>3. /\ q \in Int /\ r \in Int /\ m = q * n + r
      /\ n # 0 => /\ Magnitude(r) < Magnitude(n)
                  /\ r # 0 => (r < 0 <=> m < 0)
  <2> HIDE DEF m, n
  <2>1. CASE n = 0
    BY <1>1, <2>1 DEF SignedDiv, SignedRem
  <2>2. CASE n # 0
    <3> DEFINE p == Quotient(m, n)
    <3>1. q = p /\ r = m - n * p
      BY <2>2 DEF SignedDiv, SignedRem
    <3>2. p \in Int
      BY <1>1, <2>2, QuotientIs
    <3>3. Magnitude(r) < Magnitude(n) /\ (r # 0 => (r < 0 <=> m < 0))
      <4> DEFINE s == m - n * p
      <4>1. Magnitude(s) < Magnitude(n) /\ (s # 0 => (s < 0 <=> m < 0))
        BY <1>1, <2>2, QuotientIs
      <4>2. r = s
        BY <3>1
      <4> HIDE DEF r, s
      <4> QED
        BY <4>1, <4>2
    <3> HIDE DEF p, q, r
    <3>4. m = q * n + r /\ r \in Int
      BY <1>1, <3>1, <3>2
    <3> QED
      BY <3>1, <3>2, <3>3, <3>4
  <2> QED
    BY <2>1, <2>2
<1>4. Wrap(Wrap(Wrap(q) * y) + Wrap(r)) = x
  <2>1. Wrap(Wrap(q) * Wrap(n)) = Wrap(q * n)
    BY <1>1, <1>3, WrapTimes
  <2>2. q * n \in Int
    <3> HIDE DEF q, n
    <3> QED
      BY <1>1, <1>3
  <2>3. Wrap(Wrap(q * n) + Wrap(r)) = Wrap(q * n + r)
    BY <1>3, <2>2, WrapAdd
  <2> HIDE DEF m, n, q, r
  <2> QED
    BY <1>1, <1>3, <2>1, <2>3
<1>5. y # 0 => Signed(Wrap(r)) = r /\ (Wrap(r) # 0 => r # 0)
  <2> DEFINE h == Power[W - 1]
  <2>1. n \in -h .. h - 1 /\ h \in Nat \ {0}
    BY SignedIs, WrapIs
  <2>2. ASSUME y # 0 PROVE r \in -h .. h - 1
    <3>1. Magnitude(r) < Magnitude(n)
      BY <1>2, <1>3, <2>2
    <3> HIDE DEF n, r, h
    <3> QED
      BY <1>3, <2>1, <3>1 DEF Magnitude
  <2>3. Wrap(0) = 0
    BY WrapIs
  <2> QED
    BY <2>2, <2>3, SignedWrap
<1>6. Wrap(q) \in Word /\ Wrap(r) \in Word
  BY <1>3, WrapIs
<1>7. y = 0 => Wrap(q) = Ones
  <2>1. y = 0 => q = -1
    <3> HIDE DEF m, n
    <3> QED
      BY <1>2 DEF SignedDiv
  <2>2. Wrap(-1) = Ones
    <3> DEFINE d == Power[W]
    <3>0. d \in Nat \ {0} /\ Ones = d - 1 /\ Word = 0 .. d - 1
      BY WrapIs DEF Ones
    <3> HIDE DEF d
    <3>1. d \in Nat \ {0} /\ Ones = d - 1 /\ Ones \in Word
      BY <3>0
    <3>2. -1 = Ones + d * (-1)
      BY <3>1
    <3> QED
      BY <3>1, <3>2, WrapsTo DEF d
  <2> QED
    BY <2>1, <2>2
<1> HIDE DEF q, r
<1> QED
  BY <1>2, <1>3, <1>4, <1>5, <1>6, <1>7 DEF DivOf, RemOf, q, r

\* And divu and remu.
LEMMA UnsignedDivision ==
  ASSUME NEW x \in Word, NEW y \in Word
  PROVE  /\ Wrap(Wrap(UnsignedDiv(x, y) * y) + UnsignedRem(x, y)) = x
         /\ y # 0 => UnsignedRem(x, y) < y
         /\ y = 0 => UnsignedDiv(x, y) = Ones
<1>0. x \in Nat /\ y \in Nat /\ Wrap(x) = x /\ Wrap(0) = 0 /\ Ones \in Nat
  <2> DEFINE d == Power[W]
  <2>1. d \in Nat \ {0} /\ Ones = d - 1 /\ Word = 0 .. d - 1
    BY WrapIs DEF Ones
  <2> HIDE DEF d
  <2>2. x \in Nat /\ y \in Nat /\ Ones \in Nat /\ 0 \in Word
    BY <2>1
  <2> QED
    BY <2>2, WrapIs
<1>1. CASE y = 0
  BY <1>0, <1>1 DEF UnsignedDiv, UnsignedRem
<1>2. CASE y # 0
  <2> DEFINE q == x \div y
             r == x % y
  <2>1. q \in Nat /\ r \in 0 .. y - 1 /\ x = y * q + r
    BY <1>0, <1>2
  <2> HIDE DEF q, r
  <2>2. q * y \in Int /\ q * y + r = x
    BY <1>0, <2>1
  <2>3. Wrap(r) = r
    <3>1. r \in Word
      BY <2>1, <1>0, WrapIs
    <3> QED
      BY <3>1, WrapIs
  <2>4. Wrap(Wrap(q * y) + Wrap(r)) = Wrap(q * y + r)
    BY <2>1, <2>2, WrapAdd
  <2>5. UnsignedDiv(x, y) = q /\ UnsignedRem(x, y) = r
    BY <1>2 DEF UnsignedDiv, UnsignedRem, q, r
  <2> QED
    BY <1>0, <1>2, <2>1, <2>2, <2>3, <2>4, <2>5
<1> QED
  BY <1>1, <1>2

-----------------------------------------------------------------------------
(* What instructions compute.                                              *)

\* The computations that do not look at the pc, all but auipc.
Plain(op, x, y, b) ==
  CASE op = "lui"  -> y
    [] op = "add"  -> Wrap(x + y)
    [] op = "sub"  -> Wrap(x - y)
    [] op = "slt"  -> Truth(Signed(x) < Signed(y))
    [] op = "sltu" -> Truth(x < y)
    [] op = "xor"  -> Xor(x, y)
    [] op = "or"   -> Or(x, y)
    [] op = "and"  -> And(x, y)
    [] op = "sll"  -> Sll(x, Amount(y))
    [] op = "srl"  -> Srl(x, Amount(y))
    [] op = "sra"  -> Sra(x, Amount(y))
    [] op \in MulDivOps   -> MulDiv(op, x, y)
    [] op \in BitManipOps -> BitManip(op, x, y, b)

\* Only auipc looks at the pc.
LEMMA ResultIsPlain ==
  ASSUME NEW op \in Computed, op # "auipc", NEW x, NEW y, NEW b
  PROVE  Result(op, x, y, b) = Plain(op, x, y, b)
<1>1. CASE op \in MulDivOps
  BY <1>1, Zenon DEF Result, Plain, IntegerOps, MulDivOps, BitManipOps
<1>2. CASE op \in BitManipOps
  BY <1>2, Zenon DEF Result, Plain, IntegerOps, MulDivOps, BitManipOps
<1>3. CASE op \in IntegerOps
  BY <1>3, Zenon DEF Result, Plain, Integer, IntegerOps, MulDivOps, BitManipOps
<1> QED
  BY <1>1, <1>2, <1>3 DEF Computed

\* Its value for each of the integer operations, by name.
LEMMA IntegerResults ==
  ASSUME NEW x, NEW y, NEW b
  PROVE  /\ Plain("lui", x, y, b) = y
         /\ Plain("add", x, y, b) = Wrap(x + y)
         /\ Plain("sub", x, y, b) = Wrap(x - y)
         /\ Plain("slt", x, y, b) = Truth(Signed(x) < Signed(y))
         /\ Plain("sltu", x, y, b) = Truth(x < y)
         /\ Plain("xor", x, y, b) = Xor(x, y)
         /\ Plain("or", x, y, b) = Or(x, y)
         /\ Plain("and", x, y, b) = And(x, y)
         /\ Plain("sll", x, y, b) = Sll(x, Amount(y))
         /\ Plain("srl", x, y, b) = Srl(x, Amount(y))
         /\ Plain("sra", x, y, b) = Sra(x, Amount(y))
BY Zenon DEF Plain, MulDivOps, BitManipOps

\* For each of the multiplications and divisions.
LEMMA MulDivResults ==
  ASSUME NEW x, NEW y, NEW b
  PROVE  /\ Plain("mul", x, y, b) = Wrap(x * y)
         /\ Plain("mulh", x, y, b) = High(Signed(x) * Signed(y))
         /\ Plain("mulhsu", x, y, b) = Mulhsu(x, y)
         /\ Plain("mulhu", x, y, b) = High(x * y)
         /\ Plain("div", x, y, b) = DivOf(x, y)
         /\ Plain("divu", x, y, b) = UnsignedDiv(x, y)
         /\ Plain("rem", x, y, b) = RemOf(x, y)
         /\ Plain("remu", x, y, b) = UnsignedRem(x, y)
BY Zenon DEF Plain, MulDivOps, BitManipOps, MulDiv, DivOf, RemOf

\* And for each of the operations on bits.
LEMMA BitManipResults ==
  ASSUME NEW x, NEW y, NEW b
  PROVE  /\ Plain("sh1add", x, y, b) = Wrap(y + Sll(x, 1))
         /\ Plain("sh2add", x, y, b) = Wrap(y + Sll(x, 2))
         /\ Plain("sh3add", x, y, b) = Wrap(y + Sll(x, 3))
         /\ Plain("xnor", x, y, b) = Flip(Xor(x, y))
         /\ Plain("orn", x, y, b) = Or(x, Flip(y))
         /\ Plain("andn", x, y, b) = And(x, Flip(y))
         /\ Plain("rol", x, y, b) = Rol(x, Amount(y), b)
         /\ Plain("ror", x, y, b) = Ror(x, Amount(y), b)
         /\ Plain("bset", x, y, b) = Or(x, Power[Amount(y)])
         /\ Plain("bclr", x, y, b) = And(x, Flip(Power[Amount(y)]))
         /\ Plain("binv", x, y, b) = Xor(x, Power[Amount(y)])
         /\ Plain("bext", x, y, b) = Bit(x, Amount(y))
         /\ Plain("min", x, y, b) = (IF Signed(x) < Signed(y) THEN x ELSE y)
         /\ Plain("minu", x, y, b) = (IF x < y THEN x ELSE y)
         /\ Plain("max", x, y, b) = (IF Signed(x) > Signed(y) THEN x ELSE y)
         /\ Plain("maxu", x, y, b) = (IF x > y THEN x ELSE y)
         /\ Plain("pack", x, y, b) = Pack(x, y)
         /\ Plain("packh", x, y, b) = Packh(x, y)
         /\ Plain("clmul", x, y, b) = Clmul(x, y)
         /\ Plain("clmulr", x, y, b) = Clmulr(x, y)
         /\ Plain("clmulh", x, y, b) = Clmulh(x, y)
         /\ Plain("clz", x, y, b) = Clz(x)
         /\ Plain("ctz", x, y, b) = Ctz(x)
         /\ Plain("pcnt", x, y, b) = Pcnt(x)
         /\ Plain("sext_b", x, y, b) = Sext(x, Byte)
         /\ Plain("sext_h", x, y, b) = Sext(x, Half)
         /\ Plain("rev8", x, y, b) = Rev8(x)
         /\ Plain("orcb", x, y, b) = Orcb(x)
BY Zenon DEF Plain, MulDivOps, BitManipOps, BitManip

-----------------------------------------------------------------------------
(* Straight programs.                                                      *)

\* By name, the operations on two words.
LEMMA Names ==
  /\ Computed \cap FloatOps = {} /\ Computed \cap BranchOps = {}
  /\ Computed \cap Rounds = {} /\ FloatOps \cap Rounds = {}
  /\ FloatOps \cap BranchOps = {}
  /\ Computed \cap {"jal", "jalr", "fence", "unlisted"} = {}
  /\ FloatOps \cap {"jal", "jalr", "fence", "unlisted"} = {}
  /\ Rounds \cap {"jal", "jalr", "fence", "unlisted"} = {}
  /\ BranchOps \cap {"jal", "jalr", "fence", "unlisted"} = {}
BY DEF Computed, IntegerOps, MulDivOps, BitManipOps, BranchOps, FloatOps, Rounds

\* What a program runs on: its registers, of which two hold the operands.
StraightOps == (Computed \ {"auipc"}) \cup FloatOps \cup {"fence", "unlisted"}

\* A program without branches and jumps, that leaves its operands alone.
Straight(code) ==
  \A i \in 1 .. Len(code) :
    code[i].op \in StraightOps /\ code[i].rd \in Registers \ {1, 2}

\* Its second operand.
Second(ins, g) == IF "imm" \in DOMAIN ins THEN ins.imm ELSE g[ins.r2]

\* An instruction takes the registers from g to h.
Does(ins, g, h) ==
  /\ h[0] = 0 /\ \A r \in Registers \ {ins.rd} : h[r] = g[r]
  /\ ins.rd # 0 =>
       /\ ins.op \in Computed =>
            \E b \in Beyond(g[ins.r1]) :
              h[ins.rd] = Plain(ins.op, g[ins.r1], Second(ins, g), b)
       /\ ins.op \in FloatOps =>
            h[ins.rd] = Float(ins.op, g[ins.r1], Second(ins, g))
       /\ ins.op \in {"fence", "unlisted"} => h[ins.rd] = g[ins.rd]

\* It raises the invalid flag.
Raises(ins, g) ==
  ins.op \in FloatOps /\ Invalid(ins.op, g[ins.r1], Second(ins, g))

\* One instruction of a straight program does what Does says of it.
LEMMA StraightStep ==
  ASSUME Next, Kept, NEW k, At(k), Code[k + 1].op \in StraightOps,
         Code[k + 1].rd \in Registers \ {1, 2}
  PROVE  /\ Kept' /\ pc' = 4 * (k + 1) /\ program' = program
         /\ gpr'[1] = gpr[1] /\ gpr'[2] = gpr[2]
         /\ Does(Code[k + 1], gpr, gpr')
         /\ fcsr_nv' = (fcsr_nv \/ Raises(Code[k + 1], gpr))
<1> DEFINE ins == Code[k + 1]
           x == gpr[ins.r1]
           y == Second(ins, gpr)
<1>1. NextPc = 4 * (k + 1) /\ Instruction = ins
  BY PlaceIs
<1>2. Rdata1 = x /\ Rdata2 = y
  BY <1>1 DEF Rdata1, Rdata2, Second
<1>3. ins.op \notin BranchOps \cup Rounds \cup {"jal", "jalr"}
  BY Names DEF StraightOps, Rounds, BranchOps
<1>4. ASSUME NEW v, gpr' = Written(ins.rd, v)
      PROVE  /\ gpr' = [r \in Registers |-> gpr'[r]]
             /\ gpr'[0] = 0 /\ \A r \in Registers \ {ins.rd} : gpr'[r] = gpr[r]
             /\ ins.rd # 0 => gpr'[ins.rd] = v
  <2> DEFINE w == IF ins.rd = 0 THEN 0 ELSE v
  <2>1. gpr' = [gpr EXCEPT ![ins.rd] = w]
    BY <1>4 DEF Written
  <2> HIDE DEF w
  <2>2. gpr' = [r \in Registers |-> IF r = ins.rd THEN w ELSE gpr[r]]
    BY <2>1 DEF Kept
  <2>3. ins.rd \in Registers /\ 0 \in Registers /\ gpr[0] = 0
    BY DEF Registers, Kept
  <2> HIDE DEF ins
  <2>4. gpr'[0] = 0
    <3>1. ins.rd = 0 => w = 0
      BY DEF w
    <3> QED
      BY <2>2, <2>3, <3>1
  <2>5. ins.rd # 0 => w = v
    BY DEF w
  <2> QED
    BY <2>2, <2>3, <2>4, <2>5
<1>10. fcsr_nv \in BOOLEAN
  BY DEF Kept
<1> HIDE DEF ins, x, y
<1>5. CASE ins.op \in Computed \ {"auipc"}
  <2>1. Compute /\ ins.op \notin FloatOps /\ ins.op \notin {"fence", "unlisted"}
    BY <1>1, <1>5, Names DEF Next, Branch, Jump, FloatStep, IllegalFloat,
       Nothing
  <2>2. PICK b \in Beyond(x) : gpr' = Written(ins.rd, Result(ins.op, x, y, b))
    BY <1>1, <1>2, <2>1 DEF Compute, Result, x, y
  <2>3. Result(ins.op, x, y, b) = Plain(ins.op, x, y, b)
    BY <1>5, ResultIsPlain
  <2>4. pc' = NextPc /\ program' = program /\ fcsr_nv' = fcsr_nv
    BY <2>1 DEF Compute, Proceeds
  <2>5. Does(ins, gpr, gpr')
    BY <1>4, <2>1, <2>2, <2>3 DEF Does, x, y
  <2>6. fcsr_nv' = (fcsr_nv \/ Raises(ins, gpr))
    BY <2>1, <2>4 DEF Raises, Kept
  <2> QED
    BY <1>1, <1>4, <2>2, <2>4, <2>5, <2>6 DEF Kept, Registers, ins
<1>6. CASE ins.op \in FloatOps
  <2>1. FloatStep /\ ins.op \notin Computed /\ ins.op \notin {"fence", "unlisted"}
    BY <1>1, <1>3, <1>6, Names
       DEF Next, Branch, Jump, Compute, Computed, IllegalFloat, Nothing
  <2>2. /\ gpr' = Written(ins.rd, Float(ins.op, x, y))
        /\ fcsr_nv' = (fcsr_nv \/ Invalid(ins.op, x, y))
    BY <1>1, <1>2, <1>3, <2>1 DEF FloatStep, x, y
  <2>4. pc' = NextPc /\ program' = program
    BY <2>1 DEF FloatStep, Proceeds
  <2>5. Does(ins, gpr, gpr')
    BY <1>4, <2>1, <2>2 DEF Does, x, y
  <2>6. fcsr_nv' = (fcsr_nv \/ Raises(ins, gpr))
    BY <1>6, <2>2 DEF Raises, x, y
  <2> QED
    BY <1>1, <1>4, <2>2, <2>4, <2>5, <2>6 DEF Kept, Registers, ins
<1>7. CASE ins.op \in {"fence", "unlisted"}
  <2>1. Nothing /\ ins.op \notin Computed /\ ins.op \notin FloatOps
    BY <1>1, <1>3, <1>7, Names
       DEF Next, Branch, Jump, Compute, Computed, FloatStep, IllegalFloat
  <2>2. gpr' = gpr /\ pc' = NextPc /\ program' = program /\ fcsr_nv' = fcsr_nv
    BY <2>1 DEF Nothing, Proceeds
  <2>5. Does(ins, gpr, gpr')
    BY <2>1, <2>2 DEF Does, Kept
  <2>6. fcsr_nv' = (fcsr_nv \/ Raises(ins, gpr))
    BY <2>1, <2>2 DEF Raises, Kept
  <2> QED
    BY <1>1, <2>2, <2>5, <2>6 DEF Kept, Registers, ins
<1> QED
  BY <1>5, <1>6, <1>7 DEF StraightOps, ins

\* A straight program has run to place k, with the registers h[i] before its
\* instruction i.
Run(h, k) ==
  /\ \A r \in 3 .. 9 : h[0][r] = 0
  /\ h[k] = gpr
  /\ \A i \in 0 .. k : h[i][0] = 0 /\ h[i][1] = gpr[1] /\ h[i][2] = gpr[2]
  /\ \A i \in 0 .. k - 1 : Does(Code[i + 1], h[i], h[i + 1])
  /\ fcsr_nv <=> \E i \in 0 .. k - 1 : Raises(Code[i + 1], h[i])

\* Where a straight program is, some run has led to.
StraightInv ==
  Straight(Code) /\ Len(Code) \in Nat =>
    Kept /\ \E k \in 0 .. Len(Code) : pc = 4 * k /\ \E h : Run(h, k)

\* A program starts at 0 with its operands in registers 1 and 2, the rest 0.
LEMMA InitKept == Init => Kept /\ pc = 0 /\ fcsr_nv = FALSE /\
                          \A r \in 3 .. 9 : gpr[r] = 0
<1> SUFFICES ASSUME Init
             PROVE  Kept /\ pc = 0 /\ fcsr_nv = FALSE /\
                    \A r \in 3 .. 9 : gpr[r] = 0
  OBVIOUS
<1>1. PICK x \in Operands, y \in Operands :
        gpr = [r \in Registers |-> CASE r = 1 -> x [] r = 2 -> y [] OTHER -> 0]
  BY DEF Init
<1>2. x \in Word /\ y \in Word
  BY RV32IMAssumption
<1>3. \A r \in Registers :
        gpr[r] = CASE r = 1 -> x [] r = 2 -> y [] OTHER -> 0
  BY <1>1
<1>4. /\ gpr = [r \in Registers |-> gpr[r]]
      /\ 1 \in Registers /\ 2 \in Registers /\ 0 \in Registers
      /\ \A r \in 3 .. 9 : r \in Registers /\ r # 1 /\ r # 2
      /\ 0 # 1 /\ 0 # 2 /\ 1 # 2
  BY <1>1 DEF Registers
<1>5. gpr[1] = x /\ gpr[2] = y
  BY <1>3, <1>4, Zenon
<1>6. gpr[0] = 0 /\ \A r \in 3 .. 9 : gpr[r] = 0
  BY <1>3, <1>4, Zenon
<1> QED
  BY <1>2, <1>4, <1>5, <1>6 DEF Init, Kept

\* A straight program starts with the empty run,
LEMMA InitRun == Init => StraightInv
<1> SUFFICES ASSUME Init, Len(Code) \in Nat
             PROVE  Kept /\ \E k \in 0 .. Len(Code) : pc = 4 * k /\ \E h : Run(h, k)
  BY DEF StraightInv
<1>1. /\ Kept /\ pc = 4 * 0 /\ fcsr_nv = FALSE
      /\ \A r \in 3 .. 9 : gpr[r] = 0
  BY InitKept
<1> DEFINE h == [i \in 0 .. 0 |-> gpr]
<1>2. Run(h, 0)
  BY <1>1 DEF Run, Kept
<1> HIDE DEF h
<1> QED
  BY <1>1, <1>2

\* and every instruction makes its run one longer.
LEMMA NextRun == StraightInv /\ Next => StraightInv'
<1> SUFFICES ASSUME StraightInv, Next, Straight(Code), Len(Code) \in Nat
             PROVE  /\ Kept'
                    /\ \E k \in 0 .. Len(Code) :
                         pc' = 4 * k /\ \E h : Run(h, k)'
  BY ProgramStays DEF StraightInv, Code
<1>1. Kept
  BY DEF StraightInv
<1>2. PICK k \in 0 .. Len(Code) : pc = 4 * k /\ \E h : Run(h, k)
  BY DEF StraightInv
<1>3. PICK h : Run(h, k)
  BY <1>2
<1>4. At(k) /\ k + 1 \in 0 .. Len(Code) /\ k + 1 \in 1 .. Len(Code)
  <2>1. ~Ended
    BY DEF Next
  <2>2. At(k)
    BY <1>2, <2>1, PlaceOf
  <2> QED
    BY <2>2 DEF At
<1>5. /\ Kept' /\ pc' = 4 * (k + 1) /\ program' = program
      /\ gpr'[1] = gpr[1] /\ gpr'[2] = gpr[2]
      /\ Does(Code[k + 1], gpr, gpr')
      /\ fcsr_nv' = (fcsr_nv \/ Raises(Code[k + 1], gpr))
  BY <1>1, <1>4, StraightStep DEF Straight
<1>6. PICK h2 : h2[k + 1] = gpr' /\ \A i \in 0 .. k : h2[i] = h[i]
  <2> DEFINE f == [i \in 0 .. k + 1 |-> IF i = k + 1 THEN gpr' ELSE h[i]]
  <2>1. f[k + 1] = gpr' /\ \A i \in 0 .. k : f[i] = h[i]
    OBVIOUS
  <2> QED
    BY <2>1
<1>12. /\ k \in Nat /\ 0 \in 0 .. k /\ k \in 0 .. k
       /\ \A i \in 0 .. k + 1 : i = k + 1 \/ i \in 0 .. k
       /\ \A i \in 0 .. k - 1 : i \in 0 .. k /\ i + 1 \in 0 .. k
  BY <1>4
<1>7. /\ \A r \in 3 .. 9 : h2[0][r] = 0
      /\ \A i \in 0 .. k + 1 :
           h2[i][0] = 0 /\ h2[i][1] = gpr'[1] /\ h2[i][2] = gpr'[2]
  <2>1. \A r \in 3 .. 9 : h2[0][r] = 0
    BY <1>3, <1>6, <1>12 DEF Run
  <2>2. ASSUME NEW i \in 0 .. k + 1
        PROVE  h2[i][0] = 0 /\ h2[i][1] = gpr'[1] /\ h2[i][2] = gpr'[2]
    <3>1. CASE i = k + 1
      BY <1>5, <1>6, <3>1 DEF Kept
    <3>2. CASE i \in 0 .. k
      BY <1>3, <1>5, <1>6, <3>2 DEF Run
    <3> QED
      BY <1>12, <3>1, <3>2
  <2> QED
    BY <2>1, <2>2
<1>8. /\ h2[k] = gpr
      /\ \A i \in 0 .. k - 1 : h2[i] = h[i] /\ h2[i + 1] = h[i + 1]
  BY <1>3, <1>6, <1>12 DEF Run
<1>9. \A i \in 0 .. k : Does(Code[i + 1], h2[i], h2[i + 1])
  <2>1. \A i \in 0 .. k - 1 : Does(Code[i + 1], h2[i], h2[i + 1])
    BY <1>3, <1>8 DEF Run
  <2>2. Does(Code[k + 1], h2[k], h2[k + 1])
    BY <1>5, <1>6, <1>8
  <2> QED
    BY <2>1, <2>2
<1>10. fcsr_nv' <=> \E i \in 0 .. k : Raises(Code[i + 1], h2[i])
  <2>1. fcsr_nv <=> \E i \in 0 .. k - 1 : Raises(Code[i + 1], h2[i])
    BY <1>3, <1>8 DEF Run
  <2>2. fcsr_nv' <=> (fcsr_nv \/ Raises(Code[k + 1], h2[k]))
    BY <1>5, <1>8
  <2> QED
    BY <2>1, <2>2
<1>11. Run(h2, k + 1)'
  <2>1. Code' = Code /\ (k + 1) - 1 = k
    BY <1>5 DEF Code
  <2>2. \A i \in 0 .. (k + 1) - 1 : Does(Code'[i + 1], h2[i], h2[i + 1])
    BY <1>9, <2>1
  <2>3. fcsr_nv' <=> \E i \in 0 .. (k + 1) - 1 : Raises(Code'[i + 1], h2[i])
    BY <1>10, <2>1
  <2> QED
    BY <1>6, <1>7, <2>2, <2>3 DEF Run
<1> QED
  BY <1>4, <1>5, <1>11

\* What an instruction of two registers, or of one and an immediate, has done
\* at the end.
LEMMA Done ==
  ASSUME NEW h, NEW k \in Nat, Run(h, k), NEW i \in 0 .. k - 1
  PROVE  /\ Does(Code[i + 1], h[i], h[i + 1])
         /\ \A r \in Registers \ {Code[i + 1].rd} : h[i + 1][r] = h[i][r]
BY DEF Run, Does

\* A straight program that has ended has run.
LEMMA Ran ==
  ASSUME StraightInv, Straight(Code), NEW n \in Nat, Len(Code) = n, Ended
  PROVE  Kept /\ \E h : Run(h, n)
<1>1. PICK k \in 0 .. Len(Code) : pc = 4 * k /\ \E h : Run(h, k)
  BY DEF StraightInv
<1>2. k = Len(Code)
  <2>1. pc \div 4 = k
    BY <1>1
  <2> QED
    BY <2>1 DEF Ended
<1> QED
  BY <1>1, <1>2 DEF StraightInv

\* The parts of an instruction.
\* An instruction changes no register but its destination.
LEMMA Frame ==
  ASSUME NEW h, NEW k \in Nat, Run(h, k)
  PROVE  \A i \in 1 .. k :
           \A r \in Registers \ {Code[i].rd} : h[i][r] = h[i - 1][r]
<1> SUFFICES ASSUME NEW i \in 1 .. k
             PROVE  \A r \in Registers \ {Code[i].rd} : h[i][r] = h[i - 1][r]
  OBVIOUS
<1>1. i - 1 \in 0 .. k - 1 /\ (i - 1) + 1 = i
  OBVIOUS
<1>2. \A r \in Registers \ {Code[(i - 1) + 1].rd} : h[(i - 1) + 1][r] = h[i - 1][r]
  BY <1>1, Done
<1> QED
  BY <1>1, <1>2

\* The parts of the instructions of the programs.
LEMMA OpParts ==
  /\ \A op, rd, r1, r2 :
       /\ Op(op, rd, r1, r2).op = op /\ Op(op, rd, r1, r2).rd = rd
       /\ Op(op, rd, r1, r2).r1 = r1
       /\ \A g : Second(Op(op, rd, r1, r2), g) = g[r2]
  /\ \A op, rd, r1, imm :
       /\ OpImm(op, rd, r1, imm).op = op /\ OpImm(op, rd, r1, imm).rd = rd
       /\ OpImm(op, rd, r1, imm).r1 = r1
       /\ \A g : Second(OpImm(op, rd, r1, imm), g) = Wrap(imm)
  /\ \A op, rd, rm :
       /\ Fp(op, rd, rm).op = op /\ Fp(op, rd, rm).rd = rd
       /\ Fp(op, rd, rm).r1 = 1
       /\ \A g : Second(Fp(op, rd, rm), g) = g[2]
BY DEF Op, OpImm, Fp, Second

\* What a computation of two registers, or of one and an immediate, has done.
LEMMA OpDone ==
  ASSUME NEW h, NEW k \in Nat, Run(h, k), NEW i \in 0 .. k - 1,
         NEW op \in Computed, NEW rd \in 3 .. 9, NEW r1, NEW r2,
         Code[i + 1] = Op(op, rd, r1, r2)
  PROVE  /\ \E b \in Beyond(h[i][r1]) :
              h[i + 1][rd] = Plain(op, h[i][r1], h[i][r2], b)
         /\ \A r \in Registers \ {rd} : h[i + 1][r] = h[i][r]
<1>1. Does(Op(op, rd, r1, r2), h[i], h[i + 1])
  BY DEF Run
<1> QED
  BY <1>1, OpParts DEF Does

\* And of one with an immediate.
LEMMA OpImmDone ==
  ASSUME NEW h, NEW k \in Nat, Run(h, k), NEW i \in 0 .. k - 1,
         NEW op \in Computed, NEW rd \in 3 .. 9, NEW r1, NEW imm,
         Code[i + 1] = OpImm(op, rd, r1, imm)
  PROVE  /\ \E b \in Beyond(h[i][r1]) :
              h[i + 1][rd] = Plain(op, h[i][r1], Wrap(imm), b)
         /\ \A r \in Registers \ {rd} : h[i + 1][r] = h[i][r]
<1>1. Does(OpImm(op, rd, r1, imm), h[i], h[i + 1])
  BY DEF Run
<1> QED
  BY <1>1, OpParts DEF Does


\* And what it has left alone.
LEMMA OpFrame ==
  ASSUME NEW h, NEW k \in Nat, Run(h, k), NEW i \in 0 .. k - 1,
         NEW op, NEW rd, NEW r1, NEW r2, Code[i + 1] = Op(op, rd, r1, r2)
  PROVE  \A r \in Registers \ {rd} : h[i + 1][r] = h[i][r]
<1>1. Does(Op(op, rd, r1, r2), h[i], h[i + 1])
  BY DEF Run
<1> QED
  BY <1>1, OpParts DEF Does

\* And one with an immediate.
LEMMA OpImmFrame ==
  ASSUME NEW h, NEW k \in Nat, Run(h, k), NEW i \in 0 .. k - 1,
         NEW op, NEW rd, NEW r1, NEW imm, Code[i + 1] = OpImm(op, rd, r1, imm)
  PROVE  \A r \in Registers \ {rd} : h[i + 1][r] = h[i][r]
<1>1. Does(OpImm(op, rd, r1, imm), h[i], h[i + 1])
  BY DEF Run
<1> QED
  BY <1>1, OpParts DEF Does

-----------------------------------------------------------------------------
(* Products and powers.                                                    *)

\* Signed products stay in their bounds.
LEMMA ProductBound ==
  ASSUME NEW a \in Int, NEW b \in Int, NEW p \in Nat, NEW q \in Nat,
         -p <= a, a <= p, -q <= b, b <= q
  PROVE  a * b \in Int /\ -(p * q) <= a * b /\ a * b <= p * q
<1>1. ASSUME NEW m \in Nat, NEW n \in Nat
      PROVE  m * n \in Nat
  OBVIOUS
<1>2. CASE b >= 0
  <2>1. (p - a) * b \in Nat /\ (p + a) * b \in Nat /\ p * (q - b) \in Nat
    BY <1>1, <1>2
  <2>2. /\ (p - a) * b = p * b - a * b /\ (p + a) * b = p * b + a * b
        /\ p * (q - b) = p * q - p * b
    OBVIOUS
  <2>3. a * b \in Int /\ p * b \in Int /\ p * q \in Int
    OBVIOUS
  <2> QED
    BY <2>1, <2>2, <2>3
<1>3. CASE b < 0
  <2> DEFINE c == -b
  <2>1. (p - a) * c \in Nat /\ (p + a) * c \in Nat /\ p * (q - c) \in Nat
    BY <1>1, <1>3
  <2>2. /\ (p - a) * c = p * c - a * c /\ (p + a) * c = p * c + a * c
        /\ p * (q - c) = p * q - p * c
    OBVIOUS
  <2>3. a * b = -(a * c) /\ a * c \in Int /\ p * c \in Int /\ p * q \in Int
    OBVIOUS
  <2> HIDE DEF c
  <2> QED
    BY <2>1, <2>2, <2>3
<1> QED
  BY <1>2, <1>3

\* A quotient by a positive number is between those of its bounds.
LEMMA QuotientBound ==
  ASSUME NEW d \in Nat \ {0}, NEW n \in Int, NEW l \in Int, NEW u \in Int,
         d * l <= n, n < d * u
  PROVE  n \div d \in Int /\ l <= n \div d /\ n \div d < u
<1> DEFINE q == n \div d
           r == n % d
<1>1. q \in Int /\ r \in 0 .. d - 1 /\ n = d * q + r
  OBVIOUS
<1> HIDE DEF q, r
<1>2. d * q \in Int /\ d * l \in Int /\ d * u \in Int
  BY <1>1
<1>3. ASSUME NEW m \in Int, NEW k \in Int, m >= k + 1
      PROVE  d * m >= d * k + d
  <2>1. d * (m - k - 1) \in Nat
    BY <1>3
  <2>2. d * (m - k - 1) = d * m - d * k - d /\ d * m \in Int /\ d * k \in Int
    OBVIOUS
  <2> QED
    BY <2>1, <2>2
<1>4. l <= q
  <2>1. SUFFICES ASSUME l >= q + 1
                 PROVE  FALSE
    BY <1>1
  <2>2. d * l >= d * q + d
    BY <1>1, <1>3, <2>1
  <2> QED
    BY <1>1, <1>2, <2>2
<1>5. q < u
  <2>1. SUFFICES ASSUME q >= u
                 PROVE  FALSE
    BY <1>1
  <2>2. d * q >= d * u
    <3>1. CASE q = u
      BY <1>2, <3>1
    <3>2. CASE q >= u + 1
      BY <1>1, <1>2, <1>3, <3>2
    <3> QED
      BY <1>1, <2>1, <3>1, <3>2
  <2> QED
    BY <1>1, <1>2, <2>2
<1> QED
  BY <1>1, <1>4, <1>5 DEF q

\* The two halves of a product, as a signed and an unsigned number.
LEMMA Halves ==
  ASSUME NEW n \in Int
  PROVE  /\ High(n) \in Word
         /\ -(Power[W] * Power[W - 1]) <= n /\ n < Power[W] * Power[W - 1] =>
              Signed(High(n)) * Power[W] + Wrap(n) = n
         /\ 0 <= n /\ n < Power[W] * Power[W] =>
              High(n) * Power[W] + Wrap(n) = n
<1> DEFINE d == Power[W]
           h == Power[W - 1]
           q == n \div d
<1>1. d \in Nat \ {0} /\ h \in Nat \ {0} /\ d = 2 * h /\ Word = 0 .. d - 1
  BY WrapIs
<1>2. High(n) = Wrap(q)
  BY DEF High
<1>3. Wrap(n) = (n % d)
  BY DEF Wrap
<1> HIDE DEF d, h
<1>4. q \in Int /\ n = q * d + (n % d) /\ (n % d) \in Int
  BY <1>1, <1>3
<1>5. High(n) \in Word
  BY <1>2, <1>4, WrapIs
<1>6. ASSUME -(d * h) <= n, n < d * h
      PROVE  Signed(High(n)) = q
  <2>1. d * (-h) = -(d * h) /\ -h \in Int
    BY <1>1
  <2>2. -h <= q /\ q < h
    BY <1>1, <1>6, <2>1, QuotientBound
  <2>3. q \in -h .. h - 1
    BY <1>1, <1>4, <2>2
  <2> QED
    BY <1>2, <2>3, SignedWrap DEF h
<1>7. ASSUME 0 <= n, n < d * d
      PROVE  High(n) = q
  <2>1. d * 0 = 0
    BY <1>1
  <2>2. 0 <= q /\ q < d
    BY <1>1, <1>7, <2>1, QuotientBound
  <2>3. q \in Word
    BY <1>1, <1>4, <2>2
  <2> QED
    BY <1>2, <2>3, WrapIs
<1> HIDE DEF q
<1> QED
  BY <1>3, <1>4, <1>5, <1>6, <1>7 DEF d, h

\* Products of words, with and without their signs.
LEMMA ProductsAreWhole ==
  ASSUME NEW x \in Word, NEW y \in Word
  PROVE  LET low == Wrap(x * y)
         IN /\ Signed(High(Signed(x) * Signed(y))) * Power[W] + low =
                 Signed(x) * Signed(y)
            /\ Signed(Mulhsu(x, y)) * Power[W] + low = Signed(x) * y
            /\ High(x * y) * Power[W] + low = x * y
<1> DEFINE d == Power[W]
           h == Power[W - 1]
           s == Signed(x)
           t == Signed(y)
<1>1. /\ d \in Nat \ {0} /\ h \in Nat \ {0} /\ d = 2 * h /\ Word = 0 .. d - 1
      /\ s \in -h .. h - 1 /\ t \in -h .. h - 1
  BY WrapIs, SignedIs
<1>2. x \in Int /\ y \in Int /\ s \in Int /\ t \in Int
  BY <1>1
<1>3. Wrap(s * t) = Wrap(x * y) /\ Wrap(s * y) = Wrap(x * y)
  <2>1. Wrap(s) = x /\ Wrap(t) = y /\ Wrap(x) = x /\ Wrap(y) = y
    BY WrapSigned, WrapIs
  <2> HIDE DEF s, t
  <2> QED
    BY <1>2, <2>1, WrapTimes
<1> HIDE DEF d, h, s, t
<1>4. /\ d * h = h * h + h * h /\ d * d = d * h + d * h
      /\ h * h \in Nat \ {0} /\ h * d = d * h
  BY <1>1
<1>5. /\ s * t \in Int /\ -(h * h) <= s * t /\ s * t <= h * h
  BY <1>1, <1>2, ProductBound
<1>6. -(h * d) <= s * y /\ s * y < h * d
  <2>1. s * y \in Int /\ -(h * (d - 1)) <= s * y /\ s * y <= h * (d - 1)
    BY <1>1, <1>2, ProductBound
  <2>2. h * (d - 1) = h * d - h /\ h * d \in Int
    BY <1>1
  <2> QED
    BY <1>1, <2>1, <2>2
<1>7. 0 <= x * y /\ x * y < d * d
  <2>1. x * y \in Int /\ x * y <= (d - 1) * (d - 1) /\ 0 <= x * y
    <3>1. x \in Nat /\ y \in Nat /\ x <= d - 1 /\ y <= d - 1 /\ d - 1 \in Nat
      BY <1>1
    <3>2. x * y \in Nat
      BY <3>1
    <3> QED
      BY <3>1, <3>2, ProductBound
  <2>2. (d - 1) * (d - 1) = d * d - d - d + 1 /\ d * d \in Int
    BY <1>1
  <2> QED
    BY <1>1, <2>1, <2>2
<1>8. Signed(High(s * t)) * d + Wrap(s * t) = s * t
  <2>1. -(d * h) <= s * t /\ s * t < d * h
    BY <1>1, <1>4, <1>5
  <2> QED
    BY <1>5, <2>1, Halves DEF d, h
<1>9. Signed(High(s * y)) * d + Wrap(s * y) = s * y
  <2>1. s * y \in Int /\ -(d * h) <= s * y /\ s * y < d * h
    BY <1>2, <1>4, <1>6
  <2> QED
    BY <2>1, Halves DEF d, h
<1>10. High(x * y) * d + Wrap(x * y) = x * y
  <2>1. x * y \in Int
    BY <1>2
  <2> QED
    BY <1>7, <2>1, Halves DEF d
<1> QED
  BY <1>3, <1>8, <1>9, <1>10 DEF Mulhsu, s, t, d

\* Powers of 2 that are words, in their order.
LEMMA PowersInOrder ==
  ASSUME NEW m \in Nat, NEW n \in Nat, m <= n
  PROVE  /\ Pow2[m] \in Nat \ {0} /\ Pow2[n] \in Nat \ {0}
         /\ Pow2[n] = Pow2[m] * Pow2[n - m] /\ Pow2[n - m] \in Nat \ {0}
         /\ Pow2[m] <= Pow2[n] /\ (m < n => 2 * Pow2[m] <= Pow2[n])
<1> DEFINE a == Pow2[m]
           b == Pow2[n - m]
           c == Pow2[n]
<1>1. n - m \in Nat /\ m + (n - m) = n
  OBVIOUS
<1>2. a \in Nat \ {0} /\ b \in Nat \ {0} /\ c \in Nat \ {0}
  BY <1>1, Pow2Type
<1>3. c = a * b
  BY <1>1, Pow2Plus
<1>4. m < n => b >= 2
  <2>1. SUFFICES ASSUME m < n
                 PROVE  b >= 2
    OBVIOUS
  <2>2. n - m - 1 \in Nat /\ n - m = (n - m - 1) + 1
    BY <2>1
  <2>3. Pow2[n - m] = 2 * Pow2[n - m - 1] /\ Pow2[n - m - 1] \in Nat \ {0}
    BY <2>2, Pow2Next
  <2> QED
    BY <2>3
<1> HIDE DEF a, b, c
<1>5. a * 1 <= a * b
  <2>1. a * (b - 1) \in Nat /\ a * (b - 1) = a * b - a /\ a * b \in Int
    BY <1>2
  <2> QED
    BY <1>2, <2>1
<1>6. b >= 2 => 2 * a <= a * b
  <2>1. SUFFICES ASSUME b >= 2
                 PROVE  2 * a <= a * b
    OBVIOUS
  <2>2. a * (b - 2) \in Nat /\ a * (b - 2) = a * b - 2 * a /\ a * b \in Int
    BY <1>2, <2>1
  <2> QED
    BY <1>2, <2>2
<1> QED
  BY <1>2, <1>3, <1>4, <1>5, <1>6 DEF a, b, c

\* A power of 2 below the width is a word.
LEMMA PowerInWord ==
  ASSUME NEW n \in 0 .. W - 1
  PROVE  /\ Power[n] = Pow2[n] /\ Power[n] \in Word /\ Wrap(Power[n]) = Power[n]
         /\ Power[n] \in Nat \ {0}
<1>1. /\ n \in Nat /\ W \in Nat /\ n < W /\ n \in 0 .. W /\ W \in 0 .. W
  BY WidthType
<1>2. Power[n] = Pow2[n] /\ Power[W] = Pow2[W]
  BY <1>1, WidthType
<1>3. Pow2[n] \in Nat \ {0} /\ Pow2[W] \in Nat /\ 2 * Pow2[n] <= Pow2[W]
  BY <1>1, PowersInOrder
<1>4. Pow2[n] \in 0 .. Pow2[W] - 1
  BY <1>3
<1> QED
  BY <1>2, <1>3, <1>4, WrapIs

\* A set of places below the width, as a number, is a word.
LEMMA NumberInWord ==
  ASSUME NEW x, NEW n \in Nat, n <= W
  PROVE  NumberOf(x, n) \in Word
<1> DEFINE v == NumberOf(x, n)
           a == Pow2[n]
           b == Pow2[W]
<1>1. W \in Nat /\ W \in 0 .. W /\ Power[W] = b
  BY WidthType
<1>2. v \in Nat /\ v < a
  BY NumberIs, NumberBelow
<1>3. a \in Nat /\ b \in Nat /\ a <= b
  BY <1>1, PowersInOrder
<1>4. Word = 0 .. b - 1
  BY <1>1, WrapIs
<1> HIDE DEF v, a, b
<1>5. v \in Word
  BY <1>2, <1>3, <1>4
<1> QED
  BY <1>5 DEF v

-----------------------------------------------------------------------------
(* Branches and jumps.                                                     *)

\* What each branch compares.
LEMMA BranchNames ==
  ASSUME NEW x, NEW y
  PROVE  /\ Takes("beq", x, y) <=> x = y
         /\ Takes("bne", x, y) <=> x # y
         /\ Takes("blt", x, y) <=> Signed(x) < Signed(y)
         /\ Takes("bge", x, y) <=> Signed(x) >= Signed(y)
         /\ Takes("bltu", x, y) <=> x < y
         /\ Takes("bgeu", x, y) <=> x >= y
BY Zenon DEF Takes

\* The places an offset leads to.
LEMMA TargetIs ==
  ASSUME Kept, NEW k, At(k), NEW j \in Int, k + j \in 0 .. Len(Code)
  PROVE  /\ Wrap(pc + 4 * j) = 4 * (k + j)
         /\ Wrap(pc + Wrap(4 * j)) = 4 * (k + j)
         /\ 4 * (k + j) \in Word
<1>1. 4 * Len(Code) < Power[W - 1]
  BY RV32IMAssumption DEF Code, Kept
<1>2. pc + 4 * j = 4 * (k + j) /\ 4 * (k + j) \in Word /\ pc \in Word /\ pc \in Int
      /\ 4 * j \in Int
  <2> DEFINE n == Len(Code)
             d == Power[W - 1]
             e == Power[W]
  <2>1. /\ n \in Nat /\ k \in 0 .. n - 1 /\ 4 * n < d /\ d \in Nat
        /\ e = 2 * d /\ Word = 0 .. e - 1 /\ pc = 4 * k /\ k + j \in 0 .. n
    BY <1>1, WrapIs DEF At
  <2> HIDE DEF n, d, e
  <2> QED
    BY <2>1
<1>3. Wrap(pc) = pc /\ Wrap(4 * (k + j)) = 4 * (k + j)
  BY <1>2, WrapIs
<1>4. Wrap(Wrap(pc) + Wrap(4 * j)) = Wrap(pc + 4 * j)
  BY <1>2, WrapAdd
<1> QED
  BY <1>2, <1>3, <1>4

\* A branch goes to the next place or to the one it names.
LEMMA BranchStep ==
  ASSUME Next, Kept, NEW k, At(k), NEW op \in BranchOps, NEW r1, NEW r2,
         NEW offset, Code[k + 1] = Br(op, r1, r2, offset)
  PROVE  /\ Kept' /\ program' = program /\ gpr' = gpr
         /\ Takes(op, gpr[r1], gpr[r2]) => pc' = Wrap(pc + offset)
         /\ ~Takes(op, gpr[r1], gpr[r2]) => pc' = 4 * (k + 1)
<1>1. NextPc = 4 * (k + 1) /\ Instruction = Br(op, r1, r2, offset)
  BY PlaceIs
<1>2. /\ Instruction.op = op /\ Instruction.r1 = r1 /\ Instruction.r2 = r2
      /\ Instruction.offset = offset /\ "imm" \notin DOMAIN Instruction
  BY <1>1 DEF Br
<1>3. Rdata1 = gpr[r1] /\ Rdata2 = gpr[r2]
  BY <1>2 DEF Rdata1, Rdata2
<1>4. Branch
  <2>1. /\ op \notin Computed /\ op \notin FloatOps /\ op \notin Rounds
        /\ op \notin {"jal", "jalr", "fence", "unlisted"}
    BY Names DEF BranchOps, Rounds
  <2> QED
    BY <1>2, <2>1
       DEF Next, Jump, Compute, Computed, FloatStep, IllegalFloat, Nothing
<1> QED
  BY <1>1, <1>2, <1>3, <1>4 DEF Branch, NotTaken, Kept

\* A jump leaves the place behind it in a register, or nowhere.
LEMMA JumpStep ==
  ASSUME Next, Kept, NEW k, At(k), NEW op \in {"jal", "jalr"},
         NEW rd \in Registers \ {1, 2}, NEW r1, NEW imm,
         Code[k + 1] = OpImm(op, rd, r1, imm)
  PROVE  /\ Kept' /\ program' = program
         /\ \A r \in Registers \ {rd} : gpr'[r] = gpr[r]
         /\ rd # 0 => gpr'[rd] = 4 * (k + 1)
         /\ op = "jal" => pc' = Wrap(pc + Wrap(imm))
         /\ op = "jalr" => pc' = JumpTarget(gpr[r1] + Wrap(imm))
<1>1. NextPc = 4 * (k + 1) /\ Instruction = OpImm(op, rd, r1, imm)
  BY PlaceIs
<1>2. /\ Instruction.op = op /\ Instruction.rd = rd
      /\ Rdata1 = gpr[r1] /\ Instruction.imm = Wrap(imm)
  BY <1>1, OpImmIs
<1>4. Jump
  BY <1>2, Names DEF Next, Branch, Compute, Computed, FloatStep, IllegalFloat,
                     Nothing
<1> DEFINE v == IF rd = 0 THEN 0 ELSE 4 * (k + 1)
<1>5. gpr' = [gpr EXCEPT ![rd] = v]
  BY <1>1, <1>2, <1>4 DEF Jump, Written
<1> HIDE DEF v
<1>6. gpr' = [r \in Registers |-> IF r = rd THEN v ELSE gpr[r]]
  BY <1>5 DEF Kept
<1>7. /\ rd \in Registers /\ 0 \in Registers /\ 1 \in Registers /\ 2 \in Registers
      /\ rd = 0 => v = 0
      /\ rd # 0 => v = 4 * (k + 1)
  BY DEF Registers, v
<1>8. /\ program' = program /\ fcsr_nv' = fcsr_nv
      /\ op = "jal" => pc' = Wrap(pc + Wrap(imm))
      /\ op = "jalr" => pc' = JumpTarget(gpr[r1] + Wrap(imm))
  BY <1>2, <1>4 DEF Jump, JumpBase
<1>9. /\ gpr' = [r \in Registers |-> gpr'[r]]
      /\ gpr'[0] = 0 /\ gpr'[1] = gpr[1] /\ gpr'[2] = gpr[2]
  BY <1>6, <1>7 DEF Kept
<1> QED
  BY <1>6, <1>7, <1>8, <1>9 DEF Kept

\* Computations, of two registers or of one and an immediate.
LEMMA OpStep ==
  ASSUME Next, Kept, NEW k, At(k),
         NEW op \in Computed, op # "auipc", NEW rd \in 3 .. 9, NEW r1, NEW r2,
         Code[k + 1] = Op(op, rd, r1, r2)
  PROVE  /\ Goes(k + 1, rd)
         /\ \E b \in Beyond(gpr[r1]) : gpr'[rd] = Plain(op, gpr[r1], gpr[r2], b)
<1>1. /\ Code[k + 1].op = op /\ Code[k + 1].rd = rd /\ Code[k + 1].r1 = r1
      /\ Second(Code[k + 1], gpr) = gpr[r2]
      /\ op \in StraightOps /\ rd \in Registers \ {1, 2} /\ rd # 0
  BY OpParts DEF StraightOps, Registers
<1>2. /\ Kept' /\ pc' = 4 * (k + 1) /\ program' = program
      /\ Does(Code[k + 1], gpr, gpr')
  BY <1>1, StraightStep
<1> QED
  BY <1>1, <1>2 DEF Does, Goes

\* And one with an immediate.
LEMMA OpImmStep ==
  ASSUME Next, Kept, NEW k, At(k),
         NEW op \in Computed, op # "auipc", NEW rd \in 3 .. 9, NEW r1, NEW imm,
         Code[k + 1] = OpImm(op, rd, r1, imm)
  PROVE  /\ Goes(k + 1, rd)
         /\ \E b \in Beyond(gpr[r1]) : gpr'[rd] = Plain(op, gpr[r1], Wrap(imm), b)
<1>1. /\ Code[k + 1].op = op /\ Code[k + 1].rd = rd /\ Code[k + 1].r1 = r1
      /\ Second(Code[k + 1], gpr) = Wrap(imm)
      /\ op \in StraightOps /\ rd \in Registers \ {1, 2} /\ rd # 0
  BY OpParts DEF StraightOps, Registers
<1>2. /\ Kept' /\ pc' = 4 * (k + 1) /\ program' = program
      /\ Does(Code[k + 1], gpr, gpr')
  BY <1>1, StraightStep
<1> QED
  BY <1>1, <1>2 DEF Does, Goes

\* The program of the branches.
LEMMA BranchesCode ==
  ASSUME Programs = LawPrograms, program = "branches"
  PROVE  /\ Len(Code) = 14
         /\ \A j \in 0 .. 5 :
              /\ Code[2 * j + 1] = Br(Branches[j + 1], 1, 2, 8)
              /\ Code[(2 * j + 1) + 1] = OpImm("add", 3, 3, Power[j])
              /\ Branches[j + 1] \in BranchOps
         /\ Code[13] = Op("slt", 4, 1, 2) /\ Code[14] = Op("sltu", 5, 1, 2)
         /\ {"add", "slt", "sltu"} \subseteq Computed
<1> DEFINE part(j) == <<Br(Branches[j], 1, 2, 8), OpImm("add", 3, 3, Power[j - 1])>>
<1>1. Code = BranchProgram \o <<Op("slt", 4, 1, 2), Op("sltu", 5, 1, 2)>>
  BY DEF Code, LawPrograms
<1>2. BranchProgram = part(1) \o part(2) \o part(3) \o part(4) \o part(5) \o part(6)
  BY DEF BranchProgram
<1>3. Len(Code) = 14
  BY <1>1, <1>2
<1>4. Code[13] = Op("slt", 4, 1, 2) /\ Code[14] = Op("sltu", 5, 1, 2)
  BY <1>1, <1>2
<1>5. /\ Code[1] = Br(Branches[1], 1, 2, 8) /\ Code[2] = OpImm("add", 3, 3, Power[0])
      /\ Code[3] = Br(Branches[2], 1, 2, 8) /\ Code[4] = OpImm("add", 3, 3, Power[1])
      /\ Code[5] = Br(Branches[3], 1, 2, 8) /\ Code[6] = OpImm("add", 3, 3, Power[2])
  BY <1>1, <1>2
<1>6. /\ Code[7] = Br(Branches[4], 1, 2, 8) /\ Code[8] = OpImm("add", 3, 3, Power[3])
      /\ Code[9] = Br(Branches[5], 1, 2, 8) /\ Code[10] = OpImm("add", 3, 3, Power[4])
      /\ Code[11] = Br(Branches[6], 1, 2, 8) /\ Code[12] = OpImm("add", 3, 3, Power[5])
  BY <1>1, <1>2
<1>7. ASSUME NEW j \in 0 .. 5
      PROVE  /\ Code[2 * j + 1] = Br(Branches[j + 1], 1, 2, 8)
             /\ Code[(2 * j + 1) + 1] = OpImm("add", 3, 3, Power[j])
             /\ Branches[j + 1] \in BranchOps
  <2> HIDE DEF part
  <2>1. j \in {0, 1, 2, 3, 4, 5}
    OBVIOUS
  <2>2. /\ Code[2 * j + 1] = Br(Branches[j + 1], 1, 2, 8)
        /\ Code[(2 * j + 1) + 1] = OpImm("add", 3, 3, Power[j])
    BY <1>5, <1>6, <2>1
  <2>3. Branches[j + 1] \in BranchOps
    BY <2>1 DEF Branches, BranchOps
  <2> QED
    BY <2>2, <2>3
<1>8. {"add", "slt", "sltu"} \subseteq Computed
  BY DEF Computed, IntegerOps
<1> QED
  BY <1>3, <1>4, <1>7, <1>8

\* The branches that are not taken, as the places of bits.
Missed == {j \in 0 .. 5 : ~Takes(Branches[j + 1], A, B)}

\* Register 3 has a bit for every branch passed that was not taken.
BranchesInv ==
  program = "branches" => Kept /\
    \/ \E j \in 0 .. 6 : pc = 4 * (2 * j) /\ gpr[3] = NumberOf(Missed, j)
    \/ \E j \in 0 .. 5 : /\ pc = 4 * (2 * j + 1)
                        /\ gpr[3] = NumberOf(Missed, j) /\ j \in Missed
    \/ /\ pc = 4 * 13 /\ gpr[3] = NumberOf(Missed, 6)
       /\ gpr[4] = Truth(Signed(A) < Signed(B))
    \/ /\ pc = 4 * 14 /\ gpr[3] = NumberOf(Missed, 6)
       /\ gpr[4] = Truth(Signed(A) < Signed(B)) /\ gpr[5] = Truth(A < B)

\* No branch is missed at the start,
LEMMA InitBranches == Init => BranchesInv
<1> SUFFICES ASSUME Init
             PROVE  BranchesInv
  OBVIOUS
<1>1. Kept /\ pc = 4 * (2 * 0) /\ gpr[3] = 0
  BY InitKept
<1>2. NumberOf(Missed, 0) = 0
  BY NumberIs
<1> QED
  BY <1>1, <1>2 DEF BranchesInv

\* and each adds its bit when it is not taken.
LEMMA NextBranches ==
  ASSUME Programs = LawPrograms, BranchesInv, Next
  PROVE  BranchesInv'
<1> SUFFICES ASSUME program = "branches"
             PROVE  BranchesInv'
  BY ProgramStays DEF BranchesInv
<1>1. Kept /\ ~Ended /\ program' = program
  BY ProgramStays DEF BranchesInv, Next
<1>2. Len(Code) = 14 /\ \A r \in {1, 2, 3, 4, 5} : r \in Registers
  BY BranchesCode DEF Registers
<1>3. ASSUME gpr'[1] = gpr[1], gpr'[2] = gpr[2]
      PROVE  Missed' = Missed
  BY <1>3 DEF Missed, A, B
<1>4. CASE \E j \in 0 .. 6 : pc = 4 * (2 * j) /\ gpr[3] = NumberOf(Missed, j)
  <2>1. PICK j \in 0 .. 6 : pc = 4 * (2 * j) /\ gpr[3] = NumberOf(Missed, j)
    BY <1>4
  <2>2. At(2 * j)
    BY <1>1, <1>2, <2>1, PlaceOf
  <2>3. CASE j = 6
    <3>1. Goes(13, 4) /\ gpr'[4] = Truth(Signed(A) < Signed(B))
      BY <1>1, <2>2, <2>3, BranchesCode, OpStep, IntegerResults DEF A, B
    <3>2. gpr'[1] = gpr[1] /\ gpr'[2] = gpr[2] /\ gpr'[3] = gpr[3]
      BY <1>2, <3>1 DEF Goes
    <3> QED
      BY <1>3, <2>1, <2>3, <3>1, <3>2 DEF BranchesInv, Goes, A, B
  <2>4. CASE j \in 0 .. 5
    <3>1. /\ Code[2 * j + 1] = Br(Branches[j + 1], 1, 2, 8)
          /\ Branches[j + 1] \in BranchOps /\ 2 * j + 2 \in 0 .. Len(Code)
      BY <1>2, <2>4, BranchesCode
    <3>2. /\ Kept' /\ program' = program /\ gpr' = gpr
          /\ Takes(Branches[j + 1], A, B) => pc' = 4 * (2 * j + 2)
          /\ ~Takes(Branches[j + 1], A, B) => pc' = 4 * (2 * j + 1)
      <4> DEFINE k == 2 * j
                 op == Branches[j + 1]
      <4>1. /\ At(k) /\ op \in BranchOps /\ Code[k + 1] = Br(op, 1, 2, 8)
        BY <2>2, <3>1
      <4>2. Wrap(pc + 4 * 2) = 4 * (k + 2)
        BY <1>1, <2>2, <3>1, TargetIs
      <4> HIDE DEF k, op
      <4>3. /\ Kept' /\ program' = program /\ gpr' = gpr
            /\ Takes(op, A, B) => pc' = Wrap(pc + 8)
            /\ ~Takes(op, A, B) => pc' = 4 * (k + 1)
        BY <1>1, <4>1, BranchStep DEF A, B
      <4> QED
        BY <4>2, <4>3 DEF k, op
    <3>3. Missed' = Missed
      BY <1>3, <3>2
    <3>4. CASE j \in Missed
      BY <2>1, <2>4, <3>2, <3>3, <3>4 DEF BranchesInv, Missed
    <3>5. CASE j \notin Missed
      <4>1. pc' = 4 * (2 * (j + 1)) /\ j + 1 \in 0 .. 6
        BY <2>4, <3>2, <3>5 DEF Missed
      <4>2. NumberOf(Missed, j + 1) = NumberOf(Missed, j)
        BY <2>4, <3>5, NumberNext
      <4> QED
        BY <2>1, <3>2, <3>3, <4>1, <4>2 DEF BranchesInv
    <3> QED
      BY <3>4, <3>5
  <2> QED
    BY <2>3, <2>4
<1>5. CASE \E j \in 0 .. 5 : /\ pc = 4 * (2 * j + 1)
                           /\ gpr[3] = NumberOf(Missed, j) /\ j \in Missed
  <2>1. PICK j \in 0 .. 5 : /\ pc = 4 * (2 * j + 1)
                           /\ gpr[3] = NumberOf(Missed, j) /\ j \in Missed
    BY <1>5
  <2>2. At(2 * j + 1) /\ 0 \in 0 .. 5 /\ j \in Nat
    BY <1>1, <1>2, <2>1, PlaceOf
  <2>3. Goes((2 * j + 1) + 1, 3) /\ gpr'[3] = Wrap(gpr[3] + Wrap(Power[j]))
    BY <1>1, <2>2, BranchesCode, OpImmStep, IntegerResults
  <2>4. gpr'[3] = NumberOf(Missed, j + 1)
    <3>1. /\ j \in 0 .. W - 1 /\ j + 1 <= W /\ W \in Nat /\ W \in 0 .. W
          /\ j + 1 \in Nat
      BY WidthType
    <3>2. Wrap(Power[j]) = Pow2[j] /\ Power[W] = Pow2[W]
      BY <3>1, PowerInWord, WidthType
    <3>3. gpr[3] + Pow2[j] = NumberOf(Missed, j + 1)
      BY <2>1, <2>2, NumberNext
    <3>4. NumberOf(Missed, j + 1) \in Word
      BY <3>1, NumberInWord
    <3>5. Wrap(gpr[3] + Wrap(Power[j])) = Wrap(NumberOf(Missed, j + 1))
      <4>1. gpr[3] + Wrap(Power[j]) = NumberOf(Missed, j + 1)
        BY <3>2, <3>3
      <4> QED
        BY <4>1
    <3> QED
      BY <2>3, <3>4, <3>5, WrapIs
  <2>5. gpr'[1] = gpr[1] /\ gpr'[2] = gpr[2]
    BY <1>2, <2>3 DEF Goes
  <2>6. pc' = 4 * (2 * (j + 1)) /\ j + 1 \in 0 .. 6 /\ Kept' /\ Missed' = Missed
    BY <1>3, <2>3, <2>5 DEF Goes
  <2> QED
    BY <2>4, <2>6 DEF BranchesInv
<1>6. CASE /\ pc = 4 * 13 /\ gpr[3] = NumberOf(Missed, 6)
           /\ gpr[4] = Truth(Signed(A) < Signed(B))
  <2>1. At(13)
    BY <1>1, <1>2, <1>6, PlaceOf
  <2>2. Goes(14, 5) /\ gpr'[5] = Truth(A < B)
    BY <1>1, <2>1, BranchesCode, OpStep, IntegerResults DEF A, B
  <2>3. gpr'[1] = gpr[1] /\ gpr'[2] = gpr[2] /\ gpr'[3] = gpr[3] /\ gpr'[4] = gpr[4]
    BY <1>2, <2>2 DEF Goes
  <2> QED
    BY <1>3, <1>6, <2>2, <2>3 DEF BranchesInv, Goes, A, B
<1>7. CASE pc = 4 * 14
  <2>1. At(14)
    BY <1>1, <1>2, <1>7, PlaceOf
  <2> QED
    BY <1>2, <2>1 DEF At
<1> QED
  BY <1>4, <1>5, <1>6, <1>7 DEF BranchesInv

-----------------------------------------------------------------------------
(* Words as sets of bits.                                                  *)

\* The rest by a power of 2 grows by its next bit.
LEMMA RestNext ==
  ASSUME NEW x \in Nat, NEW n \in Nat
  PROVE  /\ (x \div Pow2[n]) % 2 \in {0, 1}
         /\ x % Pow2[n + 1] = (x % Pow2[n]) + Pow2[n] * ((x \div Pow2[n]) % 2)
<1> DEFINE d == Pow2[n]
           e == Pow2[n + 1]
           q == x \div d
           r == x % d
           b == q % 2
           p == q \div 2
<1>1. d \in Nat \ {0} /\ e = 2 * d
  BY Pow2Next
<1> HIDE DEF d, e
<1>2. q \in Nat /\ r \in 0 .. d - 1 /\ x = d * q + r
  BY <1>1
<1> HIDE DEF q, r
<1>3. p \in Nat /\ b \in 0 .. 1 /\ q = 2 * p + b
  BY <1>2
<1> HIDE DEF p, b
<1> DEFINE s == r + d * b
<1>4. s \in Nat /\ s < e
  <2>1. CASE b = 0
    BY <1>1, <1>2, <2>1
  <2>2. CASE b = 1
    BY <1>1, <1>2, <2>2
  <2> QED
    BY <1>3, <2>1, <2>2
<1>5. x = s + e * p
  <2>1. d * (2 * p + b) = 2 * (d * p) + d * b /\ e * p = 2 * (d * p)
    BY <1>1, <1>3
  <2>2. d * b \in Int /\ d * p \in Int /\ e * p \in Int
    BY <1>1, <1>3
  <2> QED
    BY <1>2, <1>3, <2>1, <2>2
<1> HIDE DEF s
<1>6. e \in Nat \ {0}
  BY <1>1
<1>7. (s + e * p) % e = s
  BY <1>3, <1>4, <1>6, DivMod
<1>8. x % e = s
  BY <1>5, <1>7
<1>9. b \in {0, 1} /\ s = r + d * b
  BY <1>3 DEF s
<1> QED
  BY <1>8, <1>9 DEF b, q, r, e, d

\* A number is the number of its bits.
LEMMA RestOfBits ==
  ASSUME NEW x \in Nat
  PROVE  \A n \in Nat : n <= W => x % Pow2[n] = NumberOf(SetBits(x), n)
<1> DEFINE G == {n \in Nat : n <= W => x % Pow2[n] = NumberOf(SetBits(x), n)}
<1>1. 0 \in G
  BY NumberIs, Pow2Is
<1>2. ASSUME NEW n \in Nat, n \in G
      PROVE  n + 1 \in G
  <2>1. SUFFICES ASSUME n + 1 <= W
                 PROVE  x % Pow2[n + 1] = NumberOf(SetBits(x), n + 1)
    OBVIOUS
  <2>2. n \in Positions /\ Power[n] = Pow2[n] /\ W \in Nat
    BY <2>1, WidthType DEF Positions
  <2>3. x % Pow2[n] = NumberOf(SetBits(x), n)
    BY <1>2, <2>1, <2>2
  <2> DEFINE b == (x \div Pow2[n]) % 2
             c == NumberOf(SetBits(x), n)
             d == Pow2[n]
  <2>4. n \in SetBits(x) <=> b = 1
    BY <2>2 DEF SetBits, Bit
  <2>5. b \in {0, 1} /\ x % Pow2[n + 1] = c + d * b
    BY <2>3, RestNext
  <2>6. c \in Nat /\ d \in Nat
    BY NumberIs, Pow2Is
  <2> HIDE DEF b, c, d
  <2>7. CASE b = 1
    <3>1. NumberOf(SetBits(x), n + 1) = c + d
      BY <2>4, <2>7, NumberNext DEF c, d
    <3> QED
      BY <2>5, <2>6, <2>7, <3>1
  <2>8. CASE b = 0
    <3>1. NumberOf(SetBits(x), n + 1) = c
      BY <2>4, <2>8, NumberNext DEF c
    <3> QED
      BY <2>5, <2>6, <2>8, <3>1
  <2> QED
    BY <2>5, <2>7, <2>8
<1> HIDE DEF G
<1>3. \A n \in Nat : n \in G
  BY <1>1, <1>2, Induction
<1> QED
  BY <1>3 DEF G

\* A word is the number of the places of its bits.
LEMMA BitsOfWord ==
  ASSUME NEW x \in Word
  PROVE  /\ OfBits(SetBits(x)) = x /\ NumberOf(SetBits(x), W) = x
         /\ SetBits(x) \subseteq Positions
         /\ \A i \in Positions : /\ Bit(x, i) \in {0, 1}
                                 /\ i \in SetBits(x) <=> Bit(x, i) = 1
                                 /\ i \notin SetBits(x) <=> Bit(x, i) = 0
<1>0. W \in Nat /\ W <= W /\ W \in 0 .. W
  BY WidthType
<1>1. W \in Nat /\ W <= W /\ x \in Nat /\ Power[W] = Pow2[W]
  <2>1. Power[W] = Pow2[W]
    BY <1>0, WidthType
  <2> DEFINE d == Power[W]
  <2>2. d \in Nat /\ x \in 0 .. d - 1
    BY WrapIs
  <2> HIDE DEF d
  <2>3. x \in Nat
    BY <2>2
  <2> QED
    BY <1>0, <2>1, <2>3
<1>2. x % Pow2[W] = NumberOf(SetBits(x), W)
  BY <1>1, RestOfBits
<1>3. x % Pow2[W] = x
  <2> DEFINE d == Pow2[W]
  <2>1. d \in Nat \ {0} /\ x \in 0 .. d - 1
    BY <1>1, WrapIs
  <2> HIDE DEF d
  <2>2. x % d = x
    BY <2>1
  <2> QED
    BY <2>2 DEF d
<1>4. ASSUME NEW i \in Positions
      PROVE  Bit(x, i) \in {0, 1} /\ (i \in SetBits(x) <=> Bit(x, i) = 1)
  <2>1. i \in Nat /\ Power[i] = Pow2[i]
    BY <1>1, WidthType DEF Positions
  <2>2. (x \div Pow2[i]) % 2 \in {0, 1}
    BY <1>1, <2>1, RestNext
  <2> QED
    BY <2>1, <2>2 DEF Bit, SetBits
<1> QED
  BY <1>2, <1>3, <1>4 DEF OfBits, SetBits

\* And the places of the bits of a word made of places are those.
LEMMA WordOfBits ==
  ASSUME NEW S
  PROVE  /\ OfBits(S) \in Word
         /\ SetBits(OfBits(S)) = S \cap Positions
<1>1. W \in Nat /\ OfBits(S) \in Word
  BY WidthType, NumberInWord DEF OfBits
<1>2. ASSUME NEW i \in Positions
      PROVE  Bit(OfBits(S), i) = 1 <=> i \in S
  <2>1. i \in 0 .. W - 1 /\ Power[i] = Pow2[i]
    BY WidthType DEF Positions
  <2> QED
    BY <1>1, <2>1, NumberBit DEF Bit, OfBits
<1> QED
  BY <1>1, <1>2 DEF SetBits

\* Two words with the same bits are the same.
LEMMA SameBits ==
  ASSUME NEW x \in Word, NEW y \in Word, SetBits(x) = SetBits(y)
  PROVE  x = y
BY BitsOfWord

\* The bitwise instructions, on sets.
LEMMA BitwiseIs ==
  ASSUME NEW x, NEW y
  PROVE  /\ And(x, y) \in Word /\ Or(x, y) \in Word /\ Xor(x, y) \in Word
         /\ SetBits(And(x, y)) = SetBits(x) \cap SetBits(y)
         /\ SetBits(Or(x, y)) = SetBits(x) \cup SetBits(y)
<1>1. SetBits(x) \subseteq Positions /\ SetBits(y) \subseteq Positions
  BY DEF SetBits
<1> QED
  BY <1>1, WordOfBits DEF And, Or, Xor

\* The same of the exclusive or, without the case distinction.
LEMMA XorIs ==
  ASSUME NEW x \in Word, NEW y \in Word
  PROVE  SetBits(Xor(x, y)) = (SetBits(x) \ SetBits(y)) \cup (SetBits(y) \ SetBits(x))
<1> DEFINE S == {i \in Positions : Bit(x, i) # Bit(y, i)}
<1>1. SetBits(Xor(x, y)) = S
  BY WordOfBits DEF Xor
<1>2. \A i \in Positions : i \in S <=> ~(i \in SetBits(x) <=> i \in SetBits(y))
  BY BitsOfWord
<1>3. S \subseteq Positions /\ SetBits(x) \subseteq Positions /\ SetBits(y) \subseteq Positions
  BY BitsOfWord
<1> HIDE DEF S
<1> QED
  BY <1>1, <1>2, <1>3

\* Numbers with no bit in common add up to the number of both.
LEMMA NumberDisjoint ==
  ASSUME NEW x, NEW y, x \cap y = {}
  PROVE  \A n \in Nat : NumberOf(x \cup y, n) = NumberOf(x, n) + NumberOf(y, n)
<1> DEFINE u(n) == NumberOf(x \cup y, n)
           v(n) == NumberOf(x, n)
           w(n) == NumberOf(y, n)
           G == {n \in Nat : u(n) = v(n) + w(n)}
<1>1. 0 \in G
  BY NumberIs
<1>2. ASSUME NEW n \in Nat, n \in G
      PROVE  n + 1 \in G
  <2>1. u(n) = v(n) + w(n)
    BY <1>2
  <2>2. /\ v(n) \in Nat /\ w(n) \in Nat /\ Pow2[n] \in Nat
    BY NumberIs, Pow2Is
  <2>3. /\ n \in x => v(n + 1) = v(n) + Pow2[n]
        /\ n \notin x => v(n + 1) = v(n)
        /\ n \in y => w(n + 1) = w(n) + Pow2[n]
        /\ n \notin y => w(n + 1) = w(n)
        /\ n \in x \cup y => u(n + 1) = u(n) + Pow2[n]
        /\ n \notin x \cup y => u(n + 1) = u(n)
    BY NumberNext
  <2> HIDE DEF u, v, w
  <2>4. u(n + 1) = v(n + 1) + w(n + 1)
    <3>1. CASE n \in x
      BY <2>1, <2>2, <2>3, <3>1
    <3>2. CASE n \in y
      BY <2>1, <2>2, <2>3, <3>2
    <3>3. CASE n \notin x \cup y
      BY <2>1, <2>2, <2>3, <3>3
    <3> QED
      BY <3>1, <3>2, <3>3
  <2> QED
    BY <2>4 DEF u, v, w
<1> HIDE DEF G
<1>3. \A n \in Nat : n \in G
  BY <1>1, <1>2, Induction
<1> QED
  BY <1>3 DEF G

\* Flipping takes the complement.
LEMMA FlipIs ==
  ASSUME NEW x \in Word
  PROVE  Flip(x) \in Word /\ SetBits(Flip(x)) = Positions \ SetBits(x)
<1> DEFINE S == SetBits(x)
           T == Positions \ SetBits(x)
           n == NumberOf(T, W)
<1>1. W \in Nat /\ NumberOf(S, W) = x /\ S \subseteq Positions /\ Power[W] = Pow2[W]
  BY WidthType, BitsOfWord
<1>2. x + n = Pow2[W] - 1
  <2>1. S \cap T = {} /\ S \cup T = Positions
    BY <1>1
  <2>2. NumberOf(Positions, W) = Pow2[W] - 1
    BY <1>1, NumberFull DEF Positions
  <2> HIDE DEF S, T
  <2>3. NumberOf(S \cup T, W) = NumberOf(S, W) + NumberOf(T, W)
    BY <1>1, <2>1, NumberDisjoint
  <2> QED
    BY <1>1, <2>1, <2>2, <2>3
<1>3. n \in Word /\ SetBits(n) = T
  BY <1>1, WordOfBits DEF OfBits
<1>4. Flip(x) = n
  <2>1. x \in Nat /\ n \in Nat /\ Power[W] \in Nat
    BY <1>3, WrapIs
  <2> HIDE DEF n
  <2>2. Flip(x) = (Power[W] - 1) - x
    BY DEF Flip, Ones
  <2> QED
    BY <1>1, <1>2, <2>1, <2>2
<1> QED
  BY <1>3, <1>4

\* Numbers that are words whatever the width.
LEMMA SmallInWord ==
  /\ \A n \in 0 .. 63 : n \in Word /\ Wrap(n) = n
  /\ \A n \in 0 .. W - 1 : n \in Word /\ Wrap(n) = n /\ Amount(n) = n
  /\ Power[0] = 1 /\ Power[1] = 2 /\ Power[2] = 4 /\ Power[3] = 8
  /\ \A y \in Word : Amount(y) \in 0 .. W - 1
<1>1. /\ Pow2[0] = 1 /\ Pow2[1] = 2 /\ Pow2[2] = 4 /\ Pow2[3] = 8
      /\ Pow2[6] = 64
  <2>1. /\ Pow2[0] = 1 /\ Pow2[0 + 1] = 2 * Pow2[0] /\ Pow2[1 + 1] = 2 * Pow2[1]
        /\ Pow2[2 + 1] = 2 * Pow2[2] /\ Pow2[3 + 1] = 2 * Pow2[3]
        /\ Pow2[4 + 1] = 2 * Pow2[4] /\ Pow2[5 + 1] = 2 * Pow2[5]
    BY Pow2Is
  <2> QED
    BY <2>1
<1>2. /\ W \in Nat \ {0} /\ 6 <= W /\ W <= 32 /\ W \in 0 .. W
      /\ 0 \in 0 .. W /\ 1 \in 0 .. W /\ 2 \in 0 .. W /\ 3 \in 0 .. W
  BY WordsAssumption
<1>3. Pow2[6] <= Pow2[W] /\ Pow2[W] \in Nat
  BY <1>2, PowersInOrder
<1>4. \A n \in 0 .. 63 : n \in Word
  <2>1. Word = 0 .. Pow2[W] - 1
    BY <1>2, WidthType, WrapIs
  <2> DEFINE d == Pow2[W]
  <2> HIDE DEF d
  <2>2. Word = 0 .. d - 1 /\ 64 <= d /\ d \in Nat
    BY <1>1, <1>3, <2>1 DEF d
  <2> QED
    BY <2>2
<1>5. \A n \in 0 .. W - 1 : n \in 0 .. 63 /\ n % W = n
  BY <1>2
<1>6. \A y \in Word : Amount(y) \in 0 .. W - 1
  <2>1. \A y \in Word : y \in Nat
    BY WrapIs
  <2> QED
    BY <1>2, <2>1 DEF Amount
<1> QED
  BY <1>1, <1>2, <1>4, <1>5, <1>6, WidthType, WrapIs DEF Amount

\* Shifts move the set of bits.
LEMMA SrlIs ==
  ASSUME NEW x \in Word, NEW n \in 0 .. W
  PROVE  /\ Srl(x, n) \in Word
         /\ SetBits(Srl(x, n)) = {i \in Positions : i + n \in SetBits(x)}
<1> DEFINE S == SetBits(x)
           T == Drop(S, n)
<1>1. /\ W \in Nat /\ n \in Nat /\ W - n \in 0 .. W /\ Power[n] = Pow2[n]
      /\ NumberOf(S, W) = x /\ S \subseteq 0 .. W - 1
  BY WidthType, BitsOfWord DEF Positions
<1>2. Srl(x, n) = NumberOf(T, W - n)
  BY <1>1, NumberDivMod DEF Srl
<1>3. NumberOf(T, W - n) = NumberOf(T, W)
  <2>1. \A i \in W - n .. W - 1 : i \notin T
    BY <1>1 DEF Drop
  <2> HIDE DEF T
  <2> QED
    BY <1>1, <2>1, NumberShort
<1>4. Srl(x, n) = OfBits(T)
  BY <1>2, <1>3 DEF OfBits
<1>5. T \cap Positions = {i \in Positions : i + n \in S}
  BY <1>1 DEF Drop, Positions
<1> HIDE DEF T
<1> QED
  BY <1>4, <1>5, WordOfBits

\* A shift to the left moves the places up, those beyond the width are lost.
LEMMA SllIs ==
  ASSUME NEW x \in Word, NEW n \in 0 .. W
  PROVE  /\ Sll(x, n) \in Word
         /\ SetBits(Sll(x, n)) = {i \in Positions : i - n \in SetBits(x)}
<1> DEFINE S == SetBits(x)
           T == {i \in Nat : i - n \in S}
<1>1. /\ W \in Nat /\ n \in Nat /\ n + W \in Nat /\ W \in 0 .. n + W
      /\ W \in 0 .. W
      /\ Power[n] = Pow2[n] /\ Power[W] = Pow2[W] /\ Pow2[n] \in Nat
      /\ NumberOf(S, W) = x /\ S \subseteq 0 .. W - 1 /\ x \in Nat
  <2>1. W \in Nat /\ n \in Nat /\ W \in 0 .. W /\ W \in 0 .. n + W
    BY WidthType
  <2>2. Power[n] = Pow2[n] /\ Power[W] = Pow2[W] /\ Pow2[n] \in Nat
    BY <2>1, WidthType, Pow2Is
  <2>3. NumberOf(S, W) = x /\ S \subseteq 0 .. W - 1
    BY BitsOfWord DEF Positions
  <2>4. x \in Nat
    BY WrapIs
  <2> QED
    BY <2>1, <2>2, <2>3, <2>4
<1>2. NumberOf(T, n) = 0
  <2>1. \A i \in 0 .. n - 1 : i \notin T
    BY <1>1
  <2> HIDE DEF T
  <2> QED
    BY <1>1, <2>1, NumberNone
<1>3. NumberOf(Drop(T, n), W) = NumberOf(S, W)
  <2>1. \A i \in 0 .. W - 1 : i \in Drop(T, n) <=> i \in S
    BY <1>1 DEF Drop
  <2> HIDE DEF T
  <2> QED
    BY <1>1, <2>1, NumberAgrees
<1>4. NumberOf(T, n + W) = Pow2[n] * x
  <2> HIDE DEF T
  <2>1. NumberOf(T, n + W) = NumberOf(T, n) + Pow2[n] * NumberOf(Drop(T, n), W)
    BY <1>1, NumberSplit
  <2> QED
    BY <1>1, <1>2, <1>3, <2>1
<1>5. Sll(x, n) = NumberOf(T, W)
  <2> HIDE DEF T
  <2>1. NumberOf(T, n + W) % Pow2[W] = NumberOf(T, W)
    BY <1>1, NumberDivMod
  <2>2. x * Power[n] = NumberOf(T, n + W)
    BY <1>1, <1>4
  <2> QED
    BY <1>1, <2>1, <2>2 DEF Sll, Wrap
<1>6. T \cap Positions = {i \in Positions : i - n \in S}
  BY <1>1 DEF Positions
<1> HIDE DEF T
<1> QED
  BY <1>5, <1>6, WordOfBits DEF OfBits

\* The low bits of a word.
LEMMA FieldIs ==
  ASSUME NEW x \in Word, NEW n \in 0 .. W
  PROVE  /\ Field(x, n) \in Word /\ Field(x, n) = NumberOf(SetBits(x), n)
         /\ Field(x, n) \in 0 .. Power[n] - 1
         /\ SetBits(Field(x, n)) = {i \in SetBits(x) : i < n}
<1> DEFINE S == SetBits(x)
           T == {i \in S : i < n}
<1>1. /\ W \in Nat /\ n \in Nat /\ n <= W /\ Power[n] = Pow2[n]
      /\ NumberOf(S, W) = x /\ S \subseteq 0 .. W - 1 /\ S \subseteq Positions
  BY WidthType, BitsOfWord DEF Positions
<1>2. Field(x, n) = NumberOf(S, n)
  BY <1>1, NumberDivMod DEF Field
<1>3. NumberOf(S, n) = NumberOf(T, n)
  <2>1. \A i \in 0 .. n - 1 : i \in S <=> i \in T
    BY <1>1
  <2> HIDE DEF T
  <2> QED
    BY <1>1, <2>1, NumberAgrees
<1>4. NumberOf(T, W) = NumberOf(T, n)
  <2>1. \A i \in n .. W - 1 : i \notin T
    BY <1>1
  <2> HIDE DEF T
  <2> QED
    BY <1>1, <2>1, NumberShort
<1>5. OfBits(T) \in Word /\ SetBits(OfBits(T)) = T
  <2>1. T \cap Positions = T
    BY <1>1
  <2> HIDE DEF T
  <2> QED
    BY <2>1, WordOfBits
<1>6. NumberOf(S, n) \in 0 .. Power[n] - 1
  <2> DEFINE d == Power[n]
             v == NumberOf(S, n)
  <2>1. d \in Nat /\ v \in Nat /\ v < d
    BY <1>1, NumberIs, NumberBelow, Pow2Is
  <2> HIDE DEF d, v
  <2>2. v \in 0 .. d - 1
    BY <2>1
  <2> QED
    BY <2>2 DEF d, v
<1> HIDE DEF S, T
<1> QED
  BY <1>2, <1>3, <1>4, <1>5, <1>6 DEF OfBits, S, T

\* The lowest bit is what halving leaves.
LEMMA LowestIs ==
  ASSUME NEW x \in Word
  PROVE  And(x, 1) = x % 2 /\ Srl(x, 1) = x \div 2 /\ Sll(x, 1) = Wrap(x * 2)
<1>1. /\ W \in Nat /\ 0 \in 0 .. W - 1 /\ 1 \in 0 .. W /\ Power[1] = 2
      /\ 1 \in Word /\ Power[0] = 1 /\ x \in Nat
  <2>1. 0 \in 0 .. W - 1 /\ 1 \in 0 .. W /\ W \in Nat /\ 1 \in 0 .. 63
    BY WidthType
  <2>2. 1 \in Word /\ Power[0] = 1 /\ Power[1] = 2
    BY <2>1, SmallInWord
  <2> QED
    BY <2>1, <2>2, WrapIs
<1>2. SetBits(1) = {0}
  <2>1. OfBits({0}) = 1
    <3>1. NumberOf({0}, 0 + 1) = 1
      <4>1. NumberOf({0}, 0) = 0 /\ Pow2[0] = 1 /\ 0 \in {0} /\ 0 \in Nat
        BY NumberIs, Pow2Is
      <4> QED
        BY <4>1, NumberNext
    <3>2. NumberOf({0}, W) = NumberOf({0}, 1)
      <4>1. 1 \in 0 .. W /\ \A i \in 1 .. W - 1 : i \notin {0}
        BY <1>1
      <4> QED
        BY <1>1, <4>1, NumberShort
    <3> QED
      BY <3>1, <3>2 DEF OfBits
  <2>2. {0} \cap Positions = {0}
    BY <1>1 DEF Positions
  <2> QED
    BY <2>1, <2>2, WordOfBits
<1>3. SetBits(Field(x, 1)) = SetBits(And(x, 1))
  <2>1. SetBits(x) \subseteq 0 .. W - 1
    BY BitsOfWord DEF Positions
  <2>2. {i \in SetBits(x) : i < 1} = SetBits(x) \cap {0}
    BY <2>1
  <2>3. SetBits(Field(x, 1)) = {i \in SetBits(x) : i < 1}
    BY <1>1, FieldIs
  <2>4. SetBits(And(x, 1)) = SetBits(x) \cap {0}
    BY <1>2, BitwiseIs
  <2> QED
    BY <2>2, <2>3, <2>4
<1>4. And(x, 1) = Field(x, 1)
  BY <1>1, <1>3, FieldIs, BitwiseIs, SameBits
<1> QED
  BY <1>1, <1>4 DEF Field, Srl, Sll

-----------------------------------------------------------------------------
(* The loop that multiplies.                                               *)

\* The program that multiplies by shifts and additions.
LEMMA MultiplyCode ==
  ASSUME Programs = LawPrograms, program = "multiply"
  PROVE  /\ Len(Code) = 10
         /\ Code[1] = OpImm("add", 3, 1, 0) /\ Code[2] = OpImm("add", 4, 2, 0)
         /\ Code[3] = Br("beq", 4, 0, 28)
         /\ Code[4] = OpImm("and", 6, 4, 1) /\ Code[5] = Br("beq", 6, 0, 8)
         /\ Code[6] = Op("add", 5, 5, 3) /\ Code[7] = OpImm("sll", 3, 3, 1)
         /\ Code[8] = OpImm("srl", 4, 4, 1)
         /\ Code[9] = OpImm("jal", 0, 0, -24)
         /\ Code[10] = Op("mul", 6, 1, 2)
         /\ {"add", "and", "sll", "srl", "mul"} \subseteq Computed
         /\ "beq" \in BranchOps
<1>1. /\ Len(Code) = 10
      /\ Code[1] = OpImm("add", 3, 1, 0) /\ Code[2] = OpImm("add", 4, 2, 0)
      /\ Code[3] = Br("beq", 4, 0, 28)
      /\ Code[4] = OpImm("and", 6, 4, 1) /\ Code[5] = Br("beq", 6, 0, 8)
      /\ Code[6] = Op("add", 5, 5, 3) /\ Code[7] = OpImm("sll", 3, 3, 1)
      /\ Code[8] = OpImm("srl", 4, 4, 1) /\ Code[9] = OpImm("jal", 0, 0, -24)
      /\ Code[10] = Op("mul", 6, 1, 2)
  BY DEF Code, LawPrograms
<1>2. /\ {"add", "and", "sll", "srl", "mul"} \subseteq Computed
      /\ "beq" \in BranchOps
  BY DEF Computed, IntegerOps, MulDivOps, BranchOps
<1> QED
  BY <1>1, <1>2

\* What is still to be added: n times what register 3 holds.
Adds(n) == Wrap(gpr[5] + gpr[3] * n) = Wrap(A * B)

\* Every bit of the second operand that is shifted out of register 4 has been
\* added to register 5.
MultiplyInv ==
  program = "multiply" => Kept /\
    LET x == gpr[3]
        y == gpr[4]
    IN /\ gpr[5] \in Word
       /\ pc # 0 => x \in Word
       /\ pc \notin {0, 4 * 1} => y \in Word
       /\ \/ pc \in {0, 4 * 1} /\ gpr[5] = 0 /\ (pc # 0 => x = A)
          \/ pc = 4 * 2 /\ Adds(y)
          \/ pc = 4 * 3 /\ Adds(y)
          \/ pc = 4 * 4 /\ Adds(y) /\ gpr[6] = y % 2
          \/ pc = 4 * 5 /\ Adds(y) /\ y % 2 = 1
          \/ pc = 4 * 6 /\ Adds(2 * (y \div 2))
          \/ pc = 4 * 7 /\ Adds(y \div 2)
          \/ pc = 4 * 8 /\ Adds(y)
          \/ pc = 4 * 9 /\ gpr[5] = Wrap(A * B)
          \/ pc = 4 * 10 /\ gpr[5] = Wrap(A * B) /\ gpr[6] = gpr[5]

\* At the start nothing is added,
LEMMA InitMultiply == Init => MultiplyInv
<1> SUFFICES ASSUME Init
             PROVE  MultiplyInv
  OBVIOUS
<1>1. Kept /\ pc = 0 /\ gpr[5] = 0
  BY InitKept
<1>2. 0 \in Word
  BY SmallInWord
<1> QED
  BY <1>1, <1>2 DEF MultiplyInv

\* Arithmetic of the loop: nothing left, an odd number, and a shift.
LEMMA AddsNothing ==
  ASSUME NEW z \in Word, NEW x \in Word
  PROVE  Wrap(z + x * 0) = z
<1>1. z + x * 0 = z
  BY WrapIs
<1> QED
  BY <1>1, WrapIs

\* An odd factor adds once what it stands for,
LEMMA AddsOdd ==
  ASSUME NEW z \in Word, NEW x \in Word, NEW y \in Word, y % 2 = 1
  PROVE  Wrap(Wrap(z + x) + x * (2 * (y \div 2))) = Wrap(z + x * y)
<1> DEFINE q == y \div 2
<1>1. z \in Int /\ x \in Int /\ y \in Int
  BY WrapIs
<1>2. q \in Int /\ y = 2 * q + 1
  BY <1>1
<1> HIDE DEF q
<1> DEFINE p == x * (2 * q)
<1>3. p \in Int /\ x * y = p + x
  <2>1. x * (2 * q + 1) = x * (2 * q) + x
    BY <1>1, <1>2
  <2> QED
    BY <1>1, <1>2, <2>1
<1> HIDE DEF p
<1>4. Wrap(Wrap(z + x) + p) = Wrap((z + x) + p)
  <2>1. z + x \in Int /\ Wrap(z + x) \in Int
    BY <1>1, WrapIs
  <2>2. Wrap(Wrap(z + x) + Wrap(p)) = Wrap((z + x) + p)
    BY <1>3, <2>1, WrapAdd
  <2>3. Wrap(Wrap(z + x) + Wrap(p)) = Wrap(Wrap(z + x) + p)
    <3>1. Wrap(Wrap(z + x)) = Wrap(z + x)
      BY <2>1, WrapIs
    <3>2. Wrap(Wrap(Wrap(z + x)) + Wrap(p)) = Wrap(Wrap(z + x) + p)
      BY <1>3, <2>1, WrapAdd
    <3> QED
      BY <3>1, <3>2
  <2> QED
    BY <2>2, <2>3
<1>5. (z + x) + p = z + x * y
  BY <1>1, <1>3
<1> QED
  BY <1>4, <1>5 DEF p, q

\* an even one is twice its half,
LEMMA AddsEven ==
  ASSUME NEW y \in Word
  PROVE  /\ y \in Int /\ y \div 2 \in Int
         /\ y % 2 \in {0, 1} /\ (y % 2 = 0 => 2 * (y \div 2) = y)
<1>1. y \in Nat
  BY WrapIs
<1> QED
  BY <1>1

\* and halving the factor while doubling what it multiplies changes nothing.
LEMMA AddsShifted ==
  ASSUME NEW z \in Word, NEW x \in Word, NEW q \in Int
  PROVE  Wrap(z + Wrap(x * 2) * q) = Wrap(z + x * (2 * q))
<1>1. z \in Int /\ x \in Int
  BY WrapIs
<1>2. PICK k \in Int : Wrap(x * 2) = x * 2 + Power[W] * k
  BY <1>1, WrapSplit
<1> DEFINE d == Power[W]
           v == Wrap(x * 2)
<1>3. d \in Nat
  BY WrapIs
<1>4. v = x * 2 + d * k
  BY <1>2
<1> HIDE DEF d, v
<1>5. v * q = x * (2 * q) + d * (k * q)
  BY <1>1, <1>2, <1>3, <1>4
<1>6. z + x * (2 * q) \in Int /\ k * q \in Int
  BY <1>1, <1>2
<1>7. z + v * q = (z + x * (2 * q)) + d * (k * q)
  BY <1>1, <1>3, <1>5, <1>6
<1>8. Wrap((z + x * (2 * q)) + d * (k * q)) = Wrap(z + x * (2 * q))
  BY <1>6, SameWrap DEF d
<1> QED
  BY <1>7, <1>8 DEF v

\* To add the zero immediate is to move.
LEMMA AddZero ==
  ASSUME NEW x \in Word
  PROVE  Wrap(x + Wrap(0)) = x
<1>1. Wrap(0) = 0
  BY SmallInWord
<1>2. x + Wrap(0) = x
  BY <1>1, WrapIs
<1> QED
  BY <1>2, WrapIs

\* and every instruction of the loop keeps what is still to be added.
LEMMA NextMultiply ==
  ASSUME Programs = LawPrograms, MultiplyInv, Next
  PROVE  MultiplyInv'
<1> DEFINE x == gpr[3]
           y == gpr[4]
           z == gpr[5]
<1> SUFFICES ASSUME program = "multiply"
             PROVE  MultiplyInv'
  BY ProgramStays DEF MultiplyInv
<1>1. Kept /\ ~Ended /\ program' = program /\ z \in Word
  BY ProgramStays DEF MultiplyInv, Next
<1>2. /\ Len(Code) = 10 /\ \A r \in {1, 2, 3, 4, 5, 6} : r \in Registers
      /\ gpr[0] = 0 /\ A \in Word /\ B \in Word
      /\ Wrap(0) = 0 /\ Wrap(1) = 1 /\ Amount(1) = 1
  <2>1. 0 \in 0 .. 63 /\ 1 \in 0 .. W - 1
    BY WidthType
  <2> QED
    BY <1>1, <2>1, MultiplyCode, SmallInWord DEF Registers, Kept, A, B
<1>3. ASSUME NEW k \in 0 .. 9, pc = 4 * k
      PROVE  At(k)
  BY <1>1, <1>2, <1>3, PlaceOf
<1>4. ASSUME NEW k, NEW rd, Goes(k, rd), rd \in {3, 4, 5, 6}
      PROVE  /\ Kept' /\ A' = A /\ B' = B /\ pc' = 4 * k
             /\ \A r \in {3, 4, 5, 6} \ {rd} : gpr'[r] = gpr[r]
  BY <1>2, <1>4 DEF Goes, A, B
<1>10. CASE pc = 0
  <2>1. At(0) /\ z = 0
    BY <1>3, <1>10 DEF MultiplyInv
  <2>2. Goes(1, 3) /\ gpr'[3] = Wrap(gpr[1] + Wrap(0))
    BY <1>1, <2>1, MultiplyCode, OpImmStep, IntegerResults
  <2>3. gpr'[3] = A
    BY <1>2, <2>2, AddZero DEF A
  <2> QED
    BY <1>2, <1>4, <2>1, <2>2, <2>3 DEF MultiplyInv
<1>11. CASE pc = 4 * 1
  <2>1. At(1) /\ z = 0 /\ x = A
    BY <1>3, <1>11 DEF MultiplyInv
  <2>2. Goes(2, 4) /\ gpr'[4] = Wrap(gpr[2] + Wrap(0))
    BY <1>1, <2>1, MultiplyCode, OpImmStep, IntegerResults
  <2>3. gpr'[4] = B
    BY <1>2, <2>2, AddZero DEF B
  <2>4. 0 + A * B = A * B
    BY <1>2, WrapIs
  <2> QED
    BY <1>2, <1>4, <2>1, <2>2, <2>3, <2>4 DEF MultiplyInv, Adds
<1>12. CASE pc = 4 * 2
  <2>1. At(2) /\ x \in Word /\ y \in Word /\ Adds(y)
    BY <1>3, <1>12 DEF MultiplyInv
  <2>2. /\ Kept' /\ gpr' = gpr
        /\ y = 0 => pc' = 4 * 9
        /\ y # 0 => pc' = 4 * 3
    <3>1. 2 + 7 = 9 /\ 9 \in 0 .. 10 /\ 7 \in Int
      OBVIOUS
    <3>2. /\ Kept' /\ gpr' = gpr
          /\ Takes("beq", y, 0) => pc' = Wrap(pc + 28)
          /\ ~Takes("beq", y, 0) => pc' = 4 * (2 + 1)
      BY <1>1, <1>2, <2>1, MultiplyCode, BranchStep
    <3>3. Wrap(pc + 4 * 7) = 4 * 9
      BY <1>1, <1>2, <2>1, <3>1, TargetIs
    <3> QED
      BY <3>2, <3>3, BranchNames
  <2>3. A' = A /\ B' = B
    BY <2>2 DEF A, B
  <2>4. CASE y = 0
    <3>1. z = Wrap(A * B)
      BY <1>1, <2>1, <2>4, AddsNothing DEF Adds
    <3> QED
      BY <1>1, <2>1, <2>2, <2>3, <2>4, <3>1 DEF MultiplyInv
  <2>5. CASE y # 0
    BY <1>1, <2>1, <2>2, <2>3, <2>5 DEF MultiplyInv, Adds
  <2> QED
    BY <2>4, <2>5
<1>13. CASE pc = 4 * 3
  <2>1. At(3) /\ x \in Word /\ y \in Word /\ Adds(y)
    BY <1>3, <1>13 DEF MultiplyInv
  <2>2. Goes(4, 6) /\ gpr'[6] = And(y, Wrap(1))
    BY <1>1, <2>1, MultiplyCode, OpImmStep, IntegerResults
  <2>3. gpr'[6] = y % 2
    BY <1>2, <2>1, <2>2, LowestIs
  <2> QED
    BY <1>1, <1>4, <2>1, <2>2, <2>3 DEF MultiplyInv, Adds
<1>14. CASE pc = 4 * 4
  <2>1. At(4) /\ x \in Word /\ y \in Word /\ Adds(y) /\ gpr[6] = y % 2
    BY <1>3, <1>14 DEF MultiplyInv
  <2>2. /\ Kept' /\ gpr' = gpr
        /\ gpr[6] = 0 => pc' = 4 * 6
        /\ gpr[6] # 0 => pc' = 4 * 5
    <3>1. 4 + 2 = 6 /\ 6 \in 0 .. 10 /\ 2 \in Int
      OBVIOUS
    <3>2. /\ Kept' /\ gpr' = gpr
          /\ Takes("beq", gpr[6], 0) => pc' = Wrap(pc + 8)
          /\ ~Takes("beq", gpr[6], 0) => pc' = 4 * (4 + 1)
      BY <1>1, <1>2, <2>1, MultiplyCode, BranchStep
    <3>3. Wrap(pc + 4 * 2) = 4 * 6
      BY <1>1, <1>2, <2>1, <3>1, TargetIs
    <3> QED
      BY <3>2, <3>3, BranchNames
  <2>3. A' = A /\ B' = B
    BY <2>2 DEF A, B
  <2>4. CASE y % 2 = 0
    <3>1. 2 * (y \div 2) = y
      BY <2>1, <2>4, AddsEven
    <3>2. Adds(2 * (y \div 2))
      BY <2>1, <3>1
    <3> QED
      BY <1>1, <2>1, <2>2, <2>3, <2>4, <3>2 DEF MultiplyInv, Adds
  <2>5. CASE y % 2 # 0
    <3>1. y % 2 = 1
      BY <2>1, <2>5, AddsEven
    <3> QED
      BY <1>1, <2>1, <2>2, <2>3, <2>5, <3>1 DEF MultiplyInv, Adds
  <2> QED
    BY <2>4, <2>5
<1>15. CASE pc = 4 * 5
  <2>1. At(5) /\ x \in Word /\ y \in Word /\ Adds(y) /\ y % 2 = 1
    BY <1>3, <1>15 DEF MultiplyInv
  <2>2. Goes(6, 5) /\ gpr'[5] = Wrap(z + x)
    BY <1>1, <2>1, MultiplyCode, OpStep, IntegerResults
  <2>3. Wrap(Wrap(z + x) + x * (2 * (y \div 2))) = Wrap(A * B)
    <3>1. Wrap(z + x * y) = Wrap(A * B)
      BY <2>1 DEF Adds
    <3>2. Wrap(Wrap(z + x) + x * (2 * (y \div 2))) = Wrap(z + x * y)
      BY <1>1, <2>1, AddsOdd
    <3> QED
      BY <3>1, <3>2
  <2>4. Wrap(z + x) \in Word
    <3>1. z + x \in Int
      BY <1>1, <2>1, AddsEven
    <3> QED
      BY <3>1, WrapIs
  <2> QED
    BY <1>4, <2>1, <2>2, <2>3, <2>4 DEF MultiplyInv, Adds
<1>16. CASE pc = 4 * 6
  <2>1. At(6) /\ x \in Word /\ y \in Word /\ Adds(2 * (y \div 2))
    BY <1>3, <1>16 DEF MultiplyInv
  <2>2. Goes(7, 3) /\ gpr'[3] = Sll(x, Amount(Wrap(1)))
    BY <1>1, <2>1, MultiplyCode, OpImmStep, IntegerResults
  <2>3. gpr'[3] = Wrap(x * 2)
    <3>1. Sll(x, 1) = Wrap(x * 2)
      BY <2>1, LowestIs
    <3> QED
      BY <1>2, <2>2, <3>1
  <2>4. Wrap(x * 2) \in Word /\ y \div 2 \in Int
    <3>1. x * 2 \in Int /\ y \div 2 \in Int
      BY <2>1, AddsEven
    <3> QED
      BY <3>1, WrapIs
  <2>5. Wrap(z + Wrap(x * 2) * (y \div 2)) = Wrap(A * B)
    BY <1>1, <2>1, <2>4, AddsShifted DEF Adds
  <2> QED
    BY <1>1, <1>4, <2>1, <2>2, <2>3, <2>4, <2>5 DEF MultiplyInv, Adds
<1>17. CASE pc = 4 * 7
  <2>1. At(7) /\ x \in Word /\ y \in Word /\ Adds(y \div 2)
    BY <1>3, <1>17 DEF MultiplyInv
  <2>2. Goes(8, 4) /\ gpr'[4] = Srl(y, Amount(Wrap(1)))
    BY <1>1, <2>1, MultiplyCode, OpImmStep, IntegerResults
  <2>3. gpr'[4] = y \div 2 /\ gpr'[4] \in Word
    <3>1. 1 \in 0 .. W
      BY WidthType
    <3> QED
      BY <1>2, <2>1, <2>2, <3>1, LowestIs, SrlIs
  <2> QED
    BY <1>1, <1>4, <2>1, <2>2, <2>3 DEF MultiplyInv, Adds
<1>18. CASE pc = 4 * 8
  <2>1. At(8) /\ x \in Word /\ y \in Word /\ Adds(y)
    BY <1>3, <1>18 DEF MultiplyInv
  <2>2. Wrap(pc + Wrap(4 * (-6))) = 4 * 2
    <3>1. 8 + (-6) = 2 /\ 2 \in 0 .. 10 /\ -6 \in Int
      OBVIOUS
    <3> QED
      BY <1>1, <1>2, <2>1, <3>1, TargetIs
  <2>3. /\ Kept' /\ pc' = 4 * 2
        /\ \A r \in Registers \ {0} : gpr'[r] = gpr[r]
    <3>1. 0 \in Registers \ {1, 2}
      BY DEF Registers
    <3> QED
      BY <1>1, <2>1, <2>2, <3>1, MultiplyCode, JumpStep
  <2>4. A' = A /\ B' = B /\ \A r \in {3, 4, 5} : gpr'[r] = gpr[r]
    BY <1>2, <2>3 DEF A, B
  <2> QED
    BY <1>1, <2>1, <2>3, <2>4 DEF MultiplyInv, Adds
<1>19. CASE pc = 4 * 9
  <2>1. At(9) /\ x \in Word /\ y \in Word /\ z = Wrap(A * B)
    BY <1>3, <1>19 DEF MultiplyInv
  <2>2. Goes(10, 6) /\ gpr'[6] = Wrap(A * B)
    BY <1>1, <2>1, MultiplyCode, OpStep, MulDivResults DEF A, B
  <2> QED
    BY <1>1, <1>4, <2>1, <2>2 DEF MultiplyInv
<1>20. CASE pc = 4 * 10
  <2>1. At(10)
    BY <1>1, <1>2, <1>20, PlaceOf
  <2> QED
    BY <1>2, <2>1 DEF At
<1> QED
  BY <1>10, <1>11, <1>12, <1>13, <1>14, <1>15, <1>16, <1>17, <1>18, <1>19, <1>20
     DEF MultiplyInv

-----------------------------------------------------------------------------
(* Divisions, products and order.                                          *)

\* The program of the divisions.
LEMMA DivideCode ==
  ASSUME Programs = LawPrograms, program = "divide"
  PROVE  /\ Len(Code) = 8 /\ Straight(Code)
         /\ Code[1] = Op("div", 3, 1, 2) /\ Code[2] = Op("rem", 4, 1, 2)
         /\ Code[3] = Op("mul", 5, 3, 2) /\ Code[4] = Op("add", 5, 5, 4)
         /\ Code[5] = Op("divu", 6, 1, 2) /\ Code[6] = Op("remu", 7, 1, 2)
         /\ Code[7] = Op("mul", 8, 6, 2) /\ Code[8] = Op("add", 8, 8, 7)
         /\ {"div", "rem", "mul", "add", "divu", "remu"} \subseteq
             Computed
<1>1. /\ Len(Code) = 8
      /\ Code[1] = Op("div", 3, 1, 2) /\ Code[2] = Op("rem", 4, 1, 2)
      /\ Code[3] = Op("mul", 5, 3, 2) /\ Code[4] = Op("add", 5, 5, 4)
      /\ Code[5] = Op("divu", 6, 1, 2) /\ Code[6] = Op("remu", 7, 1, 2)
      /\ Code[7] = Op("mul", 8, 6, 2) /\ Code[8] = Op("add", 8, 8, 7)
  BY DEF Code, LawPrograms
<1>2. /\ {"div", "rem", "mul", "add", "divu", "remu"} \subseteq Computed
  BY DEF Computed, IntegerOps, MulDivOps
<1>3. /\ Code[1].op = "div" /\ Code[2].op = "rem" /\ Code[3].op = "mul"
      /\ Code[4].op = "add" /\ Code[5].op = "divu" /\ Code[6].op = "remu"
      /\ Code[7].op = "mul" /\ Code[8].op = "add" /\ Code[1].rd = 3
      /\ Code[2].rd = 4 /\ Code[3].rd = 5 /\ Code[4].rd = 5 /\ Code[5].rd = 6
      /\ Code[6].rd = 7 /\ Code[7].rd = 8 /\ Code[8].rd = 8
  BY <1>1, OpParts
<1>4. Straight(Code)
  BY <1>1, <1>2, <1>3 DEF Straight, StraightOps, Registers
<1> QED
  BY <1>1, <1>2, <1>4

\* What it leaves in its registers.
LEMMA DivideDone ==
  ASSUME Programs = LawPrograms, StraightInv, Finished("divide")
  PROVE  /\ A \in Word /\ B \in Word
         /\ gpr[3] = DivOf(A, B) /\ gpr[4] = RemOf(A, B)
         /\ gpr[5] = Wrap(Wrap(DivOf(A, B) * B) + RemOf(A, B))
         /\ gpr[6] = UnsignedDiv(A, B) /\ gpr[7] = UnsignedRem(A, B)
         /\ gpr[8] = Wrap(Wrap(UnsignedDiv(A, B) * B) + UnsignedRem(A, B))
<1>1. Len(Code) = 8 /\ Straight(Code) /\ Ended
  BY DivideCode DEF Finished
<1>2. Kept /\ \E h : Run(h, 8)
  BY <1>1, Ran
<1>3. PICK h : Run(h, 8)
  BY <1>2
<1>4. \A i \in 0 .. 8 : h[i][1] = A /\ h[i][2] = B /\ h[i][0] = 0
  BY <1>3 DEF Run, A, B
<1>5. /\ h[1][3] = DivOf(h[0][1], h[0][2])
      /\ h[2][4] = RemOf(h[1][1], h[1][2])
      /\ h[3][5] = Wrap(h[2][3] * h[2][2])
      /\ h[4][5] = Wrap(h[3][5] + h[3][4])
      /\ h[5][6] = UnsignedDiv(h[4][1], h[4][2])
      /\ h[6][7] = UnsignedRem(h[5][1], h[5][2])
      /\ h[7][8] = Wrap(h[6][6] * h[6][2])
      /\ h[8][8] = Wrap(h[7][8] + h[7][7])
  BY <1>3, DivideCode, OpDone, IntegerResults, MulDivResults DEF Finished
<1>6. /\ \A r \in Registers \ {3} : h[1][r] = h[0][r]
      /\ \A r \in Registers \ {4} : h[2][r] = h[1][r]
      /\ \A r \in Registers \ {5} : h[3][r] = h[2][r] /\ h[4][r] = h[3][r]
      /\ \A r \in Registers \ {6} : h[5][r] = h[4][r]
      /\ \A r \in Registers \ {7} : h[6][r] = h[5][r]
      /\ \A r \in Registers \ {8} : h[7][r] = h[6][r] /\ h[8][r] = h[7][r]
  <2>1. /\ Code[1].rd = 3 /\ Code[2].rd = 4 /\ Code[3].rd = 5
        /\ Code[4].rd = 5 /\ Code[5].rd = 6 /\ Code[6].rd = 7
        /\ Code[7].rd = 8 /\ Code[8].rd = 8
    BY DivideCode, OpParts DEF Finished
  <2>2. \A i \in 1 .. 8 :
          \A r \in Registers \ {Code[i].rd} : h[i][r] = h[i - 1][r]
    BY <1>3, Frame
  <2>3. /\ \A r \in Registers \ {3} : h[1][r] = h[0][r]
        /\ \A r \in Registers \ {4} : h[2][r] = h[1][r]
        /\ \A r \in Registers \ {5} : h[3][r] = h[2][r] /\ h[4][r] = h[3][r]
    BY <2>1, <2>2
  <2>4. /\ \A r \in Registers \ {6} : h[5][r] = h[4][r]
        /\ \A r \in Registers \ {7} : h[6][r] = h[5][r]
        /\ \A r \in Registers \ {8} : h[7][r] = h[6][r] /\ h[8][r] = h[7][r]
    BY <2>1, <2>2
  <2> QED
    BY <2>3, <2>4
<1>7. A \in Word /\ B \in Word /\ {3, 4, 5, 6, 7, 8} \subseteq Registers
      /\ gpr = h[8]
  BY <1>2, <1>3 DEF Kept, Registers, A, B, Run
<1>8. /\ h[8][3] = h[1][3] /\ h[8][4] = h[2][4] /\ h[8][5] = h[4][5]
      /\ h[8][6] = h[5][6] /\ h[8][7] = h[6][7]
  BY <1>6, <1>7
<1>9. /\ h[2][3] = h[1][3] /\ h[3][4] = h[2][4]
      /\ h[6][6] = h[5][6] /\ h[7][7] = h[6][7]
  BY <1>6, <1>7
<1> QED
  BY <1>4, <1>5, <1>7, <1>8, <1>9

\* The program of the products.
LEMMA ProductsCode ==
  ASSUME Programs = LawPrograms, program = "products"
  PROVE  /\ Len(Code) = 4 /\ Straight(Code)
         /\ Code[1] = Op("mul", 3, 1, 2) /\ Code[2] = Op("mulh", 4, 1, 2)
         /\ Code[3] = Op("mulhsu", 5, 1, 2) /\ Code[4] = Op("mulhu", 6, 1, 2)
         /\ {"mul", "mulh", "mulhsu", "mulhu"} \subseteq Computed
<1>1. /\ Len(Code) = 4
      /\ Code[1] = Op("mul", 3, 1, 2) /\ Code[2] = Op("mulh", 4, 1, 2)
      /\ Code[3] = Op("mulhsu", 5, 1, 2) /\ Code[4] = Op("mulhu", 6, 1, 2)
  BY DEF Code, LawPrograms
<1>2. /\ {"mul", "mulh", "mulhsu", "mulhu"} \subseteq Computed
  BY DEF Computed, MulDivOps
<1>3. /\ Code[1].op = "mul" /\ Code[2].op = "mulh" /\ Code[3].op = "mulhsu"
      /\ Code[4].op = "mulhu" /\ Code[1].rd = 3 /\ Code[2].rd = 4
      /\ Code[3].rd = 5 /\ Code[4].rd = 6
  BY <1>1, OpParts
<1>4. Straight(Code)
  BY <1>1, <1>2, <1>3 DEF Straight, StraightOps, Registers
<1> QED
  BY <1>1, <1>2, <1>4

\* What it leaves in its registers.
LEMMA ProductsDone ==
  ASSUME Programs = LawPrograms, StraightInv, Finished("products")
  PROVE  /\ A \in Word /\ B \in Word
         /\ gpr[3] = Wrap(A * B)
         /\ gpr[4] = High(Signed(A) * Signed(B))
         /\ gpr[5] = Mulhsu(A, B) /\ gpr[6] = High(A * B)
<1>1. Len(Code) = 4 /\ Straight(Code) /\ Ended
  BY ProductsCode DEF Finished
<1>2. Kept /\ \E h : Run(h, 4)
  BY <1>1, Ran
<1>3. PICK h : Run(h, 4)
  BY <1>2
<1>4. \A i \in 0 .. 4 : h[i][1] = A /\ h[i][2] = B /\ h[i][0] = 0
  BY <1>3 DEF Run, A, B
<1>5. /\ h[1][3] = Wrap(h[0][1] * h[0][2])
      /\ h[2][4] = High(Signed(h[1][1]) * Signed(h[1][2]))
      /\ h[3][5] = Mulhsu(h[2][1], h[2][2])
      /\ h[4][6] = High(h[3][1] * h[3][2])
  BY <1>3, ProductsCode, OpDone, MulDivResults DEF Finished
<1>6. /\ \A r \in Registers \ {3} : h[1][r] = h[0][r]
      /\ \A r \in Registers \ {4} : h[2][r] = h[1][r]
      /\ \A r \in Registers \ {5} : h[3][r] = h[2][r]
      /\ \A r \in Registers \ {6} : h[4][r] = h[3][r]
  <2>1. /\ Code[1].rd = 3 /\ Code[2].rd = 4 /\ Code[3].rd = 5
        /\ Code[4].rd = 6
    BY ProductsCode, OpParts DEF Finished
  <2>2. \A i \in 1 .. 4 :
          \A r \in Registers \ {Code[i].rd} : h[i][r] = h[i - 1][r]
    BY <1>3, Frame
  <2> QED
    BY <2>1, <2>2
<1> QED
  BY <1>2, <1>3, <1>4, <1>5, <1>6 DEF Run, Kept, Registers, A, B

\* The program of the minima and maxima.
LEMMA OrderCode ==
  ASSUME Programs = LawPrograms, program = "order"
  PROVE  /\ Len(Code) = 6 /\ Straight(Code)
         /\ Code[1] = Op("min", 3, 1, 2) /\ Code[2] = Op("max", 4, 1, 2)
         /\ Code[3] = Op("minu", 5, 1, 2) /\ Code[4] = Op("maxu", 6, 1, 2)
         /\ Code[5] = Op("slt", 7, 4, 3) /\ Code[6] = Op("sltu", 8, 6, 5)
         /\ {"min", "max", "minu", "maxu", "slt", "sltu"} \subseteq
             Computed
<1>1. /\ Len(Code) = 6
      /\ Code[1] = Op("min", 3, 1, 2) /\ Code[2] = Op("max", 4, 1, 2)
      /\ Code[3] = Op("minu", 5, 1, 2) /\ Code[4] = Op("maxu", 6, 1, 2)
      /\ Code[5] = Op("slt", 7, 4, 3) /\ Code[6] = Op("sltu", 8, 6, 5)
  BY DEF Code, LawPrograms
<1>2. /\ {"min", "max", "minu", "maxu", "slt", "sltu"} \subseteq Computed
  BY DEF Computed, IntegerOps, BitManipOps
<1>3. /\ Code[1].op = "min" /\ Code[2].op = "max" /\ Code[3].op = "minu"
      /\ Code[4].op = "maxu" /\ Code[5].op = "slt" /\ Code[6].op = "sltu"
      /\ Code[1].rd = 3 /\ Code[2].rd = 4 /\ Code[3].rd = 5 /\ Code[4].rd = 6
      /\ Code[5].rd = 7 /\ Code[6].rd = 8
  BY <1>1, OpParts
<1>4. Straight(Code)
  BY <1>1, <1>2, <1>3 DEF Straight, StraightOps, Registers
<1> QED
  BY <1>1, <1>2, <1>4

\* What it leaves in its registers.
LEMMA OrderDone ==
  ASSUME Programs = LawPrograms, StraightInv, Finished("order")
  PROVE  /\ A \in Word /\ B \in Word
         /\ gpr[3] = (IF Signed(A) < Signed(B) THEN A ELSE B)
         /\ gpr[4] = (IF Signed(A) > Signed(B) THEN A ELSE B)
         /\ gpr[5] = (IF A < B THEN A ELSE B)
         /\ gpr[6] = (IF A > B THEN A ELSE B)
         /\ gpr[7] = Truth(Signed(gpr[4]) < Signed(gpr[3]))
         /\ gpr[8] = Truth(gpr[6] < gpr[5])
<1>1. Len(Code) = 6 /\ Straight(Code) /\ Ended
  BY OrderCode DEF Finished
<1>2. Kept /\ \E h : Run(h, 6)
  BY <1>1, Ran
<1>3. PICK h : Run(h, 6)
  BY <1>2
<1>4. \A i \in 0 .. 6 : h[i][1] = A /\ h[i][2] = B /\ h[i][0] = 0
  BY <1>3 DEF Run, A, B
<1>5. /\ h[1][3] = (IF Signed(h[0][1]) < Signed(h[0][2]) THEN h[0][1] ELSE h[0][2])
      /\ h[2][4] = (IF Signed(h[1][1]) > Signed(h[1][2]) THEN h[1][1] ELSE h[1][2])
      /\ h[3][5] = (IF h[2][1] < h[2][2] THEN h[2][1] ELSE h[2][2])
      /\ h[4][6] = (IF h[3][1] > h[3][2] THEN h[3][1] ELSE h[3][2])
      /\ h[5][7] = Truth(Signed(h[4][4]) < Signed(h[4][3]))
      /\ h[6][8] = Truth(h[5][6] < h[5][5])
  BY <1>3, OrderCode, OpDone, IntegerResults, BitManipResults DEF Finished
<1>6. /\ \A r \in Registers \ {3} : h[1][r] = h[0][r]
      /\ \A r \in Registers \ {4} : h[2][r] = h[1][r]
      /\ \A r \in Registers \ {5} : h[3][r] = h[2][r]
      /\ \A r \in Registers \ {6} : h[4][r] = h[3][r]
      /\ \A r \in Registers \ {7} : h[5][r] = h[4][r]
      /\ \A r \in Registers \ {8} : h[6][r] = h[5][r]
  <2>1. /\ Code[1].rd = 3 /\ Code[2].rd = 4 /\ Code[3].rd = 5
        /\ Code[4].rd = 6 /\ Code[5].rd = 7 /\ Code[6].rd = 8
    BY OrderCode, OpParts DEF Finished
  <2>2. \A i \in 1 .. 6 :
          \A r \in Registers \ {Code[i].rd} : h[i][r] = h[i - 1][r]
    BY <1>3, Frame
  <2>3. /\ \A r \in Registers \ {3} : h[1][r] = h[0][r]
        /\ \A r \in Registers \ {4} : h[2][r] = h[1][r]
        /\ \A r \in Registers \ {5} : h[3][r] = h[2][r]
    BY <2>1, <2>2
  <2>4. /\ \A r \in Registers \ {6} : h[4][r] = h[3][r]
        /\ \A r \in Registers \ {7} : h[5][r] = h[4][r]
        /\ \A r \in Registers \ {8} : h[6][r] = h[5][r]
    BY <2>1, <2>2
  <2> QED
    BY <2>3, <2>4
<1> QED
  BY <1>2, <1>3, <1>4, <1>5, <1>6 DEF Run, Kept, Registers, A, B


\* Dividing and multiplying back gives the dividend.
LEMMA DivisionHolds ==
  ASSUME Programs = LawPrograms, StraightInv
  PROVE  DivisionLaw
<1> SUFFICES ASSUME Finished("divide")
             PROVE  /\ gpr[5] = A /\ gpr[8] = A
                    /\ B # 0 =>
                         /\ gpr[7] < B
                         /\ Magnitude(Signed(gpr[4])) < Magnitude(Signed(B))
                         /\ gpr[4] # 0 => (Signed(gpr[4]) < 0) = (Signed(A) < 0)
                    /\ B = 0 => gpr[3] = Ones /\ gpr[6] = Ones
  BY DEF DivisionLaw
<1>1. A \in Word /\ B \in Word
  BY DivideDone
<1> QED
  BY <1>1, DivideDone, SignedDivision, UnsignedDivision

\* Both halves of a product are those of the product, for all four signs, and
\* the loop of shifts and additions computes its lower half.
LEMMA ProductsHold ==
  ASSUME Programs = LawPrograms, StraightInv, MultiplyInv
  PROVE  ProductLaw
<1>1. ASSUME Finished("multiply")
      PROVE  gpr[6] = gpr[5]
  <2>1. program = "multiply" /\ Len(Code) = 10 /\ Ended
    BY <1>1, MultiplyCode DEF Finished
  <2>2. \A k \in 0 .. 9 : pc # 4 * k
    <3>1. ASSUME NEW k \in 0 .. 9, pc = 4 * k
          PROVE  FALSE
      <4>1. pc \div 4 = k
        BY <3>1
      <4> QED
        BY <2>1, <4>1 DEF Ended
    <3> QED
      BY <3>1
  <2>3. pc # 0 /\ \A k \in {1, 2, 3, 4, 5, 6, 7, 8, 9} : pc # 4 * k
    BY <2>2
  <2>4. pc = 4 * 10 /\ gpr[6] = gpr[5]
    BY <2>1, <2>3 DEF MultiplyInv
  <2> QED
    BY <2>4
<1>2. ASSUME Finished("products")
      PROVE  /\ Signed(gpr[4]) * Power[W] + gpr[3] = Signed(A) * Signed(B)
             /\ Signed(gpr[5]) * Power[W] + gpr[3] = Signed(A) * B
             /\ gpr[6] * Power[W] + gpr[3] = A * B
  <2>1. /\ A \in Word /\ B \in Word
        /\ gpr[3] = Wrap(A * B) /\ gpr[4] = High(Signed(A) * Signed(B))
        /\ gpr[5] = Mulhsu(A, B) /\ gpr[6] = High(A * B)
    BY <1>2, ProductsDone
  <2> QED
    BY <2>1, ProductsAreWhole
<1> QED
  BY <1>1, <1>2 DEF ProductLaw

\* Minimum, maximum and the branches agree on the order of the operands.
LEMMA OrderHolds ==
  ASSUME Programs = LawPrograms, StraightInv, BranchesInv
  PROVE  OrderLaw
<1>1. ASSUME Finished("order")
      PROVE  /\ {gpr[3], gpr[4]} = {A, B} /\ gpr[7] = 0
             /\ {gpr[5], gpr[6]} = {A, B} /\ gpr[8] = 0
  <2> DEFINE s == Signed(A)
             t == Signed(B)
  <2>1. A \in Word /\ B \in Word /\ A \in Int /\ B \in Int
    <3>1. A \in Word /\ B \in Word
      BY <1>1, OrderDone
    <3> HIDE DEF A, B
    <3> QED
      BY <3>1, AddsEven
  <2>2. s \in Int /\ t \in Int
    BY <2>1, WrapSigned
  <2>3. s = t => A = B
    BY <2>1, WrapSigned
  <2>4. /\ gpr[3] = (IF s < t THEN A ELSE B)
        /\ gpr[4] = (IF s > t THEN A ELSE B)
        /\ gpr[5] = (IF A < B THEN A ELSE B)
        /\ gpr[6] = (IF A > B THEN A ELSE B)
        /\ gpr[7] = Truth(Signed(gpr[4]) < Signed(gpr[3]))
        /\ gpr[8] = Truth(gpr[6] < gpr[5])
    BY <1>1, OrderDone
  <2>5. {gpr[3], gpr[4]} = {A, B} /\ {gpr[5], gpr[6]} = {A, B}
    <3> HIDE DEF s, t, A, B
    <3>1. {gpr[3], gpr[4]} = {A, B}
      BY <2>2, <2>3, <2>4
    <3>2. {gpr[5], gpr[6]} = {A, B}
      BY <2>1, <2>4
    <3> QED
      BY <3>1, <3>2
  <2>6. ~(Signed(gpr[4]) < Signed(gpr[3])) /\ ~(gpr[6] < gpr[5])
    <3>1. CASE s < t
      BY <2>1, <2>2, <2>4, <3>1
    <3>2. CASE s > t
      BY <2>1, <2>2, <2>4, <3>2
    <3>3. CASE s = t
      BY <2>1, <2>2, <2>4, <3>3
    <3> QED
      BY <2>2, <3>1, <3>2, <3>3
  <2> QED
    BY <2>4, <2>5, <2>6 DEF Truth
<1>2. ASSUME Finished("branches")
      PROVE  LET taken(k) == Bit(gpr[3], k - 1) = 0
             IN /\ \A k \in {1, 3, 5} : taken(k) # taken(k + 1)
                /\ taken(1) = (A = B)
                /\ taken(3) = (gpr[4] = 1)
                /\ taken(5) = (gpr[5] = 1)
  <2>1. /\ gpr[3] = NumberOf(Missed, 6)
        /\ gpr[4] = Truth(Signed(A) < Signed(B)) /\ gpr[5] = Truth(A < B)
    <3>1. program = "branches" /\ Len(Code) = 14 /\ Ended
      BY <1>2, BranchesCode DEF Finished
    <3>2. ASSUME NEW k \in 0 .. 13, pc = 4 * k
          PROVE  FALSE
      <4>1. pc \div 4 = k
        BY <3>2
      <4> QED
        BY <3>1, <4>1 DEF Ended
    <3>3. /\ \A j \in 0 .. 6 : pc # 4 * (2 * j)
          /\ \A j \in 0 .. 5 : pc # 4 * (2 * j + 1)
          /\ pc # 4 * 13
      BY <3>2
    <3> QED
      BY <3>1, <3>3 DEF BranchesInv
  <2>2. ASSUME NEW k \in 1 .. 6
        PROVE  Bit(gpr[3], k - 1) = 0 <=> Takes(Branches[k], A, B)
    <3>1. /\ k - 1 \in 0 .. 5 /\ (k - 1) + 1 = k /\ k - 1 \in 0 .. W
          /\ k - 1 \in 0 .. 6 - 1 /\ 6 \in Nat
      BY WidthType
    <3>2. Power[k - 1] = Pow2[k - 1] /\ k - 1 \in Nat
      BY <3>1, WidthType
    <3>3. (NumberOf(Missed, 6) \div Pow2[k - 1]) % 2 = 1 <=> k - 1 \in Missed
      BY <3>1, NumberBit
    <3>4. (NumberOf(Missed, 6) \div Pow2[k - 1]) % 2 \in {0, 1}
      BY <3>2, NumberIs, RestNext
    <3>5. Bit(gpr[3], k - 1) = (NumberOf(Missed, 6) \div Pow2[k - 1]) % 2
      BY <2>1, <3>2 DEF Bit
    <3>6. k - 1 \in Missed <=> ~Takes(Branches[k], A, B)
      BY <3>1 DEF Missed
    <3> QED
      BY <3>3, <3>4, <3>5, <3>6
  <2>3. /\ Takes(Branches[1], A, B) <=> A = B
        /\ Takes(Branches[2], A, B) <=> A # B
        /\ Takes(Branches[3], A, B) <=> Signed(A) < Signed(B)
        /\ Takes(Branches[4], A, B) <=> Signed(A) >= Signed(B)
        /\ Takes(Branches[5], A, B) <=> A < B
        /\ Takes(Branches[6], A, B) <=> A >= B
    BY BranchNames DEF Branches
  <2>4. A \in Int /\ B \in Int /\ Signed(A) \in Int /\ Signed(B) \in Int
    <3>1. A \in Word /\ B \in Word
      BY <1>2 DEF BranchesInv, Finished, Kept, A, B
    <3> QED
      BY <3>1, WrapIs, WrapSigned
  <2> DEFINE taken(k) == Bit(gpr[3], k - 1) = 0
  <2>5. /\ taken(1) <=> A = B
        /\ taken(2) <=> A # B
        /\ taken(3) <=> Signed(A) < Signed(B)
        /\ taken(4) <=> Signed(A) >= Signed(B)
        /\ taken(5) <=> A < B
        /\ taken(6) <=> A >= B
    BY <2>2, <2>3
  <2>6. \A k \in 1 .. 6 : taken(k) \in BOOLEAN
    OBVIOUS
  <2> HIDE DEF taken
  <2>7. /\ taken(1) # taken(2) /\ taken(3) # taken(4) /\ taken(5) # taken(6)
        /\ taken(1) = (A = B)
        /\ taken(3) = (gpr[4] = 1) /\ taken(5) = (gpr[5] = 1)
    BY <2>1, <2>4, <2>5, <2>6 DEF Truth
  <2> QED
    BY <2>7 DEF taken
<1> QED
  BY <1>1, <1>2 DEF OrderLaw

-----------------------------------------------------------------------------
(* Calls.                                                                  *)

\* The program with the calls.
LEMMA CallCode ==
  ASSUME Programs = LawPrograms, program = "call"
  PROVE  /\ Len(Code) = 9
         /\ Code[1] = OpImm("auipc", 5, 0, 0) /\ Code[2] = OpImm("jalr", 5, 5, 19)
         /\ Code[3] = OpImm("jal", 5, 0, 8) /\ Code[4] = OpImm("jal", 0, 0, 24)
         /\ Code[5] = Op("sh1add", 3, 1, 3) /\ Code[6] = OpImm("auipc", 7, 0, 0)
         /\ Code[7] = Op("add", 4, 4, 7) /\ Code[8] = Op("fence", 0, 0, 0)
         /\ Code[9] = OpImm("jalr", 0, 5, 0)
         /\ {"auipc", "add", "sh1add"} \subseteq Computed
<1>1. {"auipc", "add", "sh1add"} \subseteq Computed
  BY DEF Computed, IntegerOps, BitManipOps
<1>2. /\ Len(Code) = 9
      /\ Code[1] = OpImm("auipc", 5, 0, 0) /\ Code[2] = OpImm("jalr", 5, 5, 19)
      /\ Code[3] = OpImm("jal", 5, 0, 8) /\ Code[4] = OpImm("jal", 0, 0, 24)
      /\ Code[5] = Op("sh1add", 3, 1, 3) /\ Code[6] = OpImm("auipc", 7, 0, 0)
      /\ Code[7] = Op("add", 4, 4, 7) /\ Code[8] = Op("fence", 0, 0, 0)
      /\ Code[9] = OpImm("jalr", 0, 5, 0)
  BY DEF Code, LawPrograms
<1> QED
  BY <1>1, <1>2

\* The place of an auipc with nothing added.
LEMMA AuipcStep ==
  ASSUME Next, Kept, NEW k, At(k), NEW rd \in 3 .. 9,
         Code[k + 1] = OpImm("auipc", rd, 0, 0)
  PROVE  Goes(k + 1, rd) /\ gpr'[rd] = 4 * k
<1>1. NextPc = 4 * (k + 1) /\ Instruction = OpImm("auipc", rd, 0, 0)
  BY PlaceIs
<1>2. /\ Instruction.op = "auipc" /\ Instruction.rd = rd
      /\ Rdata2 = Wrap(0)
  BY <1>1, OpImmIs
<1>3. "auipc" \in Computed /\ "auipc" \in IntegerOps
  BY DEF Computed, IntegerOps
<1>4. Compute
  BY <1>2, <1>3, Names DEF Next, Branch, Jump, FloatStep, IllegalFloat, Nothing
<1>5. /\ gpr' = Written(rd, Result("auipc", Rdata1, Wrap(0), 0))
      /\ pc' = NextPc /\ program' = program /\ fcsr_nv' = fcsr_nv
  <2>1. \E b \in Beyond(Rdata1) :
          gpr' = Written(rd, Result("auipc", Rdata1, Wrap(0), b))
    BY <1>2, <1>4 DEF Compute, Result
  <2>2. \A b : Result("auipc", Rdata1, Wrap(0), b) = Integer("auipc", Rdata1, Wrap(0))
    BY Zenon DEF Result, IntegerOps, MulDivOps, BitManipOps
  <2> QED
    BY <1>4, <2>1, <2>2 DEF Compute, Proceeds
<1>6. Result("auipc", Rdata1, Wrap(0), 0) = Wrap(Wrap(0) + pc)
  BY Zenon DEF Result, IntegerOps, MulDivOps, BitManipOps, Integer
<1>7. Wrap(Wrap(0) + pc) = 4 * k
  <2> DEFINE n == Len(Code)
  <2>1. n \in Nat /\ k \in 0 .. n - 1 /\ pc = 4 * k
    BY DEF At
  <2> HIDE DEF n
  <2>2. k + 0 = k /\ k \in 0 .. n /\ k \in Int /\ 0 + pc = pc + 0 /\ 0 = 4 * 0
    BY <2>1
  <2>3. Wrap(pc + 0) = 4 * k
    <3>1. Wrap(pc + Wrap(4 * 0)) = 4 * k
      BY <2>2, TargetIs DEF n
    <3> QED
      BY <2>2, <3>1, SmallInWord
  <2>4. Wrap(0) + pc = pc + 0
    <3>1. Wrap(0) = 0
      BY SmallInWord
    <3> QED
      BY <2>2, <3>1, Zenon
  <2> QED
    BY <2>3, <2>4, Zenon
<1> DEFINE v == 4 * k
<1>8. gpr' = [gpr EXCEPT ![rd] = v]
  <2>1. gpr' = Written(rd, v)
    BY <1>5, <1>6, <1>7
  <2>2. rd # 0
    OBVIOUS
  <2> HIDE DEF v
  <2> QED
    BY <2>1, <2>2 DEF Written
<1> HIDE DEF v
<1>9. /\ gpr' = [r \in Registers |-> gpr'[r]] /\ gpr'[rd] = v
      /\ \A r \in Registers \ {rd} : gpr'[r] = gpr[r]
  <2>1. rd \in Registers
    BY DEF Registers
  <2>2. gpr' = [r \in Registers |-> IF r = rd THEN v ELSE gpr[r]]
    BY <1>8 DEF Kept
  <2> QED
    BY <2>1, <2>2
<1>10. Kept'
  BY <1>5, <1>9 DEF Kept, Registers
<1> QED
  BY <1>1, <1>5, <1>9, <1>10 DEF Goes, v

\* Twice the first operand, n times.
Sum(n) == Wrap(n * (2 * A))

\* The procedure returns to place c, 2 or 3; register 3 has been added to as
\* often as it was run, and register 4 has its place as often.
CallInv ==
  program = "call" => Kept /\
    \/ pc = 0 /\ gpr[3] = Sum(0) /\ gpr[4] = 0
    \/ pc = 4 * 1 /\ gpr[3] = Sum(0) /\ gpr[4] = 0 /\ gpr[5] = 0
    \/ pc = 4 * 9 /\ gpr[3] = Sum(2) /\ gpr[4] = 40
    \/ \E c \in {2, 3} :
         \/ pc = 4 * c /\ gpr[3] = Sum(c - 1) /\ gpr[4] = 20 * (c - 1)
         \/ /\ gpr[5] = 4 * c
            /\ \/ pc = 4 * 4 /\ gpr[3] = Sum(c - 2) /\ gpr[4] = 20 * (c - 2)
               \/ pc = 4 * 5 /\ gpr[3] = Sum(c - 1) /\ gpr[4] = 20 * (c - 2)
               \/ /\ pc = 4 * 6 /\ gpr[3] = Sum(c - 1) /\ gpr[4] = 20 * (c - 2)
                  /\ gpr[7] = 20
               \/ /\ pc \in {4 * 7, 4 * 8}
                  /\ gpr[3] = Sum(c - 1) /\ gpr[4] = 20 * (c - 1)

\* sh1add adds twice the first operand once more.
LEMMA SumNext ==
  ASSUME NEW n \in Int, A \in Word
  PROVE  Wrap(Sum(n) + Sll(A, 1)) = Sum(n + 1) /\ Sum(0) = 0
<1>1. Sll(A, 1) = Wrap(2 * A) /\ A \in Int
  <2>1. A \in Int /\ A * 2 = 2 * A
    BY AddsEven
  <2>2. Sll(A, 1) = Wrap(A * 2)
    BY LowestIs
  <2> QED
    BY <2>1, <2>2
<1> HIDE DEF A
<1>2. n * (2 * A) \in Int /\ 2 * A \in Int
      /\ n * (2 * A) + 2 * A = (n + 1) * (2 * A)
  BY <1>1
<1>3. Wrap(Wrap(n * (2 * A)) + Wrap(2 * A)) = Wrap((n + 1) * (2 * A))
  BY <1>2, WrapAdd
<1>4. 0 * (2 * A) = 0 /\ Wrap(0) = 0
  BY <1>1, SmallInWord
<1> QED
  BY <1>1, <1>3, <1>4 DEF Sum

\* At the start the procedure has not been run,
LEMMA InitCall == Init => CallInv
<1> SUFFICES ASSUME Init
             PROVE  CallInv
  OBVIOUS
<1>1. Kept /\ pc = 0 /\ gpr[3] = 0 /\ gpr[4] = 0
  BY InitKept
<1>2. Sum(0) = 0
  BY <1>1, SumNext DEF Kept, A
<1> QED
  BY <1>1, <1>2 DEF CallInv

\* Where the jumps of the program go.
LEMMA JumpTargets ==
  /\ JumpTarget(0 + Wrap(19)) = 4 * 4
  /\ \A c \in {2, 3} : JumpTarget(4 * c + Wrap(0)) = 4 * c
<1>1. Wrap(19) = 19 /\ Wrap(0) = 0 /\ Wrap(8) = 8 /\ Wrap(12) = 12
  BY SmallInWord
<1>2. JumpTarget(19) = 16 /\ JumpTarget(8) = 8 /\ JumpTarget(12) = 12
  BY <1>1 DEF JumpTarget
<1>3. 0 + Wrap(19) = 19 /\ \A c \in {2, 3} : 4 * c + Wrap(0) \in {8, 12}
                                         /\ 4 * c + Wrap(0) = 4 * c
  BY <1>1
<1> QED
  BY <1>2, <1>3

\* and every instruction keeps where it returns to and how often it was run.
LEMMA NextCall ==
  ASSUME Programs = LawPrograms, CallInv, Next
  PROVE  CallInv'
<1> SUFFICES ASSUME program = "call"
             PROVE  CallInv'
  BY ProgramStays DEF CallInv
<1>1. Kept /\ ~Ended /\ program' = program
  BY ProgramStays DEF CallInv, Next
<1>2. /\ Len(Code) = 9 /\ \A r \in {1, 2, 3, 4, 5, 6, 7} : r \in Registers
      /\ A \in Word
  BY <1>1, CallCode DEF Registers, Kept, A
<1>3. ASSUME NEW k \in 0 .. 8, pc = 4 * k
      PROVE  At(k)
  BY <1>1, <1>2, <1>3, PlaceOf
<1>4. ASSUME gpr'[1] = gpr[1]
      PROVE  A' = A /\ \A n : Sum(n)' = Sum(n)
  BY <1>4 DEF A, Sum
<1>5. CASE pc = 0 /\ gpr[3] = Sum(0) /\ gpr[4] = 0
  <2>1. Goes(1, 5) /\ gpr'[5] = 4 * 0
    BY <1>1, <1>3, <1>5, CallCode, AuipcStep
  <2>2. \A r \in {1, 3, 4} : gpr'[r] = gpr[r]
    BY <1>2, <2>1 DEF Goes
  <2> QED
    BY <1>4, <1>5, <2>1, <2>2 DEF CallInv, Goes
<1>6. CASE pc = 4 * 1 /\ gpr[3] = Sum(0) /\ gpr[4] = 0 /\ gpr[5] = 0
  <2>1. At(1) /\ 5 \in Registers \ {1, 2} /\ 5 # 0
    BY <1>3, <1>6 DEF Registers
  <2>2. /\ Kept' /\ gpr'[5] = 4 * 2 /\ pc' = JumpTarget(gpr[5] + Wrap(19))
        /\ \A r \in Registers \ {5} : gpr'[r] = gpr[r]
    BY <1>1, <2>1, CallCode, JumpStep
  <2>3. pc' = 4 * 4
    BY <1>6, <2>2, JumpTargets
  <2>4. \A r \in {1, 3, 4} : gpr'[r] = gpr[r]
    BY <1>2, <2>2
  <2> QED
    BY <1>4, <1>6, <2>2, <2>3, <2>4 DEF CallInv
<1>7. CASE pc = 4 * 9
  <2>1. pc \div 4 = 9
    BY <1>7
  <2> QED
    BY <1>1, <1>2, <2>1 DEF Ended
<1>8. ASSUME NEW c \in {2, 3}, pc = 4 * c, gpr[3] = Sum(c - 1),
             gpr[4] = 20 * (c - 1)
      PROVE  CallInv'
  <2>1. At(c) /\ 5 \in Registers \ {1, 2} /\ 5 # 0 /\ 0 \in Registers \ {1, 2}
    BY <1>3, <1>8 DEF Registers
  <2>2. CASE c = 2
    <3>1. /\ Kept' /\ gpr'[5] = 4 * 3 /\ pc' = Wrap(pc + Wrap(8))
          /\ \A r \in Registers \ {5} : gpr'[r] = gpr[r]
      BY <1>1, <2>1, <2>2, CallCode, JumpStep
    <3>2. 2 + 2 = 4 /\ 4 \in 0 .. 9 /\ 2 \in Int
      OBVIOUS
    <3>3. Wrap(pc + Wrap(4 * 2)) = 4 * 4
      BY <1>1, <1>2, <2>1, <2>2, <3>2, TargetIs
    <3>4. \A r \in {1, 3, 4} : gpr'[r] = gpr[r]
      BY <1>2, <3>1
    <3> QED
      BY <1>4, <1>8, <2>2, <3>1, <3>3, <3>4 DEF CallInv
  <2>3. CASE c = 3
    <3>1. /\ Kept' /\ pc' = Wrap(pc + Wrap(24))
          /\ \A r \in Registers \ {0} : gpr'[r] = gpr[r]
      BY <1>1, <2>1, <2>3, CallCode, JumpStep
    <3>2. 3 + 6 = 9 /\ 9 \in 0 .. 9 /\ 6 \in Int
      OBVIOUS
    <3>3. Wrap(pc + Wrap(4 * 6)) = 4 * 9
      BY <1>1, <1>2, <2>1, <2>3, <3>2, TargetIs
    <3>4. \A r \in {1, 3, 4} : gpr'[r] = gpr[r]
      BY <1>2, <3>1
    <3> QED
      BY <1>4, <1>8, <2>3, <3>1, <3>3, <3>4 DEF CallInv
  <2> QED
    BY <2>2, <2>3
<1>9. ASSUME NEW c \in {2, 3}, gpr[5] = 4 * c,
             pc = 4 * 4, gpr[3] = Sum(c - 2), gpr[4] = 20 * (c - 2)
      PROVE  CallInv'
  <2>1. At(4)
    BY <1>3, <1>9
  <2>2. Goes(5, 3) /\ gpr'[3] = Wrap(gpr[3] + Sll(A, 1))
    BY <1>1, <2>1, CallCode, OpStep, BitManipResults DEF A
  <2>3. gpr'[3] = Sum(c - 1)
    <3>1. (c - 2) + 1 = c - 1 /\ c - 2 \in Int
      OBVIOUS
    <3> QED
      BY <1>2, <1>9, <2>2, <3>1, SumNext
  <2>4. \A r \in {1, 4, 5} : gpr'[r] = gpr[r]
    BY <1>2, <2>2 DEF Goes
  <2> QED
    BY <1>4, <1>9, <2>2, <2>3, <2>4 DEF CallInv, Goes
<1>10. ASSUME NEW c \in {2, 3}, gpr[5] = 4 * c,
             pc = 4 * 5, gpr[3] = Sum(c - 1), gpr[4] = 20 * (c - 2)
      PROVE  CallInv'
  <2>1. Goes(6, 7) /\ gpr'[7] = 4 * 5
    BY <1>1, <1>3, <1>10, CallCode, AuipcStep
  <2>2. \A r \in {1, 3, 4, 5} : gpr'[r] = gpr[r]
    BY <1>2, <2>1 DEF Goes
  <2> QED
    BY <1>4, <1>10, <2>1, <2>2 DEF CallInv, Goes
<1>11. ASSUME NEW c \in {2, 3}, gpr[5] = 4 * c, pc = 4 * 6,
              gpr[3] = Sum(c - 1), gpr[4] = 20 * (c - 2), gpr[7] = 20
      PROVE  CallInv'
  <2>1. At(6)
    BY <1>3, <1>11
  <2>2. Goes(7, 4) /\ gpr'[4] = Wrap(gpr[4] + gpr[7])
    BY <1>1, <2>1, CallCode, OpStep, IntegerResults
  <2>3. gpr'[4] = 20 * (c - 1)
    <3>1. gpr[4] + gpr[7] = 20 * (c - 1) /\ 20 * (c - 1) \in 0 .. 63
      BY <1>11
    <3> QED
      BY <2>2, <3>1, SmallInWord
  <2>4. \A r \in {1, 3, 5} : gpr'[r] = gpr[r]
    BY <1>2, <2>2 DEF Goes
  <2> QED
    BY <1>4, <1>11, <2>2, <2>3, <2>4 DEF CallInv, Goes
<1>12. ASSUME NEW c \in {2, 3}, gpr[5] = 4 * c, pc = 4 * 7,
              gpr[3] = Sum(c - 1), gpr[4] = 20 * (c - 1)
      PROVE  CallInv'
  <2>1. At(7)
    BY <1>3, <1>12
  <2>2. Code[8].op = "fence" /\ Code[8].rd = 0
    BY CallCode, OpParts
  <2>3. /\ Kept' /\ pc' = 4 * 8 /\ Does(Code[8], gpr, gpr')
    <3>1. "fence" \in StraightOps /\ 0 \in Registers \ {1, 2}
      BY DEF StraightOps, Registers
    <3> QED
      BY <1>1, <2>1, <2>2, <3>1, StraightStep
  <2>4. \A r \in {1, 3, 4, 5} : gpr'[r] = gpr[r]
    BY <1>2, <2>2, <2>3 DEF Does
  <2> QED
    BY <1>4, <1>12, <2>3, <2>4 DEF CallInv
<1>13. ASSUME NEW c \in {2, 3}, gpr[5] = 4 * c, pc = 4 * 8,
              gpr[3] = Sum(c - 1), gpr[4] = 20 * (c - 1)
      PROVE  CallInv'
  <2>1. At(8) /\ 0 \in Registers \ {1, 2}
    BY <1>3, <1>13 DEF Registers
  <2>2. /\ Kept' /\ pc' = JumpTarget(gpr[5] + Wrap(0))
        /\ \A r \in Registers \ {0} : gpr'[r] = gpr[r]
    BY <1>1, <2>1, CallCode, JumpStep
  <2>3. pc' = 4 * c
    BY <1>13, <2>2, JumpTargets
  <2>4. \A r \in {1, 3, 4} : gpr'[r] = gpr[r]
    BY <1>2, <2>2
  <2> QED
    BY <1>4, <1>13, <2>2, <2>3, <2>4 DEF CallInv
<1> QED
  BY <1>5, <1>6, <1>7, <1>8, <1>9, <1>10, <1>11, <1>12, <1>13 DEF CallInv

\* The program of the scaled additions.
LEMMA AddressesCode ==
  ASSUME Programs = LawPrograms, program = "addresses"
  PROVE  /\ Len(Code) = 5 /\ Straight(Code)
         /\ Code[1] = Op("sh1add", 3, 1, 2)
         /\ Code[2] = Op("sh2add", 4, 1, 2)
         /\ Code[3] = Op("sh3add", 5, 1, 2)
         /\ Code[4] = OpImm("lui", 0, 0, 4)
         /\ Code[5] = Op("unlisted", 9, 1, 2)
         /\ {"sh1add", "sh2add", "sh3add", "lui"} \subseteq Computed
<1>1. /\ Len(Code) = 5
      /\ Code[1] = Op("sh1add", 3, 1, 2) /\ Code[2] = Op("sh2add", 4, 1, 2)
      /\ Code[3] = Op("sh3add", 5, 1, 2) /\ Code[4] = OpImm("lui", 0, 0, 4)
      /\ Code[5] = Op("unlisted", 9, 1, 2)
  BY DEF Code, LawPrograms
<1>2. /\ {"sh1add", "sh2add", "sh3add", "lui"} \subseteq Computed
  BY DEF Computed, IntegerOps, BitManipOps
<1>3. /\ Code[1].op = "sh1add" /\ Code[2].op = "sh2add"
      /\ Code[3].op = "sh3add" /\ Code[4].op = "lui"
      /\ Code[5].op = "unlisted" /\ Code[1].rd = 3 /\ Code[2].rd = 4
      /\ Code[3].rd = 5 /\ Code[4].rd = 0 /\ Code[5].rd = 9
  BY <1>1, OpParts
<1>4. Straight(Code)
  BY <1>1, <1>2, <1>3 DEF Straight, StraightOps, Registers
<1> QED
  BY <1>1, <1>2, <1>4

\* What it leaves in its registers.
LEMMA AddressesDone ==
  ASSUME Programs = LawPrograms, StraightInv, Finished("addresses")
  PROVE  /\ A \in Word /\ B \in Word
         /\ gpr[3] = Wrap(B + Sll(A, 1)) /\ gpr[4] = Wrap(B + Sll(A, 2))
         /\ gpr[5] = Wrap(B + Sll(A, 3)) /\ gpr[9] = 0
<1>1. Len(Code) = 5 /\ Straight(Code) /\ Ended
  BY AddressesCode DEF Finished
<1>2. Kept /\ \E h : Run(h, 5)
  BY <1>1, Ran
<1>3. PICK h : Run(h, 5)
  BY <1>2
<1>4. \A i \in 0 .. 5 : h[i][1] = A /\ h[i][2] = B /\ h[i][0] = 0
  BY <1>3 DEF Run, A, B
<1>5. /\ h[1][3] = Wrap(h[0][2] + Sll(h[0][1], 1))
      /\ h[2][4] = Wrap(h[1][2] + Sll(h[1][1], 2))
      /\ h[3][5] = Wrap(h[2][2] + Sll(h[2][1], 3))
  BY <1>3, AddressesCode, OpDone, BitManipResults DEF Finished
<1>6. /\ \A r \in Registers \ {3} : h[1][r] = h[0][r]
      /\ \A r \in Registers \ {4} : h[2][r] = h[1][r]
      /\ \A r \in Registers \ {5} : h[3][r] = h[2][r]
  <2>1. /\ Code[1].rd = 3 /\ Code[2].rd = 4 /\ Code[3].rd = 5
    BY AddressesCode, OpParts DEF Finished
  <2>2. \A i \in 1 .. 5 :
          \A r \in Registers \ {Code[i].rd} : h[i][r] = h[i - 1][r]
    BY <1>3, Frame
  <2> QED
    BY <2>1, <2>2
<1>7. \A r \in Registers \ {0} : h[4][r] = h[3][r]
  <2>1. Does(Code[4], h[3], h[4]) /\ Code[4].rd = 0
    BY <1>3, AddressesCode, OpParts DEF Run, Finished
  <2> QED
    BY <2>1 DEF Does
<1>8. \A r \in Registers : h[5][r] = h[4][r]
  <2>1. /\ Does(Code[5], h[4], h[5])
        /\ Code[5].rd = 9 /\ Code[5].op = "unlisted"
    BY <1>3, AddressesCode, OpParts DEF Run, Finished
  <2> QED
    BY <2>1 DEF Does
<1> QED
  BY <1>2, <1>3, <1>4, <1>5, <1>6, <1>7, <1>8 DEF Run, Kept, Registers, A, B

\* A shift by n multiplies by the nth power of 2.
LEMMA AddsScaled ==
  ASSUME NEW x \in Word, NEW y \in Word, NEW n \in {1, 2, 3}
  PROVE  Wrap(y + Sll(x, n)) = Wrap(y + x * Power[n])
<1>1. x \in Int /\ y \in Int
  BY AddsEven
<1>2. x * Power[n] \in Int /\ Wrap(y) = y
  <2>1. Power[n] \in Int
    <3>1. 2 \in Int /\ 4 \in Int /\ 8 \in Int
      OBVIOUS
    <3> QED
      BY <3>1, SmallInWord
  <2>2. Wrap(y) = y
    BY WrapIs
  <2> QED
    BY <1>1, <2>1, <2>2
<1>3. Wrap(Wrap(y) + Wrap(x * Power[n])) = Wrap(y + x * Power[n])
  BY <1>1, <1>2, WrapAdd
<1> QED
  BY <1>2, <1>3 DEF Sll

\* Calls return to the instruction after them, and a scaled addition adds.
LEMMA CallHolds ==
  ASSUME Programs = LawPrograms, StraightInv, CallInv
  PROVE  CallLaw
<1>1. ASSUME Finished("call")
      PROVE  gpr[3] = Wrap(2 * A + 2 * A) /\ gpr[4] = 20 + 20
  <2>1. program = "call" /\ Len(Code) = 9 /\ Ended
    BY <1>1, CallCode DEF Finished
  <2>2. ASSUME NEW k \in 0 .. 8, pc = 4 * k
        PROVE  FALSE
    <3>1. pc \div 4 = k
      BY <2>2
    <3> QED
      BY <2>1, <3>1 DEF Ended
  <2>3. pc # 0 /\ \A k \in {1, 2, 3, 4, 5, 6, 7, 8} : pc # 4 * k
    BY <2>2
  <2>4. gpr[3] = Sum(2) /\ gpr[4] = 40 /\ A \in Word
    BY <2>1, <2>3 DEF CallInv, Kept, A
  <2>5. 2 * (2 * A) = 2 * A + 2 * A
    <3>1. A \in Int
      BY <2>4, WrapIs
    <3> HIDE DEF A
    <3> QED
      BY <3>1
  <2> QED
    BY <2>4, <2>5 DEF Sum
<1>2. ASSUME Finished("addresses")
      PROVE  /\ gpr[3] = Wrap(B + 2 * A) /\ gpr[4] = Wrap(B + 4 * A)
             /\ gpr[5] = Wrap(B + 8 * A) /\ gpr[9] = 0
  <2>1. /\ A \in Word /\ B \in Word /\ gpr[9] = 0
        /\ gpr[3] = Wrap(B + Sll(A, 1)) /\ gpr[4] = Wrap(B + Sll(A, 2))
        /\ gpr[5] = Wrap(B + Sll(A, 3))
    BY <1>2, AddressesDone
  <2>2. A * Power[1] = 2 * A /\ A * Power[2] = 4 * A /\ A * Power[3] = 8 * A
    <3>1. A \in Int
      BY <2>1, WrapIs
    <3> HIDE DEF A
    <3> QED
      BY <3>1, SmallInWord
  <2> QED
    BY <2>1, <2>2, AddsScaled
<1> QED
  BY <1>1, <1>2 DEF CallLaw

-----------------------------------------------------------------------------
(* Floating point.                                                         *)

\* A word is the sign and the size of the float it stands for.
LEMMA FloatParts ==
  ASSUME NEW f \in Word
  PROVE  /\ SignBit \in Nat \ {0} /\ Sign(f) \in {0, 1}
         /\ Size(f) \in 0 .. SignBit - 1 /\ f = Size(f) + SignBit * Sign(f)
         /\ Sign(f) = 1 => f = Size(f) + SignBit
         /\ Sign(f) = 0 => f = Size(f)
         /\ Value(f) \in Int
<1> DEFINE d == Power[W - 1]
<1>1. d \in Nat \ {0} /\ Power[W] = 2 * d /\ f \in 0 .. 2 * d - 1 /\ f \in Int
  BY WrapIs
<1> HIDE DEF d
<1>2. /\ f \div d \in {0, 1} /\ (f % d) \in 0 .. d - 1
      /\ f = (f % d) + d * (f \div d)
  <2>1. CASE f < d
    <3>1. f = f + d * 0 /\ f \in Nat /\ 0 \in Nat
      BY <1>1, <2>1
    <3>2. f \div d = 0 /\ f % d = f
      BY <1>1, <2>1, <3>1, DivMod
    <3> QED
      BY <1>1, <2>1, <3>1, <3>2
  <2>2. CASE f >= d
    <3>1. f = (f - d) + d * 1 /\ f - d \in Nat /\ f - d < d /\ 1 \in Nat
      BY <1>1, <2>2
    <3>2. f \div d = 1 /\ f % d = f - d
      BY <1>1, <3>1, DivMod
    <3> QED
      BY <1>1, <2>2, <3>1, <3>2
  <2> QED
    BY <1>1, <2>1, <2>2
<1>3. Sign(f) = f \div d /\ SignBit = d /\ Size(f) = f % d
  <2>1. (f \div d) % 2 = f \div d
    BY <1>2
  <2> QED
    BY <2>1 DEF Sign, Bit, SignBit, Size, d
<1>4. /\ d \in Nat \ {0} /\ Sign(f) \in {0, 1}
      /\ Size(f) \in 0 .. d - 1 /\ f = Size(f) + d * Sign(f)
  BY <1>1, <1>2, <1>3
<1> DEFINE s == Sign(f)
           z == Size(f)
<1> HIDE DEF s, z
<1>5. /\ s = 1 => f = z + d
      /\ s = 0 => f = z
  BY <1>4 DEF s, z
<1>6. Value(f) \in Int
  BY <1>4 DEF Value
<1> QED
  BY <1>3, <1>4, <1>5, <1>6 DEF s, z

\* The float of a size and a sign.
LEMMA FloatOf ==
  ASSUME NEW z \in 0 .. SignBit - 1, NEW s \in {0, 1}
  PROVE  /\ z + SignBit * s \in Word
         /\ Sign(z + SignBit * s) = s /\ Size(z + SignBit * s) = z
<1> DEFINE d == Power[W - 1]
<1>1. /\ d \in Nat \ {0} /\ Power[W] = 2 * d /\ Word = 0 .. 2 * d - 1
      /\ SignBit = d
  BY WrapIs DEF SignBit
<1> HIDE DEF d
<1>2. z \in Nat /\ z < d /\ s \in Nat /\ z + d * s \in 0 .. 2 * d - 1
  BY <1>1
<1>3. (z + d * s) \div d = s /\ (z + d * s) % d = z
  BY <1>1, <1>2, DivMod
<1>4. s % 2 = s
  OBVIOUS
<1> QED
  BY <1>1, <1>2, <1>3, <1>4 DEF Sign, Bit, Size, d

\* Where the infinities are: the largest size there is a number of.
LEMMA FloatLayout ==
  /\ Power[Mantissa] \in Nat \ {0} /\ Power[ExpBits] \in Nat \ {0}
  /\ Power[ExpBits] > 1
  /\ SignBit = Power[ExpBits] * Power[Mantissa]
  /\ Infinity \in Nat /\ Infinity = (Power[ExpBits] - 1) * Power[Mantissa]
  /\ Power[Mantissa] <= Infinity
  /\ Infinity < CanonicalNan /\ CanonicalNan < SignBit
  /\ CanonicalNan \in Word /\ IsNan(CanonicalNan)
<1>1. /\ Mantissa \in 1 .. W /\ Mantissa - 1 \in 0 .. W /\ ExpBits \in 1 .. W
      /\ ExpBits + Mantissa = W - 1 /\ W - 1 \in 0 .. W
      /\ Mantissa \in Nat /\ ExpBits \in Nat /\ ExpBits - 1 \in Nat
      /\ (ExpBits - 1) + 1 = ExpBits /\ (Mantissa - 1) + 1 = Mantissa
      /\ Mantissa - 1 \in Nat
  BY WordsAssumption DEF Mantissa
<1> DEFINE p == Power[Mantissa]
           q == Power[ExpBits]
           u == Power[Mantissa - 1]
           v == Pow2[ExpBits - 1]
           d == SignBit
<1>2. p = Pow2[Mantissa] /\ q = Pow2[ExpBits] /\ d = Pow2[W - 1]
      /\ u = Pow2[Mantissa - 1]
  <2>1. Mantissa \in 0 .. W /\ ExpBits \in 0 .. W
    BY <1>1, WidthType
  <2> QED
    BY <1>1, <2>1, WidthType DEF SignBit
<1>3. d = q * p
  BY <1>1, <1>2, Pow2Plus
<1>4. p = 2 * u /\ u \in Nat \ {0} /\ q = 2 * v /\ v \in Nat \ {0}
  <2>1. u \in Nat \ {0} /\ Pow2[(Mantissa - 1) + 1] = 2 * u
    BY <1>1, <1>2, Pow2Next
  <2>2. v \in Nat \ {0} /\ Pow2[(ExpBits - 1) + 1] = 2 * v
    BY <1>1, Pow2Next
  <2> QED
    BY <1>1, <1>2, <2>1, <2>2
<1> HIDE DEF p, q, u, v, d
<1>5. p \in Nat \ {0} /\ q \in Nat \ {0} /\ q > 1 /\ u < p
  BY <1>4
<1>6. (q - 1) * p \in Nat /\ (q - 1) * p + p = q * p /\ p <= (q - 1) * p
  <2>1. (q - 1) * p + p = q * p
    BY <1>5
  <2>2. (q - 1) * p \in Nat
    BY <1>5
  <2>3. 1 * p <= (q - 1) * p
    <3> DEFINE w == q - 2
    <3>1. w \in Nat /\ q - 1 = w + 1
      BY <1>5
    <3> HIDE DEF w
    <3>2. w * p \in Nat /\ (w + 1) * p = w * p + p
      BY <1>5, <3>1
    <3> QED
      BY <1>5, <3>1, <3>2
  <2> QED
    BY <1>5, <2>1, <2>2, <2>3
<1>7. Infinity = (q - 1) * p /\ CanonicalNan = Infinity + u
  BY DEF Infinity, CanonicalNan, p, q, u
<1>8. /\ Infinity \in Nat /\ p <= Infinity /\ Infinity < CanonicalNan
      /\ CanonicalNan < d /\ CanonicalNan \in 0 .. d - 1
  BY <1>3, <1>4, <1>5, <1>6, <1>7
<1>9. CanonicalNan \in Word /\ Size(CanonicalNan) = CanonicalNan
  <2>1. CanonicalNan + d * 0 = CanonicalNan
    <3>1. d \in Int /\ CanonicalNan \in Int
      BY <1>3, <1>5, <1>8
    <3> QED
      BY <3>1
  <2>2. 0 \in {0, 1}
    OBVIOUS
  <2> QED
    BY <1>8, <2>1, <2>2, FloatOf DEF d
<1> QED
  BY <1>3, <1>5, <1>7, <1>8, <1>9 DEF p, q, d, IsNan

\* Zero has no bits.
LEMMA EmptyWord == 0 \in Word /\ SetBits(0) = {}
<1>1. \A i \in Positions : Bit(0, i) = 0
  <2>1. \A i \in Positions : Power[i] \in Nat \ {0}
    BY WidthType DEF Positions
  <2>2. \A n \in Nat \ {0} : 0 \div n = 0
    OBVIOUS
  <2>3. 0 % 2 = 0
    OBVIOUS
  <2> QED
    BY <2>1, <2>2, <2>3 DEF Bit
<1> QED
  BY <1>1, SmallInWord DEF SetBits

\* Of two zeros, minimum and maximum are told by the bits.
LEMMA WithZero ==
  ASSUME NEW x \in Word
  PROVE  /\ Or(x, x) = x /\ And(x, x) = x
         /\ Or(0, x) = x /\ Or(x, 0) = x /\ And(0, x) = 0 /\ And(x, 0) = 0
<1>1. 0 \in Word /\ SetBits(0) = {}
  BY EmptyWord
<1>2. SetBits(Or(x, x)) = SetBits(x) /\ SetBits(And(x, x)) = SetBits(x)
  BY BitwiseIs
<1>3. /\ SetBits(Or(0, x)) = SetBits(x) /\ SetBits(Or(x, 0)) = SetBits(x)
      /\ SetBits(And(0, x)) = SetBits(0) /\ SetBits(And(x, 0)) = SetBits(0)
  BY <1>1, BitwiseIs
<1>4. /\ Or(x, x) \in Word /\ And(x, x) \in Word /\ Or(0, x) \in Word
      /\ Or(x, 0) \in Word /\ And(0, x) \in Word /\ And(x, 0) \in Word
  BY BitwiseIs
<1> QED
  BY <1>1, <1>2, <1>3, <1>4, SameBits

\* Minimum and maximum of two numbers are the two, in order.
LEMMA Extremes ==
  ASSUME NEW f \in Word, NEW g \in Word, ~IsNan(f), ~IsNan(g)
  PROVE  /\ {Fmin(f, g), Fmax(f, g)} = {f, g}
         /\ \/ Value(Fmin(f, g)) < Value(Fmax(f, g))
            \/ /\ Size(Fmin(f, g)) = 0 /\ Size(Fmax(f, g)) = 0
               /\ Sign(Fmin(f, g)) >= Sign(Fmax(f, g))
            \/ Fmin(f, g) = Fmax(f, g)
<1>1. Value(f) \in Int /\ Value(g) \in Int
  BY FloatParts
<1>2. /\ F32Lt(f, g) <=> Value(f) < Value(g)
      /\ F32Lt(g, f) <=> Value(g) < Value(f)
  BY DEF F32Lt
<1>3. CASE Value(f) < Value(g)
  <2>2. ~(Value(g) < Value(f))
    BY <1>1, <1>3
  <2>1. Fmin(f, g) = f /\ Fmax(f, g) = g
    BY <1>2, <1>3, <2>2, Zenon DEF Fmin, Fmax, Ordered, OfNumbers
  <2> QED
    BY <1>3, <2>1
<1>4. CASE Value(g) < Value(f)
  <2>1. ~(Value(f) < Value(g))
    BY <1>1, <1>4
  <2>2. Fmin(f, g) = g /\ Fmax(f, g) = f
    BY <1>2, <1>4, <2>1, Zenon DEF Fmin, Fmax, Ordered, OfNumbers
  <2> QED
    BY <1>4, <2>2
<1>5. CASE ~(Value(f) < Value(g)) /\ ~(Value(g) < Value(f))
  <2>1. Fmin(f, g) = Or(f, g) /\ Fmax(f, g) = And(f, g)
    BY <1>2, <1>5, Zenon DEF Fmin, Fmax, Ordered, OfNumbers
  <2>2. Value(f) = Value(g)
    BY <1>1, <1>5
  <2>3. CASE f = g
    BY <2>1, <2>3, WithZero
  <2>4. CASE f # g
    <3>1. /\ Size(f) = 0 /\ Size(g) = 0
          /\ (Sign(f) = 1 /\ Sign(g) = 0) \/ (Sign(f) = 0 /\ Sign(g) = 1)
      <4> DEFINE s == Sign(f)
                 t == Sign(g)
                 x == Size(f)
                 y == Size(g)
      <4>1. s \in {0, 1} /\ t \in {0, 1} /\ x \in Nat /\ y \in Nat
        BY FloatParts
      <4>2. s = t => x # y
        BY <2>4, FloatParts
      <4>3. /\ s = 1 => Value(f) = -x
            /\ s = 0 => Value(f) = x
            /\ t = 1 => Value(g) = -y
            /\ t = 0 => Value(g) = y
        BY DEF Value
      <4> HIDE DEF s, t, x, y
      <4>4. x = 0 /\ y = 0 /\ ((s = 1 /\ t = 0) \/ (s = 0 /\ t = 1))
        BY <1>1, <2>2, <4>1, <4>2, <4>3
      <4> QED
        BY <4>4 DEF s, t, x, y
    <3>2. CASE Sign(f) = 1 /\ Sign(g) = 0
      <4>1. g = 0
        BY <3>1, <3>2, FloatParts
      <4>2. Fmin(f, g) = f /\ Fmax(f, g) = g
        BY <2>1, <4>1, WithZero
      <4> QED
        BY <3>1, <3>2, <4>2
    <3>3. CASE Sign(f) = 0 /\ Sign(g) = 1
      <4>1. f = 0
        BY <3>1, <3>3, FloatParts
      <4>2. Fmin(f, g) = g /\ Fmax(f, g) = f
        BY <2>1, <4>1, WithZero
      <4> QED
        BY <3>1, <3>3, <4>2
    <3> QED
      BY <3>1, <3>2, <3>3
  <2> QED
    BY <2>3, <2>4
<1> QED
  BY <1>3, <1>4, <1>5

\* Where a number stands among those of its sign: infinity, normal, subnormal
\* or zero.
SizeClass(z) ==
  CASE z >= Infinity -> 0
    [] z < Infinity /\ z >= Power[Mantissa] -> 1
    [] z < Power[Mantissa] /\ z # 0 -> 2
    [] z = 0 -> 3

\* How large a float is: infinite or more, normal, subnormal or zero.
LEMMA SizeClasses ==
  ASSUME NEW z \in Nat
  PROVE  /\ z >= Infinity <=> SizeClass(z) = 0
         /\ z < Infinity /\ z >= Power[Mantissa] <=> SizeClass(z) = 1
         /\ z < Power[Mantissa] /\ z # 0 <=> SizeClass(z) = 2
         /\ z = 0 <=> SizeClass(z) = 3
         /\ SizeClass(z) \in 0 .. 3
<1> DEFINE p == Power[Mantissa]
           i == Infinity
<1>1. p \in Nat \ {0} /\ i \in Nat /\ p <= i
  BY FloatLayout
<1>2. SizeClass(z) = CASE z >= i -> 0
                       [] z < i /\ z >= p -> 1
                       [] z < p /\ z # 0 -> 2
                       [] z = 0 -> 3
  BY DEF SizeClass
<1> HIDE DEF p, i
<1>3. CASE z >= i
  <2>1. ~(z < i) /\ ~(z < p) /\ z # 0
    BY <1>1, <1>3
  <2>2. SizeClass(z) = 0
    BY <1>2, <1>3, <2>1, Zenon
  <2> QED
    BY <1>3, <2>1, <2>2 DEF p, i
<1>4. CASE z < i /\ z >= p
  <2>1. ~(z >= i) /\ ~(z < p) /\ z # 0
    BY <1>1, <1>4
  <2>2. SizeClass(z) = 1
    BY <1>2, <1>4, <2>1, Zenon
  <2> QED
    BY <1>4, <2>1, <2>2 DEF p, i
<1>5. CASE z < p /\ z # 0
  <2>1. ~(z >= i) /\ ~(z >= p)
    BY <1>1, <1>5
  <2>2. SizeClass(z) = 2
    BY <1>2, <1>5, <2>1, Zenon
  <2> QED
    BY <1>5, <2>1, <2>2 DEF p, i
<1>6. CASE z = 0
  <2>1. ~(z >= i) /\ ~(z >= p) /\ z < p
    BY <1>1, <1>6
  <2>2. SizeClass(z) = 3
    BY <1>2, <1>6, <2>1, Zenon
  <2> QED
    BY <1>6, <2>1, <2>2 DEF p, i
<1> QED
  BY <1>1, <1>3, <1>4, <1>5, <1>6

\* Its class follows from its sign and from how large it is.
LEMMA Classes ==
  ASSUME NEW f \in Word
  PROVE  /\ IsSnan(f) => Classify(f) = 8
         /\ IsNan(f) /\ ~IsSnan(f) => Classify(f) = 9
         /\ ~IsNan(f) =>
              /\ Sign(f) = 1 => Classify(f) = SizeClass(Size(f))
              /\ Sign(f) = 0 => Classify(f) = 7 - SizeClass(Size(f))
<1> DEFINE p == Power[Mantissa]
           q == Power[ExpBits]
           d == SignBit
           z == Size(f)
           s == Sign(f)
           exp == z \div p
           mant == Field(f, Mantissa)
           size == CASE exp = q - 1 -> 0
                     [] exp = 0 /\ mant # 0 -> 2
                     [] exp = 0 /\ mant = 0 -> 3
                     [] OTHER -> 1
           c == SizeClass(z)
<1>1. Classify(f) = CASE IsSnan(f) -> 8
                      [] IsNan(f) /\ ~IsSnan(f) -> 9
                      [] OTHER -> IF s = 1 THEN size ELSE 7 - size
  BY Zenon DEF Classify
<1>2. /\ p \in Nat \ {0} /\ q \in Nat /\ q > 1 /\ d = q * p
      /\ Infinity = (q - 1) * p /\ p <= Infinity
      /\ z \in 0 .. d - 1 /\ s \in {0, 1} /\ f = z + d * s
  BY FloatLayout, FloatParts
<1>3. mant = f % p
  BY DEF Field
<1> HIDE DEF p, q, d, z, s, mant
<1>4. exp \in Nat /\ (z % p) \in 0 .. p - 1 /\ z = (z % p) + p * exp
      /\ exp \in 0 .. q - 1
  <2>1. exp \in Int /\ (z % p) \in 0 .. p - 1 /\ z = (z % p) + p * exp
    BY <1>2
  <2>2. 0 <= exp /\ exp < q
    <3>1. p * 0 <= z /\ z < p * q /\ q \in Int /\ 0 \in Int /\ z \in Int
      BY <1>2
    <3> QED
      BY <1>2, <3>1, QuotientBound
  <2> QED
    BY <1>2, <2>1, <2>2
<1>5. mant = z % p
  <2> DEFINE e == z \div p
             m == z % p
             t == q * s
  <2>1. e \in Nat /\ m \in 0 .. p - 1 /\ z = m + p * e /\ t \in Nat
    <3>1. t \in Nat
      BY <1>2
    <3> QED
      BY <1>4, <3>1
  <2>2. d * s = p * t
    BY <1>2
  <2> HIDE DEF e, m, t
  <2>3. m \in Nat /\ m < p /\ e + t \in Nat /\ f = m + p * (e + t)
    <3>1. p * (e + t) = p * e + p * t /\ p * e \in Int /\ p * t \in Int
      BY <1>2, <2>1
    <3> QED
      BY <1>2, <2>1, <2>2, <3>1
  <2>4. f % p = m
    <3> DEFINE k == e + t
    <3>1. p \in Nat \ {0} /\ k \in Nat /\ f = m + p * k
      BY <1>2, <2>3
    <3> HIDE DEF k
    <3>2. (m + p * k) % p = m
      BY <2>3, <3>1, DivMod
    <3> QED
      BY <3>1, <3>2
  <2> QED
    BY <1>3, <2>4 DEF m
<1>6. /\ exp = q - 1 <=> z >= Infinity
      /\ exp = 0 <=> z < p
      /\ exp = 0 => mant = z
      /\ exp = 0 => exp # q - 1
  <2> DEFINE e == z \div p
             m == z % p
             i == Infinity
  <2>1. /\ e \in Nat /\ m \in 0 .. p - 1 /\ z = m + p * e /\ e \in 0 .. q - 1
        /\ mant = m
    BY <1>4, <1>5
  <2>2. i = p * (q - 1) /\ i \in Int
    BY <1>2
  <2> HIDE DEF e, m, i
  <2>3. CASE e = 0
    <3>1. p * e = 0 /\ z = m /\ z < p
      BY <1>2, <2>1, <2>3
    <3>2. z < i
      BY <1>2, <2>2, <3>1 DEF i
    <3> QED
      BY <1>2, <2>1, <2>2, <2>3, <3>1, <3>2 DEF e, i
  <2>4. CASE e = q - 1
    <3>1. z >= i
      BY <1>2, <2>1, <2>2, <2>4
    <3>2. z >= p /\ e # 0
      BY <1>2, <2>1, <2>2, <2>4, <3>1 DEF i
    <3> QED
      BY <1>2, <2>1, <2>2, <2>4, <3>1, <3>2 DEF e, i
  <2>5. CASE e # 0 /\ e # q - 1
    <3> DEFINE a == e - 1
               b == (q - 1) - (e + 1)
    <3>1. a \in Nat /\ e = a + 1 /\ b \in Nat /\ q - 1 = e + 1 + b
      BY <1>2, <2>1, <2>5
    <3> HIDE DEF a, b
    <3>2. p * e = p * a + p /\ p * a \in Nat
      BY <1>2, <3>1
    <3>3. i = p * e + p + p * b /\ p * b \in Nat /\ p * e \in Nat
      <4>1. p * (e + 1 + b) = p * e + p + p * b
        BY <1>2, <2>1, <3>1
      <4>2. p * b \in Nat /\ p * e \in Nat
        BY <1>2, <2>1, <3>1
      <4> QED
        BY <2>2, <3>1, <4>1, <4>2
    <3>4. z >= p /\ z < i
      BY <1>2, <2>1, <3>2, <3>3
    <3> QED
      BY <1>2, <2>1, <2>2, <2>5, <3>4 DEF e, i
  <2> QED
    BY <2>3, <2>4, <2>5
<1>7. z \in Nat /\ exp \in Int
  BY <1>2, <1>4
<1>8. ~IsNan(f) => size = c
  <2>1. CASE exp = q - 1
    <3>1. size = 0
      BY <1>6, <2>1, Zenon
    <3>2. c = 0
      BY <1>6, <1>7, <2>1, SizeClasses
    <3> QED
      BY <3>1, <3>2
  <2>2. CASE exp = 0 /\ mant # 0
    <3>1. size = 2
      BY <1>6, <2>2, Zenon
    <3>2. c = 2
      BY <1>6, <1>7, <2>2, SizeClasses DEF p
    <3> QED
      BY <3>1, <3>2
  <2>3. CASE exp = 0 /\ mant = 0
    <3>1. size = 3
      BY <1>6, <2>3, Zenon
    <3>2. c = 3
      BY <1>6, <1>7, <2>3, SizeClasses
    <3> QED
      BY <3>1, <3>2
  <2>4. CASE exp # 0 /\ exp # q - 1
    <3>1. size = 1
      BY <2>4, Zenon
    <3>2. z < Infinity /\ z >= p
      <4>1. Infinity \in Int /\ p \in Int
        BY <1>2
      <4> QED
        BY <1>6, <1>7, <2>4, <4>1
    <3>3. c = 1
      BY <1>7, <3>2, SizeClasses DEF p
    <3> QED
      BY <3>1, <3>3
  <2> QED
    BY <2>1, <2>2, <2>3, <2>4
<1>9. IsSnan(f) => IsNan(f)
  BY DEF IsSnan
<1> HIDE DEF size, c
<1>10. /\ IsSnan(f) => Classify(f) = 8
       /\ IsNan(f) /\ ~IsSnan(f) => Classify(f) = 9
       /\ ~IsNan(f) => Classify(f) = IF s = 1 THEN size ELSE 7 - size
  BY <1>1, <1>9, Zenon
<1>11. s = 0 => ~(s = 1)
  OBVIOUS
<1>12. ~IsNan(f) => /\ s = 1 => Classify(f) = c
                    /\ s = 0 => Classify(f) = 7 - c
  BY <1>8, <1>10, <1>11, Zenon
<1> QED
  BY <1>10, <1>12 DEF s, c, z

\* The classes are in the order of the floats, and tell zeros and NaNs.
LEMMA ClassesInOrder ==
  ASSUME NEW f \in Word, NEW g \in Word
  PROVE  /\ F32Lt(f, g) => Classify(f) <= Classify(g)
         /\ IsNan(f) <=> Classify(f) \in {8, 9}
         /\ Classify(f) \in {3, 4} <=> Size(f) = 0
<1> DEFINE x == Size(f)
           y == Size(g)
           k == SizeClass(x)
           l == SizeClass(y)
           p == Power[Mantissa]
           i == Infinity
<1>1. /\ x \in Nat /\ y \in Nat /\ Sign(f) \in {0, 1} /\ Sign(g) \in {0, 1}
      /\ p \in Nat \ {0} /\ i \in Nat /\ p <= i /\ i \in Int /\ p \in Int
  BY FloatParts, FloatLayout
<1>2. /\ k \in 0 .. 3 /\ l \in 0 .. 3
      /\ x >= i <=> k = 0
      /\ (x < i /\ x >= p) <=> k = 1
      /\ (x < p /\ x # 0) <=> k = 2
      /\ x = 0 <=> k = 3
      /\ y >= i <=> l = 0
      /\ (y < i /\ y >= p) <=> l = 1
      /\ (y < p /\ y # 0) <=> l = 2
      /\ y = 0 <=> l = 3
  BY <1>1, SizeClasses
<1>3. /\ IsSnan(f) => Classify(f) = 8
      /\ IsNan(f) /\ ~IsSnan(f) => Classify(f) = 9
      /\ ~IsNan(f) => /\ Sign(f) = 1 => Classify(f) = k
                      /\ Sign(f) = 0 => Classify(f) = 7 - k
      /\ ~IsNan(g) => /\ Sign(g) = 1 => Classify(g) = l
                      /\ Sign(g) = 0 => Classify(g) = 7 - l
      /\ IsSnan(f) => IsNan(f) /\ x > i
      /\ IsNan(f) <=> x > i
  BY Classes DEF IsNan, IsSnan
<1> HIDE DEF k, l, p, i
<1>4. IsNan(f) <=> Classify(f) \in {8, 9}
  <2>1. CASE IsNan(f)
    BY <1>3, <2>1
  <2>2. CASE ~IsNan(f)
    <3>1. Classify(f) = k \/ Classify(f) = 7 - k
      BY <1>1, <1>3, <2>2
    <3> QED
      BY <1>2, <2>2, <3>1
  <2> QED
    BY <2>1, <2>2
<1>5. Classify(f) \in {3, 4} <=> x = 0
  <2>1. CASE IsNan(f)
    <3>1. x > i /\ x # 0 /\ Classify(f) \in {8, 9}
      BY <1>1, <1>3, <2>1
    <3> QED
      BY <3>1
  <2>2. CASE ~IsNan(f)
    <3>1. Classify(f) = k \/ Classify(f) = 7 - k
      BY <1>1, <1>3, <2>2
    <3>2. Classify(f) \in {3, 4} <=> k = 3
      BY <1>2, <3>1
    <3> QED
      BY <1>2, <3>2
  <2> QED
    BY <2>1, <2>2
<1>6. ASSUME F32Lt(f, g)
      PROVE  Classify(f) <= Classify(g)
  <2>1. ~IsNan(f) /\ ~IsNan(g) /\ Value(f) < Value(g)
    BY <1>6 DEF F32Lt
  <2>2. /\ Sign(f) = 1 => Value(f) = -x
        /\ Sign(f) = 0 => Value(f) = x
        /\ Sign(g) = 1 => Value(g) = -y
        /\ Sign(g) = 0 => Value(g) = y
    BY DEF Value
  <2>3. x < y => k >= l
    BY <1>1, <1>2
  <2>4. y < x => l >= k
    BY <1>1, <1>2
  <2> HIDE DEF x, y
  <2>5. CASE Sign(f) = 1 /\ Sign(g) = 1
    <3>1. y < x
      BY <1>1, <2>1, <2>2, <2>5
    <3> QED
      BY <1>2, <1>3, <2>1, <2>4, <2>5, <3>1
  <2>6. CASE Sign(f) = 0 /\ Sign(g) = 0
    <3>1. x < y
      BY <1>1, <2>1, <2>2, <2>6
    <3> QED
      BY <1>2, <1>3, <2>1, <2>3, <2>6, <3>1
  <2>7. CASE Sign(f) = 1 /\ Sign(g) = 0
    BY <1>2, <1>3, <2>1, <2>7
  <2>8. CASE Sign(f) = 0 /\ Sign(g) = 1
    BY <1>1, <2>1, <2>2, <2>8
  <2> QED
    BY <1>1, <2>5, <2>6, <2>7, <2>8
<1> QED
  BY <1>4, <1>5, <1>6

\* A sign injection moves the sign only.
LEMMA SignsMove ==
  ASSUME NEW f \in Word, NEW g \in Word
  PROVE  /\ Sign(Fsgnj(f, g)) = Sign(g) /\ Sign(Fsgnjn(f, g)) = 1 - Sign(g)
         /\ Sign(Fsgnj(f, g)) # Sign(Fsgnjn(f, g))
         /\ Fsgnjx(Fsgnjx(f, g), g) = f
<1>1. /\ Size(f) \in 0 .. SignBit - 1 /\ Sign(g) \in {0, 1}
      /\ 1 - Sign(g) \in {0, 1} /\ 0 \in 0 .. SignBit - 1
  <2>1. SignBit \in Nat \ {0} /\ Size(f) \in 0 .. SignBit - 1 /\ Sign(g) \in {0, 1}
    BY FloatParts
  <2> QED
    BY <2>1
<1>2. Sign(Fsgnj(f, g)) = Sign(g) /\ Sign(Fsgnjn(f, g)) = 1 - Sign(g)
  BY <1>1, FloatOf DEF Fsgnj, Fsgnjn
<1> DEFINE m == SignBit * Sign(g)
           x == Xor(f, m)
<1>3. m \in Word
  <2>1. 0 + m \in Word
    BY <1>1, FloatOf
  <2>2. m \in Int
    BY <1>1, FloatParts
  <2> QED
    BY <2>1, <2>2
<1>4. x \in Word /\ Xor(x, m) \in Word
  BY BitwiseIs
<1>5. /\ SetBits(x) = (SetBits(f) \ SetBits(m)) \cup (SetBits(m) \ SetBits(f))
      /\ SetBits(Xor(x, m)) =
           (SetBits(x) \ SetBits(m)) \cup (SetBits(m) \ SetBits(x))
  BY <1>3, <1>4, XorIs
<1>6. Xor(x, m) = f
  <2>1. SetBits(Xor(x, m)) = SetBits(f)
    BY <1>5
  <2> QED
    BY <1>4, <2>1, SameBits
<1>7. Sign(g) # 1 - Sign(g)
  BY <1>1
<1> QED
  BY <1>2, <1>6, <1>7 DEF Fsgnjx

\* What each of the floating-point operations computes, by name.
LEMMA FloatResults ==
  ASSUME NEW f, NEW g
  PROVE  /\ Float("fmin", f, g) = Fmin(f, g)
         /\ Float("fmax", f, g) = Fmax(f, g)
         /\ Float("flt", f, g) = Truth(F32Lt(f, g))
         /\ Float("fle", f, g) = Truth(F32Le(f, g))
         /\ Float("feq", f, g) = Truth(F32Eq(f, g))
         /\ Float("fsgnj", f, g) = Fsgnj(f, g)
         /\ Float("fsgnjn", f, g) = Fsgnjn(f, g)
         /\ Float("fsgnjx", f, g) = Fsgnjx(f, g)
         /\ Float("fclass", f, g) = Classify(f)
BY Zenon DEF Float

\* What a float instruction has done, and whether it raised the flag.
LEMMA FpDone ==
  ASSUME NEW h, NEW k \in Nat, Run(h, k), NEW i \in 0 .. k - 1,
         NEW op \in FloatOps, NEW rd \in 3 .. 9, NEW ins,
         Code[i + 1] = ins, ins.op = op, ins.rd = rd
  PROVE  /\ h[i + 1][rd] = Float(op, h[i][ins.r1], Second(ins, h[i]))
         /\ \A r \in Registers \ {rd} : h[i + 1][r] = h[i][r]
         /\ Raises(Code[i + 1], h[i]) <=>
              Invalid(op, h[i][ins.r1], Second(ins, h[i]))
<1>1. Does(ins, h[i], h[i + 1])
  BY DEF Run
<1> QED
  BY <1>1 DEF Does, Raises

\* The program of the minima, classes and signs.
LEMMA FloatsCode ==
  ASSUME Programs = LawPrograms, program = "floats"
  PROVE  /\ Len(Code) = 7 /\ Straight(Code)
         /\ Code[1] = Fp("fmin", 3, 0) /\ Code[2] = Fp("fmax", 4, 0)
         /\ Code[3] = Fp("fclass", 5, 0) /\ Code[4] = Op("fclass", 9, 2, 0)
         /\ Code[5] = Fp("fsgnj", 6, 0) /\ Code[6] = Fp("fsgnjn", 7, 0)
         /\ Code[7] = Fp("fsgnjx", 8, 0)
         /\ {"fmin", "fmax", "fclass", "fsgnj", "fsgnjn", "fsgnjx"} \subseteq
              FloatOps
<1>1. /\ Len(Code) = 7
      /\ Code[1] = Fp("fmin", 3, 0) /\ Code[2] = Fp("fmax", 4, 0)
      /\ Code[3] = Fp("fclass", 5, 0) /\ Code[4] = Op("fclass", 9, 2, 0)
      /\ Code[5] = Fp("fsgnj", 6, 0) /\ Code[6] = Fp("fsgnjn", 7, 0)
      /\ Code[7] = Fp("fsgnjx", 8, 0)
  BY DEF Code, LawPrograms
<1>2. {"fmin", "fmax", "fclass", "fsgnj", "fsgnjn", "fsgnjx"} \subseteq FloatOps
  BY DEF FloatOps
<1>3. /\ Code[1].op = "fmin" /\ Code[2].op = "fmax" /\ Code[3].op = "fclass"
      /\ Code[4].op = "fclass" /\ Code[5].op = "fsgnj"
      /\ Code[6].op = "fsgnjn" /\ Code[7].op = "fsgnjx" /\ Code[1].rd = 3
      /\ Code[2].rd = 4 /\ Code[3].rd = 5 /\ Code[4].rd = 9 /\ Code[5].rd = 6
      /\ Code[6].rd = 7 /\ Code[7].rd = 8
  BY <1>1, OpParts
<1>4. Straight(Code)
  BY <1>1, <1>2, <1>3 DEF Straight, StraightOps, Registers
<1> QED
  BY <1>1, <1>2, <1>4

\* What it leaves in its registers, and when it raises the invalid flag.
LEMMA FloatsDone ==
  ASSUME Programs = LawPrograms, StraightInv, Finished("floats")
  PROVE  /\ A \in Word /\ B \in Word
         /\ gpr[3] = Fmin(A, B) /\ gpr[4] = Fmax(A, B)
         /\ gpr[5] = Classify(A) /\ gpr[9] = Classify(B)
         /\ gpr[6] = Fsgnj(A, B) /\ gpr[7] = Fsgnjn(A, B)
         /\ gpr[8] = Fsgnjx(A, B)
         /\ fcsr_nv <=> IsSnan(A) \/ IsSnan(B)
         /\ fcsr_nv \in BOOLEAN
<1>1. Len(Code) = 7 /\ Straight(Code) /\ Ended
  BY FloatsCode DEF Finished
<1>2. Kept /\ \E h : Run(h, 7)
  BY <1>1, Ran
<1>3. PICK h : Run(h, 7)
  BY <1>2
<1>4. \A i \in 0 .. 7 : h[i][1] = A /\ h[i][2] = B /\ h[i][0] = 0
  BY <1>3 DEF Run, A, B
<1>5. /\ h[1][3] = Float("fmin", h[0][1], h[0][2])
      /\ h[2][4] = Float("fmax", h[1][1], h[1][2])
      /\ h[3][5] = Float("fclass", h[2][1], h[2][2])
      /\ h[4][9] = Float("fclass", h[3][2], h[3][0])
      /\ h[5][6] = Float("fsgnj", h[4][1], h[4][2])
      /\ h[6][7] = Float("fsgnjn", h[5][1], h[5][2])
      /\ h[7][8] = Float("fsgnjx", h[6][1], h[6][2])
  BY <1>3, FloatsCode, FpDone, OpParts DEF Finished
<1>6. /\ \A r \in Registers \ {3} : h[1][r] = h[0][r]
      /\ \A r \in Registers \ {4} : h[2][r] = h[1][r]
      /\ \A r \in Registers \ {5} : h[3][r] = h[2][r]
      /\ \A r \in Registers \ {9} : h[4][r] = h[3][r]
      /\ \A r \in Registers \ {6} : h[5][r] = h[4][r]
      /\ \A r \in Registers \ {7} : h[6][r] = h[5][r]
      /\ \A r \in Registers \ {8} : h[7][r] = h[6][r]
  <2>1. /\ Code[1].rd = 3 /\ Code[2].rd = 4 /\ Code[3].rd = 5
        /\ Code[4].rd = 9 /\ Code[5].rd = 6 /\ Code[6].rd = 7
        /\ Code[7].rd = 8
    BY FloatsCode, OpParts DEF Finished
  <2>2. \A i \in 1 .. 7 :
          \A r \in Registers \ {Code[i].rd} : h[i][r] = h[i - 1][r]
    BY <1>3, Frame
  <2>3. /\ \A r \in Registers \ {3} : h[1][r] = h[0][r]
        /\ \A r \in Registers \ {4} : h[2][r] = h[1][r]
        /\ \A r \in Registers \ {5} : h[3][r] = h[2][r]
        /\ \A r \in Registers \ {9} : h[4][r] = h[3][r]
    BY <2>1, <2>2
  <2>4. /\ \A r \in Registers \ {6} : h[5][r] = h[4][r]
        /\ \A r \in Registers \ {7} : h[6][r] = h[5][r]
        /\ \A r \in Registers \ {8} : h[7][r] = h[6][r]
    BY <2>1, <2>2
  <2> QED
    BY <2>3, <2>4
<1>7. /\ Raises(Code[0 + 1], h[0]) <=> IsSnan(A) \/ IsSnan(B)
      /\ Raises(Code[1 + 1], h[1]) <=> IsSnan(A) \/ IsSnan(B)
      /\ \A i \in {2, 3, 4, 5, 6} : ~Raises(Code[i + 1], h[i])
  <2>1. /\ Raises(Code[1], h[0]) <=> Invalid("fmin", h[0][1], h[0][2])
        /\ Raises(Code[2], h[1]) <=> Invalid("fmax", h[1][1], h[1][2])
        /\ Raises(Code[3], h[2]) <=> Invalid("fclass", h[2][1], h[2][2])
        /\ Raises(Code[4], h[3]) <=> Invalid("fclass", h[3][2], h[3][0])
        /\ Raises(Code[5], h[4]) <=> Invalid("fsgnj", h[4][1], h[4][2])
        /\ Raises(Code[6], h[5]) <=> Invalid("fsgnjn", h[5][1], h[5][2])
        /\ Raises(Code[7], h[6]) <=> Invalid("fsgnjx", h[6][1], h[6][2])
    BY <1>3, FloatsCode, FpDone, OpParts DEF Finished
  <2>2. \A f, g : /\ Invalid("fmin", f, g) <=> IsSnan(f) \/ IsSnan(g)
                  /\ Invalid("fmax", f, g) <=> IsSnan(f) \/ IsSnan(g)
                  /\ ~Invalid("fclass", f, g) /\ ~Invalid("fsgnj", f, g)
                  /\ ~Invalid("fsgnjn", f, g) /\ ~Invalid("fsgnjx", f, g)
    BY DEF Invalid
  <2> QED
    BY <1>4, <2>1, <2>2
<1>8. fcsr_nv <=> IsSnan(A) \/ IsSnan(B)
  <2>1. fcsr_nv <=> \E i \in 0 .. 6 : Raises(Code[i + 1], h[i])
    BY <1>3 DEF Run
  <2>2. 0 .. 6 = {0, 1, 2, 3, 4, 5, 6}
    OBVIOUS
  <2> QED
    BY <1>7, <2>1, <2>2
<1>9. /\ gpr[3] = Fmin(A, B) /\ gpr[4] = Fmax(A, B)
      /\ gpr[5] = Classify(A) /\ gpr[9] = Classify(B)
      /\ gpr[6] = Fsgnj(A, B) /\ gpr[7] = Fsgnjn(A, B)
      /\ gpr[8] = Fsgnjx(A, B)
  <2>1. /\ h[1][3] = Fmin(A, B) /\ h[2][4] = Fmax(A, B)
        /\ h[3][5] = Classify(A) /\ h[4][9] = Classify(B)
        /\ h[5][6] = Fsgnj(A, B) /\ h[6][7] = Fsgnjn(A, B)
        /\ h[7][8] = Fsgnjx(A, B)
    BY <1>4, <1>5, FloatResults
  <2>2. gpr = h[7] /\ 3 .. 9 \subseteq Registers
    BY <1>3 DEF Run, Registers
  <2> QED
    BY <1>6, <2>1, <2>2 DEF Registers
<1> QED
  BY <1>2, <1>8, <1>9 DEF Kept, A, B

\* The program of the comparisons.
LEMMA ComparesCode ==
  ASSUME Programs = LawPrograms, program = "compares"
  PROVE  /\ Len(Code) = 3 /\ Straight(Code)
         /\ Code[1] = Fp("feq", 5, 0) /\ Code[2] = Fp("flt", 3, 0)
         /\ Code[3] = Fp("fle", 4, 0)
         /\ {"feq", "flt", "fle"} \subseteq FloatOps
<1>1. /\ Len(Code) = 3
      /\ Code[1] = Fp("feq", 5, 0) /\ Code[2] = Fp("flt", 3, 0)
      /\ Code[3] = Fp("fle", 4, 0)
  BY DEF Code, LawPrograms
<1>2. {"feq", "flt", "fle"} \subseteq FloatOps
  BY DEF FloatOps
<1>3. /\ Code[1].op = "feq" /\ Code[2].op = "flt" /\ Code[3].op = "fle"
      /\ Code[1].rd = 5 /\ Code[2].rd = 3 /\ Code[3].rd = 4
  BY <1>1, OpParts
<1>4. Straight(Code)
  BY <1>1, <1>2, <1>3 DEF Straight, StraightOps, Registers
<1> QED
  BY <1>1, <1>2, <1>4

\* What it leaves in its registers, and when it raises the invalid flag.
LEMMA ComparesDone ==
  ASSUME Programs = LawPrograms, StraightInv, Finished("compares")
  PROVE  /\ A \in Word /\ B \in Word
         /\ gpr[5] = Truth(F32Eq(A, B)) /\ gpr[3] = Truth(F32Lt(A, B))
         /\ gpr[4] = Truth(F32Le(A, B))
         /\ fcsr_nv <=> IsNan(A) \/ IsNan(B)
         /\ fcsr_nv \in BOOLEAN
<1>1. Len(Code) = 3 /\ Straight(Code) /\ Ended
  BY ComparesCode DEF Finished
<1>2. Kept /\ \E h : Run(h, 3)
  BY <1>1, Ran
<1>3. PICK h : Run(h, 3)
  BY <1>2
<1>4. \A i \in 0 .. 3 : h[i][1] = A /\ h[i][2] = B /\ h[i][0] = 0
  BY <1>3 DEF Run, A, B
<1>5. /\ h[1][5] = Float("feq", h[0][1], h[0][2])
      /\ h[2][3] = Float("flt", h[1][1], h[1][2])
      /\ h[3][4] = Float("fle", h[2][1], h[2][2])
  <2>1. /\ 3 \in Nat /\ 0 \in 0 .. 3 - 1 /\ 1 \in 0 .. 3 - 1 /\ 2 \in 0 .. 3 - 1
        /\ 3 \in 3 .. 9 /\ 4 \in 3 .. 9 /\ 5 \in 3 .. 9
    OBVIOUS
  <2>2. /\ Code[0 + 1] = Fp("feq", 5, 0) /\ Code[1 + 1] = Fp("flt", 3, 0)
        /\ Code[2 + 1] = Fp("fle", 4, 0)
        /\ {"feq", "flt", "fle"} \subseteq FloatOps
    BY ComparesCode DEF Finished
  <2>3. h[0 + 1][5] = Float("feq", h[0][1], h[0][2])
    BY <1>3, <2>1, <2>2, FpDone, OpParts
  <2>4. h[1 + 1][3] = Float("flt", h[1][1], h[1][2])
    BY <1>3, <2>1, <2>2, FpDone, OpParts
  <2>5. h[2 + 1][4] = Float("fle", h[2][1], h[2][2])
    BY <1>3, <2>1, <2>2, FpDone, OpParts
  <2> QED
    BY <2>3, <2>4, <2>5
<1>6. /\ \A r \in Registers \ {5} : h[1][r] = h[0][r]
      /\ \A r \in Registers \ {3} : h[2][r] = h[1][r]
      /\ \A r \in Registers \ {4} : h[3][r] = h[2][r]
  <2>1. /\ Code[1].rd = 5 /\ Code[2].rd = 3 /\ Code[3].rd = 4
    BY ComparesCode, OpParts DEF Finished
  <2>2. \A i \in 1 .. 3 :
          \A r \in Registers \ {Code[i].rd} : h[i][r] = h[i - 1][r]
    BY <1>3, Frame
  <2> QED
    BY <2>1, <2>2
<1>7. /\ Raises(Code[0 + 1], h[0]) <=> IsSnan(A) \/ IsSnan(B)
      /\ Raises(Code[1 + 1], h[1]) <=> IsNan(A) \/ IsNan(B)
      /\ Raises(Code[2 + 1], h[2]) <=> IsNan(A) \/ IsNan(B)
  <2>1. /\ Raises(Code[1], h[0]) <=> Invalid("feq", h[0][1], h[0][2])
        /\ Raises(Code[2], h[1]) <=> Invalid("flt", h[1][1], h[1][2])
        /\ Raises(Code[3], h[2]) <=> Invalid("fle", h[2][1], h[2][2])
    BY <1>3, ComparesCode, FpDone, OpParts DEF Finished
  <2>2. \A f, g : /\ Invalid("feq", f, g) <=> IsSnan(f) \/ IsSnan(g)
                  /\ Invalid("flt", f, g) <=> IsNan(f) \/ IsNan(g)
                  /\ Invalid("fle", f, g) <=> IsNan(f) \/ IsNan(g)
    BY DEF Invalid
  <2> QED
    BY <1>4, <2>1, <2>2
<1>8. fcsr_nv <=> IsNan(A) \/ IsNan(B)
  <2>1. fcsr_nv <=> \E i \in 0 .. 2 : Raises(Code[i + 1], h[i])
    BY <1>3 DEF Run
  <2>2. 0 .. 2 = {0, 1, 2}
    OBVIOUS
  <2>3. IsSnan(A) \/ IsSnan(B) => IsNan(A) \/ IsNan(B)
    BY DEF IsSnan
  <2> QED
    BY <1>7, <2>1, <2>2, <2>3
<1>9. /\ gpr[5] = Truth(F32Eq(A, B)) /\ gpr[3] = Truth(F32Lt(A, B))
      /\ gpr[4] = Truth(F32Le(A, B))
  <2>1. /\ h[1][5] = Truth(F32Eq(A, B)) /\ h[2][3] = Truth(F32Lt(A, B))
        /\ h[3][4] = Truth(F32Le(A, B))
    BY <1>4, <1>5, FloatResults
  <2>2. gpr = h[3]
    BY <1>3 DEF Run
  <2> QED
    BY <1>6, <2>1, <2>2 DEF Registers
<1> QED
  BY <1>2, <1>8, <1>9 DEF Kept, A, B

\* The comparisons, minima and classes agree on the order of floats, with the
\* zeros apart and the NaNs outside it.
LEMMA FloatHolds ==
  ASSUME Programs = LawPrograms, StraightInv
  PROVE  FloatLaw
<1> DEFINE before(f, g) ==
             Value(f) < Value(g) \/ (Size(f) = 0 /\ Size(g) = 0
                                     /\ Sign(f) >= Sign(g)) \/ f = g
<1>1. ASSUME Finished("floats")
      PROVE  /\ ~IsNan(A) /\ ~IsNan(B) =>
                  {gpr[3], gpr[4]} = {A, B} /\ before(gpr[3], gpr[4])
             /\ IsNan(A) # IsNan(B) =>
                  gpr[3] = gpr[4] /\ gpr[3] \in {A, B} /\ ~IsNan(gpr[3])
             /\ IsNan(A) /\ IsNan(B) => gpr[3] = CanonicalNan
             /\ fcsr_nv = (IsSnan(A) \/ IsSnan(B))
             /\ F32Lt(A, B) => gpr[5] <= gpr[9]
             /\ (IsNan(A) <=> gpr[5] \in {8, 9})
             /\ (gpr[5] \in {3, 4} <=> Size(A) = 0)
             /\ Sign(gpr[6]) # Sign(gpr[7]) /\ Sign(gpr[6]) = Sign(B)
             /\ Fsgnjx(gpr[8], B) = A
  <2>1. A \in Word /\ B \in Word
    BY <1>1, FloatsDone
  <2>2. /\ gpr[3] = Fmin(A, B) /\ gpr[4] = Fmax(A, B)
        /\ gpr[5] = Classify(A) /\ gpr[9] = Classify(B)
        /\ gpr[6] = Fsgnj(A, B) /\ gpr[7] = Fsgnjn(A, B)
        /\ gpr[8] = Fsgnjx(A, B)
        /\ fcsr_nv <=> IsSnan(A) \/ IsSnan(B)
        /\ fcsr_nv \in BOOLEAN
    BY <1>1, FloatsDone
  <2> HIDE DEF A, B
  <2>3. ~IsNan(A) /\ ~IsNan(B) =>
          {gpr[3], gpr[4]} = {A, B} /\ before(gpr[3], gpr[4])
    BY <2>1, <2>2, Extremes
  <2>4. IsNan(A) # IsNan(B) =>
          gpr[3] = gpr[4] /\ gpr[3] \in {A, B} /\ ~IsNan(gpr[3])
    <3>1. IsNan(A) /\ ~IsNan(B) => Fmin(A, B) = B /\ Fmax(A, B) = B
      BY Zenon DEF Fmin, Fmax, Ordered, OfNumbers
    <3>2. ~IsNan(A) /\ IsNan(B) => Fmin(A, B) = A /\ Fmax(A, B) = A
      BY Zenon DEF Fmin, Fmax, Ordered, OfNumbers
    <3>3. IsNan(A) \in BOOLEAN /\ IsNan(B) \in BOOLEAN
      BY DEF IsNan
    <3> QED
      BY <2>2, <3>1, <3>2, <3>3
  <2>5. IsNan(A) /\ IsNan(B) => gpr[3] = CanonicalNan
    <3>1. IsNan(A) /\ IsNan(B) => Fmin(A, B) = CanonicalNan
      BY Zenon DEF Fmin, Ordered, OfNumbers
    <3> QED
      BY <2>2, <3>1
  <2>6. fcsr_nv = (IsSnan(A) \/ IsSnan(B))
    BY <2>2
  <2>7. /\ F32Lt(A, B) => gpr[5] <= gpr[9]
        /\ IsNan(A) <=> gpr[5] \in {8, 9}
        /\ gpr[5] \in {3, 4} <=> Size(A) = 0
    BY <2>1, <2>2, ClassesInOrder
  <2>8. /\ Sign(gpr[6]) # Sign(gpr[7]) /\ Sign(gpr[6]) = Sign(B)
        /\ Fsgnjx(gpr[8], B) = A
    BY <2>1, <2>2, SignsMove
  <2> HIDE DEF before
  <2> QED
    BY <2>3, <2>4, <2>5, <2>6, <2>7, <2>8
<1>2. ASSUME Finished("compares")
      PROVE  /\ gpr[3] + gpr[5] = gpr[4]
             /\ fcsr_nv = (IsNan(A) \/ IsNan(B))
  <2>1. A \in Word /\ B \in Word
    BY <1>2, ComparesDone
  <2>2. /\ gpr[5] = Truth(F32Eq(A, B)) /\ gpr[3] = Truth(F32Lt(A, B))
        /\ gpr[4] = Truth(F32Le(A, B))
        /\ fcsr_nv <=> IsNan(A) \/ IsNan(B)
        /\ fcsr_nv \in BOOLEAN
    BY <1>2, ComparesDone
  <2> HIDE DEF A, B
  <2>3. Value(A) \in Int /\ Value(B) \in Int
    BY <2>1, FloatParts
  <2>4. /\ F32Le(A, B) <=> F32Lt(A, B) \/ F32Eq(A, B)
        /\ ~(F32Lt(A, B) /\ F32Eq(A, B))
    BY <2>3 DEF F32Le, F32Lt, F32Eq
  <2>5. gpr[3] + gpr[5] = gpr[4]
    BY <2>2, <2>4 DEF Truth
  <2> QED
    BY <2>2, <2>5
<1> QED
  BY <1>1, <1>2 DEF FloatLaw

-----------------------------------------------------------------------------
(* Logic, bits and rotations.                                              *)

\* The program of the operations on two words, bit by bit.
LEMMA LogicCode ==
  ASSUME Programs = LawPrograms, program = "logic"
  PROVE  /\ Len(Code) = 9 /\ Straight(Code)
         /\ Code[1] = Op("and", 3, 1, 2) /\ Code[2] = Op("andn", 4, 1, 2)
         /\ Code[3] = Op("or", 3, 3, 4) /\ Code[4] = Op("xor", 4, 1, 2)
         /\ Code[5] = Op("xnor", 5, 1, 2) /\ Code[6] = Op("add", 4, 4, 5)
         /\ Code[7] = Op("orn", 5, 1, 2) /\ Code[8] = Op("andn", 6, 2, 1)
         /\ Code[9] = Op("add", 5, 5, 6)
         /\ {"and", "andn", "or", "xor", "xnor", "add", "orn"} \subseteq
             Computed
<1>1. /\ Len(Code) = 9
      /\ Code[1] = Op("and", 3, 1, 2) /\ Code[2] = Op("andn", 4, 1, 2)
      /\ Code[3] = Op("or", 3, 3, 4) /\ Code[4] = Op("xor", 4, 1, 2)
      /\ Code[5] = Op("xnor", 5, 1, 2) /\ Code[6] = Op("add", 4, 4, 5)
      /\ Code[7] = Op("orn", 5, 1, 2) /\ Code[8] = Op("andn", 6, 2, 1)
      /\ Code[9] = Op("add", 5, 5, 6)
  BY DEF Code, LawPrograms
<1>2. /\ {"and", "andn", "or", "xor", "xnor", "add", "orn"} \subseteq
          Computed
  BY DEF Computed, IntegerOps, BitManipOps
<1>3. /\ Code[1].op = "and" /\ Code[2].op = "andn" /\ Code[3].op = "or"
      /\ Code[4].op = "xor" /\ Code[5].op = "xnor" /\ Code[6].op = "add"
      /\ Code[7].op = "orn" /\ Code[8].op = "andn" /\ Code[9].op = "add"
      /\ Code[1].rd = 3 /\ Code[2].rd = 4 /\ Code[3].rd = 3 /\ Code[4].rd = 4
      /\ Code[5].rd = 5 /\ Code[6].rd = 4 /\ Code[7].rd = 5 /\ Code[8].rd = 6
      /\ Code[9].rd = 5
  BY <1>1, OpParts
<1>4. Straight(Code)
  BY <1>1, <1>2, <1>3 DEF Straight, StraightOps, Registers
<1> QED
  BY <1>1, <1>2, <1>4

\* What it leaves in its registers.
LEMMA LogicDone ==
  ASSUME Programs = LawPrograms, StraightInv, Finished("logic")
  PROVE  /\ A \in Word /\ B \in Word
         /\ gpr[3] = Or(And(A, B), And(A, Flip(B)))
         /\ gpr[4] = Wrap(Xor(A, B) + Flip(Xor(A, B)))
         /\ gpr[5] = Wrap(Or(A, Flip(B)) + And(B, Flip(A)))
<1>1. Len(Code) = 9 /\ Straight(Code) /\ Ended
  BY LogicCode DEF Finished
<1>2. Kept /\ \E h : Run(h, 9)
  BY <1>1, Ran
<1>3. PICK h : Run(h, 9)
  BY <1>2
<1>4. \A i \in 0 .. 9 : h[i][1] = A /\ h[i][2] = B /\ h[i][0] = 0
  BY <1>3 DEF Run, A, B
<1>5. /\ h[1][3] = And(h[0][1], h[0][2])
      /\ h[2][4] = And(h[1][1], Flip(h[1][2]))
      /\ h[3][3] = Or(h[2][3], h[2][4])
      /\ h[4][4] = Xor(h[3][1], h[3][2])
      /\ h[5][5] = Flip(Xor(h[4][1], h[4][2]))
      /\ h[6][4] = Wrap(h[5][4] + h[5][5])
      /\ h[7][5] = Or(h[6][1], Flip(h[6][2]))
      /\ h[8][6] = And(h[7][2], Flip(h[7][1]))
      /\ h[9][5] = Wrap(h[8][5] + h[8][6])
  BY <1>3, LogicCode, OpDone, IntegerResults, BitManipResults DEF Finished
<1>6. /\ \A r \in Registers \ {3} : h[1][r] = h[0][r]
      /\ \A r \in Registers \ {4} : h[2][r] = h[1][r]
      /\ \A r \in Registers \ {3} : h[3][r] = h[2][r]
      /\ \A r \in Registers \ {4} : h[4][r] = h[3][r]
      /\ \A r \in Registers \ {5} : h[5][r] = h[4][r]
      /\ \A r \in Registers \ {4} : h[6][r] = h[5][r]
      /\ \A r \in Registers \ {5} : h[7][r] = h[6][r]
      /\ \A r \in Registers \ {6} : h[8][r] = h[7][r]
      /\ \A r \in Registers \ {5} : h[9][r] = h[8][r]
  <2>1. /\ Code[1].rd = 3 /\ Code[2].rd = 4 /\ Code[3].rd = 3
        /\ Code[4].rd = 4 /\ Code[5].rd = 5 /\ Code[6].rd = 4
        /\ Code[7].rd = 5 /\ Code[8].rd = 6 /\ Code[9].rd = 5
    BY LogicCode, OpParts DEF Finished
  <2>2. \A i \in 1 .. 9 :
          \A r \in Registers \ {Code[i].rd} : h[i][r] = h[i - 1][r]
    BY <1>3, Frame
  <2>3. /\ \A r \in Registers \ {3} : h[1][r] = h[0][r]
        /\ \A r \in Registers \ {4} : h[2][r] = h[1][r]
        /\ \A r \in Registers \ {3} : h[3][r] = h[2][r]
        /\ \A r \in Registers \ {4} : h[4][r] = h[3][r]
        /\ \A r \in Registers \ {5} : h[5][r] = h[4][r]
    BY <2>1, <2>2
  <2>4. /\ \A r \in Registers \ {4} : h[6][r] = h[5][r]
        /\ \A r \in Registers \ {5} : h[7][r] = h[6][r]
        /\ \A r \in Registers \ {6} : h[8][r] = h[7][r]
        /\ \A r \in Registers \ {5} : h[9][r] = h[8][r]
    BY <2>1, <2>2
  <2> QED
    BY <2>3, <2>4
<1> QED
  BY <1>2, <1>3, <1>4, <1>5, <1>6 DEF Run, Kept, Registers, A, B

\* The program of the operations on one bit.
LEMMA BitsCode ==
  ASSUME Programs = LawPrograms, program = "bits"
  PROVE  /\ Len(Code) = 5 /\ Straight(Code)
         /\ Code[1] = Op("bset", 3, 1, 2) /\ Code[2] = Op("bext", 4, 3, 2)
         /\ Code[3] = Op("bclr", 5, 1, 2) /\ Code[4] = Op("bext", 6, 5, 2)
         /\ Code[5] = Op("binv", 7, 1, 2)
         /\ {"bset", "bext", "bclr", "binv"} \subseteq Computed
<1>1. /\ Len(Code) = 5
      /\ Code[1] = Op("bset", 3, 1, 2) /\ Code[2] = Op("bext", 4, 3, 2)
      /\ Code[3] = Op("bclr", 5, 1, 2) /\ Code[4] = Op("bext", 6, 5, 2)
      /\ Code[5] = Op("binv", 7, 1, 2)
  BY DEF Code, LawPrograms
<1>2. /\ {"bset", "bext", "bclr", "binv"} \subseteq Computed
  BY DEF Computed, BitManipOps
<1>3. /\ Code[1].op = "bset" /\ Code[2].op = "bext" /\ Code[3].op = "bclr"
      /\ Code[4].op = "bext" /\ Code[5].op = "binv" /\ Code[1].rd = 3
      /\ Code[2].rd = 4 /\ Code[3].rd = 5 /\ Code[4].rd = 6 /\ Code[5].rd = 7
  BY <1>1, OpParts
<1>4. Straight(Code)
  BY <1>1, <1>2, <1>3 DEF Straight, StraightOps, Registers
<1> QED
  BY <1>1, <1>2, <1>4

\* What it leaves in its registers.
LEMMA BitsDone ==
  ASSUME Programs = LawPrograms, StraightInv, Finished("bits")
  PROVE  /\ A \in Word /\ B \in Word
         /\ gpr[3] = Or(A, Power[Amount(B)])
         /\ gpr[4] = Bit(gpr[3], Amount(B))
         /\ gpr[5] = And(A, Flip(Power[Amount(B)]))
         /\ gpr[6] = Bit(gpr[5], Amount(B))
         /\ gpr[7] = Xor(A, Power[Amount(B)])
<1>1. Len(Code) = 5 /\ Straight(Code) /\ Ended
  BY BitsCode DEF Finished
<1>2. Kept /\ \E h : Run(h, 5)
  BY <1>1, Ran
<1>3. PICK h : Run(h, 5)
  BY <1>2
<1>4. \A i \in 0 .. 5 : h[i][1] = A /\ h[i][2] = B /\ h[i][0] = 0
  BY <1>3 DEF Run, A, B
<1>5. /\ h[1][3] = Or(h[0][1], Power[Amount(h[0][2])])
      /\ h[2][4] = Bit(h[1][3], Amount(h[1][2]))
      /\ h[3][5] = And(h[2][1], Flip(Power[Amount(h[2][2])]))
      /\ h[4][6] = Bit(h[3][5], Amount(h[3][2]))
      /\ h[5][7] = Xor(h[4][1], Power[Amount(h[4][2])])
  BY <1>3, BitsCode, OpDone, BitManipResults DEF Finished
<1>6. /\ \A r \in Registers \ {3} : h[1][r] = h[0][r]
      /\ \A r \in Registers \ {4} : h[2][r] = h[1][r]
      /\ \A r \in Registers \ {5} : h[3][r] = h[2][r]
      /\ \A r \in Registers \ {6} : h[4][r] = h[3][r]
      /\ \A r \in Registers \ {7} : h[5][r] = h[4][r]
  <2>1. /\ Code[1].rd = 3 /\ Code[2].rd = 4 /\ Code[3].rd = 5
        /\ Code[4].rd = 6 /\ Code[5].rd = 7
    BY BitsCode, OpParts DEF Finished
  <2>2. \A i \in 1 .. 5 :
          \A r \in Registers \ {Code[i].rd} : h[i][r] = h[i - 1][r]
    BY <1>3, Frame
  <2>3. /\ \A r \in Registers \ {3} : h[1][r] = h[0][r]
        /\ \A r \in Registers \ {4} : h[2][r] = h[1][r]
        /\ \A r \in Registers \ {5} : h[3][r] = h[2][r]
    BY <2>1, <2>2
  <2>4. /\ \A r \in Registers \ {6} : h[4][r] = h[3][r]
        /\ \A r \in Registers \ {7} : h[5][r] = h[4][r]
    BY <2>1, <2>2
  <2> QED
    BY <2>3, <2>4
<1> QED
  BY <1>2, <1>3, <1>4, <1>5, <1>6 DEF Run, Kept, Registers, A, B

\* The program of the rotations.
LEMMA RotateCode ==
  ASSUME Programs = LawPrograms, program = "rotate"
  PROVE  /\ Len(Code) = 5 /\ Straight(Code)
         /\ Code[1] = Op("rol", 3, 1, 2) /\ Code[2] = Op("ror", 4, 3, 2)
         /\ Code[3] = Op("sub", 5, 0, 2) /\ Code[4] = Op("rol", 5, 1, 5)
         /\ Code[5] = Op("ror", 6, 1, 2)
         /\ {"rol", "ror", "sub"} \subseteq Computed
<1>1. /\ Len(Code) = 5
      /\ Code[1] = Op("rol", 3, 1, 2) /\ Code[2] = Op("ror", 4, 3, 2)
      /\ Code[3] = Op("sub", 5, 0, 2) /\ Code[4] = Op("rol", 5, 1, 5)
      /\ Code[5] = Op("ror", 6, 1, 2)
  BY DEF Code, LawPrograms
<1>2. /\ {"rol", "ror", "sub"} \subseteq Computed
  BY DEF Computed, IntegerOps, BitManipOps
<1>3. /\ Code[1].op = "rol" /\ Code[2].op = "ror" /\ Code[3].op = "sub"
      /\ Code[4].op = "rol" /\ Code[5].op = "ror" /\ Code[1].rd = 3
      /\ Code[2].rd = 4 /\ Code[3].rd = 5 /\ Code[4].rd = 5 /\ Code[5].rd = 6
  BY <1>1, OpParts
<1>4. Straight(Code)
  BY <1>1, <1>2, <1>3 DEF Straight, StraightOps, Registers
<1> QED
  BY <1>1, <1>2, <1>4

\* What it leaves in its registers, whatever C++ makes of a shift by the width.
LEMMA RotateDone ==
  ASSUME Programs = LawPrograms, StraightInv, Finished("rotate")
  PROVE  /\ A \in Word /\ B \in Word
         /\ \E b \in Beyond(A) : gpr[3] = Rol(A, Amount(B), b)
         /\ \E b \in Beyond(gpr[3]) : gpr[4] = Ror(gpr[3], Amount(B), b)
         /\ \E b \in Beyond(A) : gpr[5] = Rol(A, Amount(Wrap(0 - B)), b)
         /\ \E b \in Beyond(A) : gpr[6] = Ror(A, Amount(B), b)
<1>1. Len(Code) = 5 /\ Straight(Code) /\ Ended
  BY RotateCode DEF Finished
<1>2. Kept /\ \E h : Run(h, 5)
  BY <1>1, Ran
<1>3. PICK h : Run(h, 5)
  BY <1>2
<1>4. \A i \in 0 .. 5 : h[i][1] = A /\ h[i][2] = B /\ h[i][0] = 0
  BY <1>3 DEF Run, A, B
<1>5. /\ \E b \in Beyond(h[0][1]) : h[1][3] = Rol(h[0][1], Amount(h[0][2]), b)
      /\ \E b \in Beyond(h[1][3]) : h[2][4] = Ror(h[1][3], Amount(h[1][2]), b)
      /\ h[3][5] = Wrap(h[2][0] - h[2][2])
      /\ \E b \in Beyond(h[3][1]) : h[4][5] = Rol(h[3][1], Amount(h[3][5]), b)
      /\ \E b \in Beyond(h[4][1]) : h[5][6] = Ror(h[4][1], Amount(h[4][2]), b)
  BY <1>3, RotateCode, OpDone, IntegerResults, BitManipResults DEF Finished
<1>6. /\ \A r \in Registers \ {3} : h[1][r] = h[0][r]
      /\ \A r \in Registers \ {4} : h[2][r] = h[1][r]
      /\ \A r \in Registers \ {5} : h[3][r] = h[2][r] /\ h[4][r] = h[3][r]
      /\ \A r \in Registers \ {6} : h[5][r] = h[4][r]
  <2>1. /\ Code[1].rd = 3 /\ Code[2].rd = 4 /\ Code[3].rd = 5
        /\ Code[4].rd = 5 /\ Code[5].rd = 6
    BY RotateCode, OpParts DEF Finished
  <2>2. \A i \in 1 .. 5 :
          \A r \in Registers \ {Code[i].rd} : h[i][r] = h[i - 1][r]
    BY <1>3, Frame
  <2> QED
    BY <2>1, <2>2
<1> QED
  BY <1>2, <1>3, <1>4, <1>5, <1>6 DEF Run, Kept, Registers, A, B

\* Everything set: what a word and its opposite add up to.
LEMMA FlipAdds ==
  ASSUME NEW x \in Word
  PROVE  /\ Wrap(x + Flip(x)) = Ones /\ Ones \in Word
<1>1. x \in Int /\ Ones \in Int /\ Ones \in Word
  BY AddsEven, WrapIs DEF Ones
<1>2. x + (Ones - x) = Ones
  BY <1>1
<1> QED
  BY <1>1, <1>2, WrapIs DEF Flip

\* A power of two is the word of one bit.
LEMMA PowerIs ==
  ASSUME NEW n \in Positions
  PROVE  Power[n] \in Word /\ SetBits(Power[n]) = {n}
<1>1. /\ n \in Nat /\ n \in 0 .. W - 1 /\ W \in Nat /\ n + 1 \in 0 .. W
      /\ Power[n] = Pow2[n]
  BY WidthType DEF Positions
<1>2. NumberOf({n}, W) = Pow2[n]
  <2>1. NumberOf({n}, W) = NumberOf({n}, n + 1)
    <3>1. \A i \in n + 1 .. W - 1 : i \notin {n}
      BY <1>1
    <3> QED
      BY <1>1, <3>1, NumberShort
  <2>2. NumberOf({n}, n + 1) = NumberOf({n}, n) + Pow2[n]
    BY <1>1, NumberNext
  <2>3. NumberOf({n}, n) = 0
    <3>1. \A i \in 0 .. n - 1 : i \notin {n}
      BY <1>1
    <3> QED
      BY <1>1, <3>1, NumberNone
  <2>4. Pow2[n] \in Int
    BY <1>1, Pow2Type
  <2> QED
    BY <2>1, <2>2, <2>3, <2>4
<1>3. OfBits({n}) = Power[n]
  BY <1>1, <1>2 DEF OfBits
<1> QED
  BY <1>3, WordOfBits

\* A word is what it has in common with another and what it has not.
LEMMA LogicHolds ==
  ASSUME Programs = LawPrograms, StraightInv, Finished("logic")
  PROVE  gpr[3] = A /\ gpr[4] = Ones /\ gpr[5] = Ones
<1>1. /\ A \in Word /\ B \in Word
      /\ gpr[3] = Or(And(A, B), And(A, Flip(B)))
      /\ gpr[4] = Wrap(Xor(A, B) + Flip(Xor(A, B)))
      /\ gpr[5] = Wrap(Or(A, Flip(B)) + And(B, Flip(A)))
  BY LogicDone
<1> HIDE DEF A, B
<1>2. /\ SetBits(A) \subseteq Positions /\ SetBits(B) \subseteq Positions
      /\ Flip(A) \in Word /\ SetBits(Flip(A)) = Positions \ SetBits(A)
      /\ Flip(B) \in Word /\ SetBits(Flip(B)) = Positions \ SetBits(B)
  BY <1>1, FlipIs, BitsOfWord
<1>3. Or(And(A, B), And(A, Flip(B))) = A
  <2>1. SetBits(And(A, B)) = SetBits(A) \cap SetBits(B)
    BY BitwiseIs
  <2>4. SetBits(And(A, Flip(B))) = SetBits(A) \cap SetBits(Flip(B))
    BY BitwiseIs
  <2>5. SetBits(Or(And(A, B), And(A, Flip(B)))) =
          SetBits(And(A, B)) \cup SetBits(And(A, Flip(B)))
    BY BitwiseIs
  <2>2. SetBits(Or(And(A, B), And(A, Flip(B)))) = SetBits(A)
    BY <1>2, <2>1, <2>4, <2>5
  <2>3. Or(And(A, B), And(A, Flip(B))) \in Word
    BY BitwiseIs
  <2> QED
    BY <1>1, <2>2, <2>3, SameBits
<1>4. gpr[4] = Ones
  <2>1. Xor(A, B) \in Word
    BY BitwiseIs
  <2> QED
    BY <1>1, <2>1, FlipAdds
<1>5. And(B, Flip(A)) = Flip(Or(A, Flip(B))) /\ Or(A, Flip(B)) \in Word
  <2> DEFINE x == Or(A, Flip(B))
             y == And(B, Flip(A))
  <2>1. /\ x \in Word /\ SetBits(x) = SetBits(A) \cup SetBits(Flip(B))
        /\ y \in Word /\ SetBits(y) = SetBits(B) \cap SetBits(Flip(A))
    BY BitwiseIs
  <2> HIDE DEF x, y
  <2>2. Flip(x) \in Word /\ SetBits(Flip(x)) = Positions \ SetBits(x)
    BY <2>1, FlipIs
  <2>3. SetBits(Flip(x)) = SetBits(y)
    BY <1>2, <2>1, <2>2
  <2>4. y = Flip(x)
    BY <2>1, <2>2, <2>3, SameBits
  <2> QED
    BY <2>1, <2>4 DEF x, y
<1>6. gpr[5] = Ones
  BY <1>1, <1>5, FlipAdds
<1> QED
  BY <1>1, <1>3, <1>4, <1>6

\* A bit that was set is read as 1, a bit that was cleared as 0.
LEMMA BitsHold ==
  ASSUME Programs = LawPrograms, StraightInv, Finished("bits")
  PROVE  /\ gpr[4] = 1 /\ gpr[6] = 0
         /\ {gpr[3], gpr[5]} = {A, gpr[7]} /\ gpr[7] # A
<1> DEFINE n == Amount(B)
           p == Power[n]
<1>1. /\ A \in Word /\ B \in Word
      /\ gpr[3] = Or(A, p) /\ gpr[4] = Bit(gpr[3], n)
      /\ gpr[5] = And(A, Flip(p)) /\ gpr[6] = Bit(gpr[5], n)
      /\ gpr[7] = Xor(A, p)
  BY BitsDone
<1> HIDE DEF A, B
<1>2. n \in Positions
  BY <1>1, SmallInWord DEF Positions
<1> HIDE DEF n
<1>3. p \in Word /\ SetBits(p) = {n} /\ SetBits(A) \subseteq Positions
  BY <1>1, <1>2, PowerIs, BitsOfWord
<1> HIDE DEF p
<1>4. Flip(p) \in Word /\ SetBits(Flip(p)) = Positions \ {n}
  BY <1>3, FlipIs
<1>5. /\ gpr[3] \in Word /\ SetBits(gpr[3]) = SetBits(A) \cup {n}
      /\ gpr[5] \in Word /\ SetBits(gpr[5]) = SetBits(A) \ {n}
      /\ gpr[7] \in Word
      /\ SetBits(gpr[7]) = (SetBits(A) \ {n}) \cup ({n} \ SetBits(A))
  <2>1. gpr[3] \in Word /\ SetBits(gpr[3]) = SetBits(A) \cup {n}
    BY <1>1, <1>3, BitwiseIs
  <2>2. gpr[5] \in Word /\ SetBits(gpr[5]) = SetBits(A) \cap (Positions \ {n})
    BY <1>1, <1>4, BitwiseIs
  <2>3. /\ gpr[7] \in Word
        /\ SetBits(gpr[7]) = (SetBits(A) \ {n}) \cup ({n} \ SetBits(A))
    <3>1. gpr[7] \in Word
      BY <1>1, BitwiseIs
    <3>2. SetBits(gpr[7]) = (SetBits(A) \ SetBits(p)) \cup (SetBits(p) \ SetBits(A))
      BY <1>1, <1>3, XorIs
    <3> QED
      BY <1>3, <3>1, <3>2
  <2> QED
    BY <1>3, <2>1, <2>2, <2>3
<1>6. gpr[4] = 1 /\ gpr[6] = 0
  <2>1. n \in SetBits(gpr[3]) /\ n \notin SetBits(gpr[5])
    BY <1>5
  <2>2. Bit(gpr[3], n) = 1
    BY <1>2, <1>5, <2>1, BitsOfWord
  <2>3. Bit(gpr[5], n) = 0
    BY <1>2, <1>5, <2>1, BitsOfWord
  <2> QED
    BY <1>1, <2>2, <2>3
<1>7. CASE n \in SetBits(A)
  <2>1. SetBits(gpr[3]) = SetBits(A) /\ SetBits(gpr[5]) = SetBits(gpr[7])
    BY <1>5, <1>7
  <2>2. gpr[3] = A /\ gpr[5] = gpr[7]
    BY <1>1, <1>5, <2>1, SameBits
  <2>3. gpr[7] # A
    BY <1>5, <1>7
  <2> QED
    BY <1>6, <2>2, <2>3
<1>8. CASE n \notin SetBits(A)
  <2>1. SetBits(gpr[5]) = SetBits(A) /\ SetBits(gpr[3]) = SetBits(gpr[7])
    BY <1>5, <1>8
  <2>2. gpr[5] = A /\ gpr[3] = gpr[7]
    BY <1>1, <1>5, <2>1, SameBits
  <2>3. gpr[7] # A
    BY <1>5, <1>8
  <2> QED
    BY <1>6, <2>2, <2>3
<1> QED
  BY <1>7, <1>8

\* Sums and differences of places, around the width.
LEMMA AroundWidth ==
  ASSUME NEW w \in {8, 16, 32}, NEW i \in 0 .. w - 1, NEW n \in 0 .. w - 1
  PROVE  /\ i + n < w => (i + n) % w = i + n
         /\ i + n >= w => (i + n) % w = i + n - w
         /\ i >= n => (i - n) % w = i - n
         /\ i < n => (i - n) % w = i - n + w
<1>1. CASE w = 8
  BY <1>1
<1>2. CASE w = 16
  BY <1>2
<1>3. CASE w = 32
  BY <1>3
<1> QED
  BY <1>1, <1>2, <1>3

\* Rotations by more than the width.
LEMMA ModWidth ==
  ASSUME NEW w \in {8, 16, 32}, NEW i \in Nat, NEW y \in Nat
  PROVE  /\ (y % w) \in 0 .. w - 1
         /\ (i + y) % w = (i + (y % w)) % w
         /\ y % w = 0 => (-y) % w = 0
         /\ y % w # 0 => (-y) % w = w - (y % w)
<1>1. CASE w = 8
  BY <1>1
<1>2. CASE w = 16
  BY <1>2
<1>3. CASE w = 32
  BY <1>3
<1> QED
  BY <1>1, <1>2, <1>3

\* Positions around the word.
LEMMA Around ==
  ASSUME NEW i \in Positions, NEW n \in Positions
  PROVE  /\ W \in Nat /\ i \in 0 .. W - 1 /\ n \in 0 .. W - 1
         /\ i + n < W => (i + n) % W = i + n
         /\ i + n >= W => (i + n) % W = i + n - W
         /\ i >= n => (i - n) % W = i - n
         /\ i < n => (i - n) % W = i - n + W
         /\ (i + n) % W \in Positions /\ (i - n) % W \in Positions
<1>1. W \in {8, 16, 32} /\ W \in Nat /\ i \in 0 .. W - 1 /\ n \in 0 .. W - 1
  BY WordsAssumption, WidthType DEF Positions
<1>2. /\ i + n < W => (i + n) % W = i + n
      /\ i + n >= W => (i + n) % W = i + n - W
      /\ i >= n => (i - n) % W = i - n
      /\ i < n => (i - n) % W = i - n + W
  BY <1>1, AroundWidth
<1> DEFINE a == (i + n) % W
           b == (i - n) % W
<1>3. a \in 0 .. W - 1 /\ b \in 0 .. W - 1
  <2> HIDE DEF a, b
  <2>1. /\ i + n < W => a = i + n
        /\ i + n >= W => a = i + n - W
        /\ i >= n => b = i - n
        /\ i < n => b = i - n + W
    BY <1>2 DEF a, b
  <2> QED
    BY <1>1, <2>1
<1> QED
  BY <1>1, <1>2, <1>3 DEF Positions

\* A rotation moves the places around the width, one by nothing too.
LEMMA RotatedIs ==
  ASSUME NEW x \in Word, NEW n \in Positions, NEW b \in Beyond(x)
  PROVE  /\ Rol(x, n, b) \in Word /\ Ror(x, n, b) \in Word
         /\ SetBits(Rol(x, n, b)) =
              {i \in Positions : (i - n) % W \in SetBits(x)}
         /\ SetBits(Ror(x, n, b)) =
              {i \in Positions : (i + n) % W \in SetBits(x)}
<1>1. SetBits(x) \subseteq Positions /\ W \in Nat
  BY BitsOfWord, WidthType
<1>2. CASE n = 0
  <2>1. Rol(x, n, b) = x /\ Ror(x, n, b) = x
    BY <1>2, WithZero DEF Rol, Ror, Rotated, Beyond
  <2>2. ASSUME NEW i \in Positions
        PROVE  (i - n) % W = i /\ (i + n) % W = i
    <3>1. i - n = i /\ i + n = i /\ i >= n /\ i + n < W
      BY <1>2, Around
    <3> QED
      BY <3>1, Around
  <2> QED
    BY <1>1, <2>1, <2>2
<1>3. CASE n # 0
  <2>1. /\ Rol(x, n, b) = Or(Sll(x, n), Srl(x, W - n))
        /\ Ror(x, n, b) = Or(Srl(x, n), Sll(x, W - n))
    BY <1>3 DEF Rol, Ror, Rotated
  <2>2. n \in 0 .. W /\ W - n \in 0 .. W /\ n \in Int
    <3>1. W \in Nat /\ n \in 0 .. W - 1
      BY Around
    <3> QED
      BY <3>1
  <2>3. /\ SetBits(Sll(x, n)) = {i \in Positions : i - n \in SetBits(x)}
        /\ SetBits(Srl(x, n)) = {i \in Positions : i + n \in SetBits(x)}
        /\ SetBits(Sll(x, W - n)) = {i \in Positions : i - (W - n) \in SetBits(x)}
        /\ SetBits(Srl(x, W - n)) = {i \in Positions : i + (W - n) \in SetBits(x)}
    BY <2>2, SllIs, SrlIs
  <2>4. ASSUME NEW i \in Positions
        PROVE  /\ (i - n) % W \in SetBits(x) <=>
                    i - n \in SetBits(x) \/ i + (W - n) \in SetBits(x)
               /\ (i + n) % W \in SetBits(x) <=>
                    i + n \in SetBits(x) \/ i - (W - n) \in SetBits(x)
    <3> DEFINE S == SetBits(x)
               up == (i + n) % W
               down == (i - n) % W
    <3>1. /\ W \in Nat /\ i \in 0 .. W - 1 /\ n \in 0 .. W - 1
          /\ \A j \in S : j \in 0 .. W - 1
      BY <1>1, Around DEF Positions
    <3>2. /\ i + n < W => up = i + n
          /\ i + n >= W => up = i + n - W
          /\ i >= n => down = i - n
          /\ i < n => down = i - n + W
      BY Around
    <3> HIDE DEF S, up, down
    <3>3. down \in S <=> i - n \in S \/ i + (W - n) \in S
      <4>1. CASE i >= n
        <5>1. down = i - n /\ i + (W - n) \notin 0 .. W - 1
          BY <3>1, <3>2, <4>1
        <5> QED
          BY <3>1, <5>1
      <4>2. CASE i < n
        <5>1. down = i + (W - n) /\ i - n \notin 0 .. W - 1
          BY <3>1, <3>2, <4>2
        <5> QED
          BY <3>1, <5>1
      <4> QED
        BY <3>1, <4>1, <4>2
    <3>4. up \in S <=> i + n \in S \/ i - (W - n) \in S
      <4>1. CASE i + n < W
        <5>1. up = i + n /\ i - (W - n) \notin 0 .. W - 1
          BY <3>1, <3>2, <4>1
        <5> QED
          BY <3>1, <5>1
      <4>2. CASE i + n >= W
        <5>1. up = i - (W - n) /\ i + n \notin 0 .. W - 1
          BY <3>1, <3>2, <4>2
        <5> QED
          BY <3>1, <5>1
      <4> QED
        BY <3>1, <4>1, <4>2
    <3> QED
      BY <3>3, <3>4 DEF S, up, down
  <2>5. /\ Rol(x, n, b) \in Word /\ Ror(x, n, b) \in Word
        /\ SetBits(Rol(x, n, b)) = SetBits(Sll(x, n)) \cup SetBits(Srl(x, W - n))
        /\ SetBits(Ror(x, n, b)) = SetBits(Srl(x, n)) \cup SetBits(Sll(x, W - n))
    BY <2>1, BitwiseIs
  <2> QED
    BY <2>3, <2>4, <2>5
<1> QED
  BY <1>2, <1>3

\* Rotating by an amount and back, and by the opposite amount.
LEMMA TurnsBack ==
  ASSUME NEW i \in Positions, NEW n \in Positions
  PROVE  /\ (((i + n) % W) - n) % W = i
         /\ n = 0 => (i - 0) % W = (i + n) % W
         /\ n # 0 => W - n \in Positions /\ (i - (W - n)) % W = (i + n) % W
<1>1. /\ W \in Nat /\ i \in 0 .. W - 1 /\ n \in 0 .. W - 1
      /\ i + n < W => (i + n) % W = i + n
      /\ i + n >= W => (i + n) % W = i + n - W
      /\ (i + n) % W \in Positions
  BY Around
<1> DEFINE j == (i + n) % W
<1>2. /\ j >= n => (j - n) % W = j - n
      /\ j < n => (j - n) % W = j - n + W
  BY <1>1, Around
<1> DEFINE b == (j - n) % W
<1>3. b = i
  <2>1. /\ j >= n => b = j - n
        /\ j < n => b = j - n + W
        /\ i + n < W => j = i + n
        /\ i + n >= W => j = i + n - W
    BY <1>1, <1>2
  <2> HIDE DEF j, b
  <2>2. CASE i + n < W
    <3>1. j = i + n /\ j >= n
      BY <1>1, <2>1, <2>2
    <3> QED
      BY <1>1, <2>1, <3>1
  <2>3. CASE i + n >= W
    <3>1. j = i + n - W /\ j < n
      BY <1>1, <2>1, <2>3
    <3> QED
      BY <1>1, <2>1, <3>1
  <2> QED
    BY <1>1, <2>2, <2>3
<1>4. ASSUME n = 0
      PROVE  (i - 0) % W = (i + n) % W
  <2>1. i - 0 = i + n
    BY <1>1, <1>4
  <2> QED
    BY <2>1
<1>5. ASSUME n # 0
      PROVE  W - n \in Positions /\ (i - (W - n)) % W = (i + n) % W
  <2> DEFINE m == W - n
             c == (i - m) % W
  <2>1. m \in 0 .. W - 1 /\ m = W - n
    BY <1>1, <1>5
  <2> HIDE DEF m
  <2>2. m \in Positions
    BY <2>1 DEF Positions
  <2>3. /\ i >= m => c = i - m
        /\ i < m => c = i - m + W
    BY <2>2, Around
  <2>4. /\ i + n < W => j = i + n
        /\ i + n >= W => j = i + n - W
    BY <1>1
  <2> HIDE DEF c, j
  <2>5. c = j
    BY <1>1, <2>1, <2>3, <2>4
  <2> QED
    BY <2>2, <2>5 DEF c, j, m
<1> QED
  BY <1>3, <1>4, <1>5

\* The amount of the opposite of a word.
LEMMA OppositeAmount ==
  ASSUME NEW y \in Word
  PROVE  /\ Amount(y) \in Positions
         /\ Amount(y) = 0 => Amount(Wrap(0 - y)) = 0
         /\ Amount(y) # 0 => Amount(Wrap(0 - y)) = W - Amount(y)
<1>1. PICK c \in Nat : Power[W] = W * c
  <2>1. W - 5 \in Nat /\ 5 + (W - 5) = W /\ W \in 0 .. W /\ 5 \in Nat
    BY WidthType
  <2>2. Power[W] = Pow2[5] * Pow2[W - 5] /\ Pow2[W - 5] \in Nat
    BY <2>1, WidthType, Pow2Plus, Pow2Type
  <2>3. Pow2[5] = 32
    <3>1. /\ Pow2[0] = 1 /\ Pow2[0 + 1] = 2 * Pow2[0] /\ Pow2[1 + 1] = 2 * Pow2[1]
          /\ Pow2[2 + 1] = 2 * Pow2[2] /\ Pow2[3 + 1] = 2 * Pow2[3]
          /\ Pow2[4 + 1] = 2 * Pow2[4]
      BY Pow2Is
    <3> QED
      BY <3>1
  <2> DEFINE r == Pow2[W - 5]
  <2>4. Power[W] = 32 * r /\ r \in Nat
    BY <2>2, <2>3
  <2> HIDE DEF r
  <2>5. CASE W = 8
    <3>1. 32 * r = 8 * (4 * r) /\ 4 * r \in Nat
      BY <2>4
    <3> QED
      BY <2>4, <2>5, <3>1
  <2>6. CASE W = 16
    <3>1. 32 * r = 16 * (2 * r) /\ 2 * r \in Nat
      BY <2>4
    <3> QED
      BY <2>4, <2>6, <3>1
  <2>7. CASE W = 32
    BY <2>4, <2>7
  <2> QED
    BY <2>5, <2>6, <2>7, WordsAssumption
<1>2. y \in Nat /\ y < Power[W] /\ Power[W] \in Nat \ {0}
  BY WrapIs
<1>3. Wrap(0 - y) = IF y = 0 THEN 0 ELSE W * c - y
  <2>1. CASE y = 0
    BY <2>1, SmallInWord
  <2>2. CASE y # 0
    <3> DEFINE d == Power[W]
    <3>1. d - y \in 0 .. d - 1 /\ 0 - y + d * 1 = d - y /\ 0 - y \in Int /\ 1 \in Int
      BY <1>2, <2>2
    <3> HIDE DEF d
    <3>2. d - y \in Word
      BY <3>1, WrapIs DEF d
    <3>3. Wrap(d - y) = Wrap(0 - y)
      BY <3>1, SameWrap DEF d
    <3> QED
      BY <1>1, <2>2, <3>2, <3>3, WrapIs DEF d
  <2> QED
    BY <2>1, <2>2
<1>4. /\ (y % W) \in 0 .. W - 1
      /\ y % W = 0 => (W * c - y) % W = 0
      /\ y % W # 0 => (W * c - y) % W = W - (y % W)
  <2>1. CASE W = 8
    BY <1>2, <2>1
  <2>2. CASE W = 16
    BY <1>2, <2>2
  <2>3. CASE W = 32
    BY <1>2, <2>3
  <2> QED
    BY <2>1, <2>2, <2>3, WordsAssumption
<1>5. /\ 0 % W = 0
      /\ y = 0 => y % W = 0
  <2>1. CASE W = 8
    BY <2>1
  <2>2. CASE W = 16
    BY <2>2
  <2>3. CASE W = 32
    BY <2>3
  <2> QED
    BY <2>1, <2>2, <2>3, WordsAssumption
<1> DEFINE a == y % W
           v == Wrap(0 - y)
           e == W * c - y
<1>6. (v % W) = IF a = 0 THEN 0 ELSE W - a
  <2>1. CASE y = 0
    <3>1. v = 0
      BY <1>3, <2>1
    <3>2. a = 0 /\ 0 % W = 0
      BY <1>5, <2>1
    <3> HIDE DEF v, a
    <3> QED
      BY <3>1, <3>2
  <2>2. CASE y # 0
    <3>1. v = e
      BY <1>3, <2>2
    <3>2. /\ a = 0 => (e % W) = 0
          /\ a # 0 => (e % W) = W - a
      BY <1>4
    <3> HIDE DEF v, e, a
    <3> QED
      BY <3>1, <3>2
  <2> QED
    BY <2>1, <2>2
<1>7. /\ Amount(y) = a /\ Amount(v) = (v % W) /\ a \in Positions
  BY <1>4 DEF Amount, Positions
<1> HIDE DEF a
<1> QED
  BY <1>6, <1>7

\* Rotations undo each other, and one to the left is one to the right by the
\* opposite amount.
LEMMA RotateHolds ==
  ASSUME Programs = LawPrograms, StraightInv, Finished("rotate")
  PROVE  /\ gpr[4] = A /\ gpr[5] = gpr[6]
         /\ \A i \in Positions : Bit(gpr[3], (i + B) % W) = Bit(A, i)
<1> DEFINE n == Amount(B)
           m == Amount(Wrap(0 - B))
           S == SetBits(A)
<1>1. /\ A \in Word /\ B \in Word
      /\ \E b \in Beyond(A) : gpr[3] = Rol(A, n, b)
      /\ \E b \in Beyond(gpr[3]) : gpr[4] = Ror(gpr[3], n, b)
      /\ \E b \in Beyond(A) : gpr[5] = Rol(A, m, b)
      /\ \E b \in Beyond(A) : gpr[6] = Ror(A, n, b)
  BY RotateDone
<1> HIDE DEF A, B
<1>2. /\ n \in Positions
      /\ n = 0 => m = 0
      /\ n # 0 => m = W - n
  BY <1>1, OppositeAmount
<1>3. \A i \in Positions : (i + B) % W = (i + n) % W
  <2>1. B \in Nat
    BY <1>1, WrapIs
  <2>2. \A i \in Positions : i \in Nat
    BY WidthType DEF Positions
  <2> QED
    BY <2>1, <2>2, ModWidth, WordsAssumption DEF Amount
<1> HIDE DEF n, m
<1>4. m \in Positions /\ \A i \in Positions : (i - m) % W = (i + n) % W
  BY <1>2, TurnsBack
<1>5. /\ gpr[3] \in Word
      /\ SetBits(gpr[3]) = {i \in Positions : (i - n) % W \in S}
  BY <1>1, <1>2, RotatedIs
<1>6. /\ gpr[4] \in Word
      /\ SetBits(gpr[4]) = {i \in Positions : (i + n) % W \in SetBits(gpr[3])}
  BY <1>1, <1>2, <1>5, RotatedIs
<1>7. /\ gpr[5] \in Word
      /\ SetBits(gpr[5]) = {i \in Positions : (i - m) % W \in S}
  BY <1>1, <1>4, RotatedIs
<1>8. /\ gpr[6] \in Word
      /\ SetBits(gpr[6]) = {i \in Positions : (i + n) % W \in S}
  BY <1>1, <1>2, RotatedIs
<1>9. \A i \in Positions : /\ (i + n) % W \in Positions
                           /\ (((i + n) % W) - n) % W = i
  BY <1>2, Around, TurnsBack
<1>10. gpr[5] = gpr[6]
  <2>1. SetBits(gpr[5]) = SetBits(gpr[6])
    BY <1>4, <1>7, <1>8
  <2> QED
    BY <1>7, <1>8, <2>1, SameBits
<1>11. gpr[4] = A
  <2>1. S \subseteq Positions
    BY <1>1, BitsOfWord
  <2>2. SetBits(gpr[4]) = S
    BY <1>5, <1>6, <1>9, <2>1
  <2> QED
    BY <1>1, <1>6, <2>2, SameBits
<1>12. ASSUME NEW i \in Positions
       PROVE  Bit(gpr[3], (i + B) % W) = Bit(A, i)
  <2> DEFINE j == (i + n) % W
  <2>1. j \in Positions /\ (j \in SetBits(gpr[3]) <=> i \in S) /\ (i + B) % W = j
    BY <1>3, <1>5, <1>9
  <2> HIDE DEF j
  <2>2. /\ Bit(gpr[3], j) \in {0, 1} /\ Bit(A, i) \in {0, 1}
        /\ j \in SetBits(gpr[3]) <=> Bit(gpr[3], j) = 1
        /\ i \in S <=> Bit(A, i) = 1
    BY <1>1, <1>5, <2>1, BitsOfWord
  <2>3. Bit(gpr[3], j) = Bit(A, i)
    BY <2>1, <2>2
  <2> QED
    BY <2>1, <2>3
<1> QED
  BY <1>10, <1>11, <1>12

\* The laws of the operations on bits.
LEMMA BitHolds ==
  ASSUME Programs = LawPrograms, StraightInv
  PROVE  BitLaw
BY RotateHolds, BitsHold, LogicHolds DEF BitLaw

-----------------------------------------------------------------------------
(* Carry-less products.                                                    *)

\* The program of the carry-less products.
LEMMA CarrylessCode ==
  ASSUME Programs = LawPrograms, program = "carryless"
  PROVE  /\ Len(Code) = 3 /\ Straight(Code)
         /\ Code[1] = Op("clmul", 3, 1, 2) /\ Code[2] = Op("clmulh", 4, 1, 2)
         /\ Code[3] = Op("clmulr", 5, 1, 2)
         /\ {"clmul", "clmulh", "clmulr"} \subseteq Computed
<1>1. /\ Len(Code) = 3
      /\ Code[1] = Op("clmul", 3, 1, 2) /\ Code[2] = Op("clmulh", 4, 1, 2)
      /\ Code[3] = Op("clmulr", 5, 1, 2)
  BY DEF Code, LawPrograms
<1>2. /\ {"clmul", "clmulh", "clmulr"} \subseteq Computed
  BY DEF Computed, BitManipOps
<1>3. /\ Code[1].op = "clmul" /\ Code[2].op = "clmulh"
      /\ Code[3].op = "clmulr" /\ Code[1].rd = 3 /\ Code[2].rd = 4
      /\ Code[3].rd = 5
  BY <1>1, OpParts
<1>4. Straight(Code)
  BY <1>1, <1>2, <1>3 DEF Straight, StraightOps, Registers
<1> QED
  BY <1>1, <1>2, <1>4

\* What it leaves in its registers.
LEMMA CarrylessDone ==
  ASSUME Programs = LawPrograms, StraightInv, Finished("carryless")
  PROVE  /\ A \in Word /\ B \in Word
         /\ gpr[3] = Clmul(A, B)
         /\ gpr[4] = Clmulh(A, B) /\ gpr[5] = Clmulr(A, B)
<1>1. Len(Code) = 3 /\ Straight(Code) /\ Ended
  BY CarrylessCode DEF Finished
<1>2. Kept /\ \E h : Run(h, 3)
  BY <1>1, Ran
<1>3. PICK h : Run(h, 3)
  BY <1>2
<1>4. \A i \in 0 .. 3 : h[i][1] = A /\ h[i][2] = B /\ h[i][0] = 0
  BY <1>3 DEF Run, A, B
<1>5. /\ h[1][3] = Clmul(h[0][1], h[0][2])
      /\ h[2][4] = Clmulh(h[1][1], h[1][2])
      /\ h[3][5] = Clmulr(h[2][1], h[2][2])
  BY <1>3, CarrylessCode, OpDone, BitManipResults DEF Finished
<1>6. /\ \A r \in Registers \ {3} : h[1][r] = h[0][r]
      /\ \A r \in Registers \ {4} : h[2][r] = h[1][r]
      /\ \A r \in Registers \ {5} : h[3][r] = h[2][r]
  <2>1. /\ Code[1].rd = 3 /\ Code[2].rd = 4 /\ Code[3].rd = 5
    BY CarrylessCode, OpParts DEF Finished
  <2>2. \A i \in 1 .. 3 :
          \A r \in Registers \ {Code[i].rd} : h[i][r] = h[i - 1][r]
    BY <1>3, Frame
  <2> QED
    BY <2>1, <2>2
<1> QED
  BY <1>2, <1>3, <1>4, <1>5, <1>6 DEF Run, Kept, Registers, A, B

\* The bits of a word are finitely many.
LEMMA BitsAreFinite ==
  ASSUME NEW S, S \subseteq Positions
  PROVE  IsFiniteSet(S) /\ Cardinality(S) \in 0 .. W
<1>1. W \in Nat /\ 0 \in Int /\ W - 1 \in Int /\ ~(0 > W - 1)
  BY WidthType
<1>2. IsFiniteSet(Positions) /\ Cardinality(Positions) = W
  <2>1. IsFiniteSet(0 .. W - 1) /\ Cardinality(0 .. W - 1) = (W - 1) - 0 + 1
    BY <1>1, FS_Interval
  <2>2. (W - 1) - 0 + 1 = W
    BY <1>1
  <2> QED
    BY <2>1, <2>2 DEF Positions
<1>3. IsFiniteSet(S) /\ Cardinality(S) <= Cardinality(Positions)
  BY <1>2, FS_Subset
<1>4. Cardinality(S) \in Nat
  BY <1>3, FS_CardinalityType
<1> QED
  BY <1>1, <1>2, <1>3, <1>4

\* The bits of T that a bit of S is n away from: with it they add up to n.
Pairs(S, T, n) == {i \in T : n - i \in S}

\* The pairs of bits whose places add up to n are as many, counted by either.
LEMMA PairsAreSame ==
  ASSUME NEW S, NEW T, S \subseteq Positions, T \subseteq Positions, NEW n \in Int
  PROVE  Cardinality(Pairs(S, T, n)) = Cardinality(Pairs(T, S, n))
<1> DEFINE U == Pairs(S, T, n)
           V == Pairs(T, S, n)
           f == [i \in U |-> n - i]
<1>1. \A i \in S \cup T : i \in Int
  BY WidthType DEF Positions
<1>2. \A i \in U : f[i] \in V /\ n - f[i] = i
  BY <1>1 DEF Pairs
<1>3. \A j \in V : n - j \in U /\ f[n - j] = j
  BY <1>1 DEF Pairs
<1>4. f \in [U -> V]
  BY <1>2
<1>5. \A a, b \in U : f[a] = f[b] => a = b
  <2> HIDE DEF f, U, V
  <2> QED
    BY <1>2
<1>6. \A j \in V : \E i \in U : f[i] = j
  BY <1>3
<1>7. f \in Bijection(U, V)
  <2> HIDE DEF f, U, V
  <2> QED
    BY <1>4, <1>5, <1>6 DEF Bijection, Injection, Surjection, IsInjective
<1>8. ExistsBijection(U, V)
  BY <1>7 DEF ExistsBijection
<1>9. IsFiniteSet(U)
  <2>1. U \subseteq Positions
    BY DEF Pairs
  <2> QED
    BY <2>1, BitsAreFinite
<1> QED
  BY <1>8, <1>9, FS_Bijection

\* What the loops compute: a bit is set if an odd number of copies has it.
LEMMA ClmulBits ==
  ASSUME NEW x \in Word, NEW y \in Word, NEW j \in Positions
  PROVE  /\ j \in SetBits(Clmul(x, y)) <=>
              Cardinality(Pairs(SetBits(x), SetBits(y), j)) % 2 = 1
         /\ j \in SetBits(Clmulh(x, y)) <=>
              Cardinality(Pairs(SetBits(x), SetBits(y), j + W)) % 2 = 1
         /\ j \in SetBits(Clmulr(x, y)) <=>
              Cardinality(Pairs(SetBits(x), SetBits(y), j + W - 1)) % 2 = 1
<1> DEFINE pairs(n) == Pairs(SetBits(x), SetBits(y), n)
<1>1. /\ SetBits(x) \subseteq 0 .. W - 1 /\ SetBits(y) \subseteq 0 .. W - 1
      /\ W \in Nat /\ j \in 0 .. W - 1
  BY BitsOfWord, WidthType DEF Positions
<1>2. \A i \in SetBits(y) : i \in 0 .. W /\ W - i \in 0 .. W /\ W - 1 - i \in 0 .. W
  BY <1>1
<1>3. /\ \A i \in SetBits(y) : Bit(Sll(x, i), j) = 1 <=> j - i \in SetBits(x)
      /\ \A i \in SetBits(y) : Bit(Srl(x, W - i), j) = 1 <=> j + (W - i) \in SetBits(x)
      /\ \A i \in SetBits(y) :
           Bit(Srl(x, W - 1 - i), j) = 1 <=> j + (W - 1 - i) \in SetBits(x)
  <2>1. \A n \in 0 .. W : /\ Bit(Sll(x, n), j) = 1 <=> j - n \in SetBits(x)
                          /\ Bit(Srl(x, n), j) = 1 <=> j + n \in SetBits(x)
    <3> TAKE n \in 0 .. W
    <3>1. Sll(x, n) \in Word /\ Srl(x, n) \in Word
      BY SllIs, SrlIs
    <3>2. /\ j \in SetBits(Sll(x, n)) <=> j - n \in SetBits(x)
          /\ j \in SetBits(Srl(x, n)) <=> j + n \in SetBits(x)
      BY SllIs, SrlIs
    <3> QED
      BY <3>1, <3>2, BitsOfWord
  <2> QED
    BY <1>2, <2>1
<1>4. {i \in SetBits(y) : Bit(Sll(x, i), j) = 1} = pairs(j)
  BY <1>3 DEF Pairs
<1>5. {i \in SetBits(y) \ {0} : Bit(Srl(x, W - i), j) = 1} = pairs(j + W)
  <2>1. ASSUME NEW i \in SetBits(y)
        PROVE  i # 0 /\ Bit(Srl(x, W - i), j) = 1 <=> (j + W) - i \in SetBits(x)
    <3>1. j + (W - i) = (j + W) - i /\ (i = 0 => (j + W) - i \notin 0 .. W - 1)
      BY <1>1
    <3>2. Bit(Srl(x, W - i), j) = 1 <=> (j + W) - i \in SetBits(x)
      BY <1>3, <3>1
    <3> QED
      BY <1>1, <3>1, <3>2
  <2>2. pairs(j + W) = {i \in SetBits(y) : (j + W) - i \in SetBits(x)}
    BY Zenon DEF Pairs
  <2> QED
    BY <2>1, <2>2
<1>6. {i \in SetBits(y) : Bit(Srl(x, W - 1 - i), j) = 1} = pairs(j + W - 1)
  <2>1. ASSUME NEW i \in SetBits(y)
        PROVE  Bit(Srl(x, W - 1 - i), j) = 1 <=> (j + W - 1) - i \in SetBits(x)
    <3>1. j + (W - 1 - i) = (j + W - 1) - i
      BY <1>1
    <3> QED
      BY <1>3, <3>1
  <2>2. pairs(j + W - 1) =
          {i \in SetBits(y) : (j + W - 1) - i \in SetBits(x)}
    BY Zenon DEF Pairs
  <2> QED
    BY <2>1, <2>2
<1>7. j \in SetBits(Clmul(x, y)) <=> Cardinality(pairs(j)) % 2 = 1
  <2> DEFINE O == {k \in Positions :
                     Cardinality({i \in SetBits(y) : Bit(Sll(x, i), k) = 1}) % 2 = 1}
  <2>1. Clmul(x, y) = OfBits(O)
    BY DEF Clmul, XorOver
  <2>2. j \in SetBits(Clmul(x, y)) <=> j \in O
    BY <2>1, WordOfBits
  <2> QED
    BY <1>4, <2>2
<1>8. j \in SetBits(Clmulh(x, y)) <=> Cardinality(pairs(j + W)) % 2 = 1
  <2> DEFINE O == {k \in Positions :
                     Cardinality({i \in SetBits(y) \ {0} :
                                    Bit(Srl(x, W - i), k) = 1}) % 2 = 1}
  <2>1. Clmulh(x, y) = OfBits(O)
    BY DEF Clmulh, XorOver
  <2>2. j \in SetBits(Clmulh(x, y)) <=> j \in O
    BY <2>1, WordOfBits
  <2> QED
    BY <1>5, <2>2
<1>9. j \in SetBits(Clmulr(x, y)) <=> Cardinality(pairs(j + W - 1)) % 2 = 1
  <2> DEFINE O == {k \in Positions :
                     Cardinality({i \in SetBits(y) :
                                    Bit(Srl(x, W - 1 - i), k) = 1}) % 2 = 1}
  <2>1. Clmulr(x, y) = OfBits(O)
    BY DEF Clmulr, XorOver
  <2>2. j \in SetBits(Clmulr(x, y)) <=> j \in O
    BY <2>1, WordOfBits
  <2> QED
    BY <1>6, <2>2
<1> QED
  BY <1>7, <1>8, <1>9

\* The three products are the lower and the upper half and the reversed
\* product of polynomials over two elements.
LEMMA CarrylessHolds ==
  ASSUME Programs = LawPrograms, StraightInv
  PROVE  CarrylessLaw
<1> DEFINE odd(n) == Cardinality(Pairs(SetBits(B), SetBits(A), n)) % 2
           product == [i \in 0 .. 2 * W - 1 |-> odd(i)]
<1> SUFFICES ASSUME Finished("carryless"), NEW i \in Positions
             PROVE  /\ Bit(gpr[3], i) = product[i]
                    /\ Bit(gpr[4], i) = product[i + W]
                    /\ Bit(gpr[5], i) = product[i + W - 1]
  BY DEF CarrylessLaw, Pairs
<1>1. /\ A \in Word /\ B \in Word /\ gpr[3] = Clmul(A, B)
      /\ gpr[4] = Clmulh(A, B) /\ gpr[5] = Clmulr(A, B)
  BY CarrylessDone
<1> HIDE DEF A, B
<1>2. /\ i \in Int /\ i + W \in Int /\ i + W - 1 \in Int
      /\ i \in 0 .. 2 * W - 1 /\ i + W \in 0 .. 2 * W - 1
      /\ i + W - 1 \in 0 .. 2 * W - 1
  BY WidthType DEF Positions
<1>3. SetBits(A) \subseteq Positions /\ SetBits(B) \subseteq Positions
  BY <1>1, BitsOfWord
<1>4. ASSUME NEW n \in Int
      PROVE  /\ Cardinality(Pairs(SetBits(A), SetBits(B), n)) % 2 = odd(n)
             /\ odd(n) \in {0, 1}
  <2>1. Cardinality(Pairs(SetBits(A), SetBits(B), n)) =
          Cardinality(Pairs(SetBits(B), SetBits(A), n))
    BY <1>3, PairsAreSame
  <2>2. Pairs(SetBits(B), SetBits(A), n) \subseteq Positions
    BY <1>3 DEF Pairs
  <2>3. Cardinality(Pairs(SetBits(B), SetBits(A), n)) \in Nat
    <3>1. Cardinality(Pairs(SetBits(B), SetBits(A), n)) \in 0 .. W
      BY <2>2, BitsAreFinite
    <3> QED
      BY <3>1, WidthType
  <2> QED
    BY <2>1, <2>3
<1>5. /\ i \in SetBits(gpr[3]) <=> odd(i) = 1
      /\ i \in SetBits(gpr[4]) <=> odd(i + W) = 1
      /\ i \in SetBits(gpr[5]) <=> odd(i + W - 1) = 1
  BY <1>1, <1>2, <1>4, ClmulBits
<1>6. gpr[3] \in Word /\ gpr[4] \in Word /\ gpr[5] \in Word
  BY <1>1, WordOfBits DEF Clmul, Clmulh, Clmulr, XorOver
<1>7. /\ Bit(gpr[3], i) \in {0, 1} /\ (i \in SetBits(gpr[3]) <=> Bit(gpr[3], i) = 1)
      /\ Bit(gpr[4], i) \in {0, 1} /\ (i \in SetBits(gpr[4]) <=> Bit(gpr[4], i) = 1)
      /\ Bit(gpr[5], i) \in {0, 1} /\ (i \in SetBits(gpr[5]) <=> Bit(gpr[5], i) = 1)
  BY <1>6, BitsOfWord
<1>8. /\ product[i] = odd(i) /\ product[i + W] = odd(i + W)
      /\ product[i + W - 1] = odd(i + W - 1)
  BY <1>2
<1>9. odd(i) \in {0, 1} /\ odd(i + W) \in {0, 1} /\ odd(i + W - 1) \in {0, 1}
  BY <1>2, <1>4
<1> HIDE DEF product, odd
<1> QED
  BY <1>5, <1>7, <1>8, <1>9

-----------------------------------------------------------------------------
(* Leading and trailing zeros.                                             *)

\* The program of leading and trailing zeros.
LEMMA ZerosCode ==
  ASSUME Programs = LawPrograms, program = "zeros"
  PROVE  /\ Len(Code) = 4 /\ Straight(Code)
         /\ Code[1] = Op("clz", 3, 1, 0) /\ Code[2] = Op("sll", 4, 1, 3)
         /\ Code[3] = Op("ctz", 5, 1, 0) /\ Code[4] = Op("srl", 6, 1, 5)
         /\ {"clz", "sll", "ctz", "srl"} \subseteq Computed
<1>1. /\ Len(Code) = 4
      /\ Code[1] = Op("clz", 3, 1, 0) /\ Code[2] = Op("sll", 4, 1, 3)
      /\ Code[3] = Op("ctz", 5, 1, 0) /\ Code[4] = Op("srl", 6, 1, 5)
  BY DEF Code, LawPrograms
<1>2. /\ {"clz", "sll", "ctz", "srl"} \subseteq Computed
  BY DEF Computed, IntegerOps, BitManipOps
<1>3. /\ Code[1].op = "clz" /\ Code[2].op = "sll" /\ Code[3].op = "ctz"
      /\ Code[4].op = "srl" /\ Code[1].rd = 3 /\ Code[2].rd = 4
      /\ Code[3].rd = 5 /\ Code[4].rd = 6
  BY <1>1, OpParts
<1>4. Straight(Code)
  BY <1>1, <1>2, <1>3 DEF Straight, StraightOps, Registers
<1> QED
  BY <1>1, <1>2, <1>4

\* What it leaves in its registers.
LEMMA ZerosDone ==
  ASSUME Programs = LawPrograms, StraightInv, Finished("zeros")
  PROVE  /\ A \in Word /\ B \in Word
         /\ gpr[3] = Clz(A) /\ gpr[4] = Sll(A, Amount(Clz(A)))
         /\ gpr[5] = Ctz(A) /\ gpr[6] = Srl(A, Amount(Ctz(A)))
<1>1. Len(Code) = 4 /\ Straight(Code) /\ Ended
  BY ZerosCode DEF Finished
<1>2. Kept /\ \E h : Run(h, 4)
  BY <1>1, Ran
<1>3. PICK h : Run(h, 4)
  BY <1>2
<1>4. \A i \in 0 .. 4 : h[i][1] = A /\ h[i][2] = B /\ h[i][0] = 0
  BY <1>3 DEF Run, A, B
<1>5. /\ h[1][3] = Clz(h[0][1])
      /\ h[2][4] = Sll(h[1][1], Amount(h[1][3]))
      /\ h[3][5] = Ctz(h[2][1])
      /\ h[4][6] = Srl(h[3][1], Amount(h[3][5]))
  BY <1>3, ZerosCode, OpDone, IntegerResults, BitManipResults DEF Finished
<1>6. /\ \A r \in Registers \ {3} : h[1][r] = h[0][r]
      /\ \A r \in Registers \ {4} : h[2][r] = h[1][r]
      /\ \A r \in Registers \ {5} : h[3][r] = h[2][r]
      /\ \A r \in Registers \ {6} : h[4][r] = h[3][r]
  <2>1. /\ Code[1].rd = 3 /\ Code[2].rd = 4 /\ Code[3].rd = 5
        /\ Code[4].rd = 6
    BY ZerosCode, OpParts DEF Finished
  <2>2. \A i \in 1 .. 4 :
          \A r \in Registers \ {Code[i].rd} : h[i][r] = h[i - 1][r]
    BY <1>3, Frame
  <2> QED
    BY <2>1, <2>2
<1> QED
  BY <1>2, <1>3, <1>4, <1>5, <1>6 DEF Run, Kept, Registers, A, B

\* The highest and the lowest bit of a word that has one.
LEMMA HighestAndLowest ==
  ASSUME NEW x \in Word, x # 0
  PROVE  /\ Max(SetBits(x)) \in SetBits(x)
         /\ \A i \in SetBits(x) : i <= Max(SetBits(x))
         /\ Min(SetBits(x)) \in SetBits(x)
         /\ \A i \in SetBits(x) : Min(SetBits(x)) <= i
<1> DEFINE S == SetBits(x)
<1>1. S \subseteq 0 .. W - 1 /\ W \in Nat /\ S \in SUBSET Nat /\ S # {}
  <2>1. S # {}
    <3>1. SetBits(0) = {} /\ 0 \in Word
      BY EmptyWord
    <3> QED
      BY <3>1, SameBits
  <2> QED
    BY <2>1, BitsOfWord, WidthType DEF Positions
<1> HIDE DEF S
<1>2. \E i \in S : \A j \in S : i >= j
  <2>1. PICK i \in S : \A j \in S : j <= i
    BY <1>1, GreatestOf
  <2> QED
    BY <1>1, <2>1
<1>3. \E i \in S : \A j \in S : i <= j
  <2>1. PICK i \in S : \A n \in Nat : n < i => n \notin S
    BY <1>1, LeastOf
  <2> QED
    BY <1>1, <2>1
<1>4. Max(S) \in S /\ \A j \in S : Max(S) >= j
  BY <1>2 DEF Max
<1>5. Min(S) \in S /\ \A j \in S : Min(S) <= j
  BY <1>3 DEF Min
<1> QED
  BY <1>1, <1>4, <1>5 DEF S

\* Shifting by the number of zeros brings a bit to the end, and back again.
LEMMA ZerosOut ==
  ASSUME NEW x \in Word, x # 0
  PROVE  /\ Bit(Sll(x, Amount(Clz(x))), W - 1) = 1
         /\ Srl(Sll(x, Amount(Clz(x))), Clz(x)) = x
         /\ Bit(Srl(x, Amount(Ctz(x))), 0) = 1
         /\ Sll(Srl(x, Amount(Ctz(x))), Ctz(x)) = x
<1> DEFINE S == SetBits(x)
           m == Max(S)
           l == Min(S)
           c == W - 1 - m
<1>1. Clz(x) = c /\ Ctz(x) = l
  BY DEF Clz, Ctz
<1>2. /\ m \in S /\ \A i \in S : i <= m
      /\ l \in S /\ \A i \in S : l <= i
  BY HighestAndLowest
<1>3. W \in Nat /\ S \subseteq 0 .. W - 1 /\ Positions = 0 .. W - 1
  BY BitsOfWord, WidthType DEF Positions
<1> HIDE DEF S, m, l
<1>4. c \in 0 .. W - 1 /\ l \in 0 .. W - 1 /\ m \in 0 .. W - 1
  BY <1>2, <1>3
<1>5. Amount(c) = c /\ Amount(l) = l /\ c \in 0 .. W /\ l \in 0 .. W
  <2>1. c \in 0 .. W /\ l \in 0 .. W
    BY <1>3, <1>4
  <2> HIDE DEF c
  <2> QED
    BY <1>4, <2>1, SmallInWord
<1>6. /\ Sll(x, c) \in Word /\ Srl(Sll(x, c), c) \in Word
      /\ SetBits(Sll(x, c)) = {i \in Positions : i - c \in S}
      /\ SetBits(Srl(Sll(x, c), c)) = {i \in Positions : i + c \in SetBits(Sll(x, c))}
  <2> HIDE DEF c
  <2>1. Sll(x, c) \in Word /\ SetBits(Sll(x, c)) = {i \in Positions : i - c \in S}
    BY <1>5, SllIs DEF S
  <2> QED
    BY <1>5, <2>1, SrlIs
<1>7. /\ Srl(x, l) \in Word /\ Sll(Srl(x, l), l) \in Word
      /\ SetBits(Srl(x, l)) = {i \in Positions : i + l \in S}
      /\ SetBits(Sll(Srl(x, l), l)) = {i \in Positions : i - l \in SetBits(Srl(x, l))}
  <2>1. Srl(x, l) \in Word /\ SetBits(Srl(x, l)) = {i \in Positions : i + l \in S}
    BY <1>5, SrlIs DEF S
  <2> QED
    BY <1>5, <2>1, SllIs
<1>8. Bit(Sll(x, c), W - 1) = 1
  <2>1. W - 1 \in Positions /\ (W - 1) - c = m
    BY <1>3, <1>4
  <2>2. W - 1 \in SetBits(Sll(x, c))
    BY <1>2, <1>6, <2>1
  <2> QED
    BY <1>6, <2>1, <2>2, BitsOfWord
<1>9. Bit(Srl(x, l), 0) = 1
  <2>1. 0 \in Positions /\ 0 + l = l
    BY <1>3, <1>4
  <2>2. 0 \in SetBits(Srl(x, l))
    BY <1>2, <1>7, <2>1
  <2> QED
    BY <1>7, <2>1, <2>2, BitsOfWord
<1>10. Srl(Sll(x, c), c) = x
  <2>1. ASSUME NEW i \in Positions
        PROVE  i \in SetBits(Srl(Sll(x, c), c)) <=> i \in S
    <3>1. i \in 0 .. W - 1 /\ (i + c) - c = i
      BY <1>3, <1>4
    <3>2. i \in S => i + c \in Positions
      BY <1>2, <1>3, <1>4, <3>1
    <3> HIDE DEF c
    <3> QED
      BY <1>6, <3>1, <3>2
  <2>2. SetBits(Srl(Sll(x, c), c)) = S
    BY <1>3, <1>6, <2>1
  <2> QED
    BY <1>6, <2>2, SameBits DEF S
<1>11. Sll(Srl(x, l), l) = x
  <2>1. ASSUME NEW i \in Positions
        PROVE  i \in SetBits(Sll(Srl(x, l), l)) <=> i \in S
    <3>1. i \in 0 .. W - 1 /\ (i - l) + l = i
      BY <1>3, <1>4
    <3>2. i \in S => i - l \in Positions
      BY <1>2, <1>3, <1>4, <3>1
    <3> QED
      BY <1>7, <3>1, <3>2
  <2>2. SetBits(Sll(Srl(x, l), l)) = S
    BY <1>3, <1>7, <2>1
  <2> QED
    BY <1>7, <2>2, SameBits DEF S
<1> QED
  BY <1>1, <1>5, <1>8, <1>9, <1>10, <1>11

\* Shifting the zeros out brings the outermost bit to the edge, and loses none.
LEMMA ZerosHold ==
  ASSUME Programs = LawPrograms, StraightInv, Finished("zeros")
  PROVE  IF A = 0 THEN gpr[3] = W /\ gpr[5] = W
         ELSE /\ Bit(gpr[4], W - 1) = 1 /\ Srl(gpr[4], gpr[3]) = A
              /\ Bit(gpr[6], 0) = 1 /\ Sll(gpr[6], gpr[5]) = A
<1>1. /\ A \in Word
      /\ gpr[3] = Clz(A) /\ gpr[4] = Sll(A, Amount(Clz(A)))
      /\ gpr[5] = Ctz(A) /\ gpr[6] = Srl(A, Amount(Ctz(A)))
  BY ZerosDone
<1> HIDE DEF A
<1>2. A = 0 => Clz(A) = W /\ Ctz(A) = W
  BY DEF Clz, Ctz
<1> QED
  BY <1>1, <1>2, ZerosOut

-----------------------------------------------------------------------------
(* The loop that counts.                                                   *)

\* The program that counts bits.
LEMMA CountCode ==
  ASSUME Programs = LawPrograms, program = "count"
  PROVE  /\ Len(Code) = 7
         /\ Code[1] = OpImm("add", 3, 1, 0) /\ Code[2] = Br("beq", 3, 0, 20)
         /\ Code[3] = OpImm("add", 4, 3, -1) /\ Code[4] = Op("and", 3, 3, 4)
         /\ Code[5] = OpImm("add", 5, 5, 1) /\ Code[6] = OpImm("jal", 0, 0, -16)
         /\ Code[7] = Op("pcnt", 6, 1, 0)
         /\ {"add", "and", "pcnt"} \subseteq Computed /\ "beq" \in BranchOps
<1>1. /\ Len(Code) = 7
      /\ Code[1] = OpImm("add", 3, 1, 0) /\ Code[2] = Br("beq", 3, 0, 20)
      /\ Code[3] = OpImm("add", 4, 3, -1) /\ Code[4] = Op("and", 3, 3, 4)
      /\ Code[5] = OpImm("add", 5, 5, 1) /\ Code[6] = OpImm("jal", 0, 0, -16)
      /\ Code[7] = Op("pcnt", 6, 1, 0)
  BY DEF Code, LawPrograms
<1>2. /\ {"add", "and", "pcnt"} \subseteq Computed /\ "beq" \in BranchOps
  BY DEF Computed, IntegerOps, BitManipOps, BranchOps
<1> QED
  BY <1>1, <1>2

\* A word and the one before it agree in all bits but those up to the lowest.
LEMMA ClearsLowest ==
  ASSUME NEW x \in Word, x # 0
  PROVE  \E m \in SetBits(x) :
           SetBits(And(x, Wrap(x + Wrap(-1)))) = SetBits(x) \ {m}
<1> DEFINE S == SetBits(x)
           m == Min(S)
           T == (S \ {m}) \cup (0 .. m - 1)
           d == Drop(S, m + 1)
           n == W - (m + 1)
<1>1. /\ m \in S /\ \A i \in S : m <= i
      /\ S \subseteq 0 .. W - 1 /\ Positions = 0 .. W - 1 /\ W \in Nat
      /\ NumberOf(S, W) = x
  BY HighestAndLowest, BitsOfWord, WidthType DEF Positions
<1> HIDE DEF S, m
<1>2. m \in 0 .. W - 1 /\ m \in Nat /\ n \in Nat /\ (m + 1) + n = W
      /\ m + 1 \in Nat
  BY <1>1
<1>3. Drop(T, m + 1) = d
  BY <1>2 DEF Drop
<1>4. /\ NumberOf(S, W) = NumberOf(S, m + 1) + Pow2[m + 1] * NumberOf(d, n)
      /\ NumberOf(T, W) = NumberOf(T, m + 1) + Pow2[m + 1] * NumberOf(d, n)
  <2> HIDE DEF T, d, n
  <2>1. NumberOf(S, (m + 1) + n) = NumberOf(S, m + 1) + Pow2[m + 1] * NumberOf(Drop(S, m + 1), n)
    BY <1>2, NumberSplit
  <2>2. NumberOf(T, (m + 1) + n) = NumberOf(T, m + 1) + Pow2[m + 1] * NumberOf(Drop(T, m + 1), n)
    BY <1>2, NumberSplit
  <2> QED
    BY <1>2, <1>3, <2>1, <2>2 DEF d
<1>5. NumberOf(S, m + 1) = Pow2[m]
  <2>1. \A i \in 0 .. m - 1 : i \notin S
    BY <1>1, <1>2
  <2>2. NumberOf(S, m) = 0
    BY <1>2, <2>1, NumberNone
  <2>3. NumberOf(S, m + 1) = NumberOf(S, m) + Pow2[m]
    BY <1>1, <1>2, NumberNext
  <2>4. Pow2[m] \in Int
    BY <1>2, Pow2Next
  <2> QED
    BY <2>2, <2>3, <2>4
<1>6. NumberOf(T, m + 1) = Pow2[m] - 1
  <2>1. (\A i \in 0 .. m - 1 : i \in T) /\ m \notin T
    BY <1>2
  <2> HIDE DEF T
  <2>2. NumberOf(T, m) = Pow2[m] - 1
    BY <1>2, <2>1, NumberFull
  <2> QED
    BY <1>2, <2>1, <2>2, NumberNext
<1>7. NumberOf(T, W) = x - 1 /\ x \in Int
  <2>1. Pow2[m] \in Int /\ Pow2[m + 1] \in Int /\ NumberOf(d, n) \in Int
    BY <1>2, Pow2Next, NumberNext
  <2>2. x \in Int
    BY WrapIs
  <2> DEFINE p == Pow2[m + 1] * NumberOf(d, n)
  <2>3. p \in Int
    BY <2>1
  <2> HIDE DEF p, d, n, T
  <2>4. NumberOf(S, W) = Pow2[m] + p /\ NumberOf(T, W) = (Pow2[m] - 1) + p
    BY <1>4, <1>5, <1>6 DEF p
  <2> QED
    BY <1>1, <2>1, <2>2, <2>3, <2>4
<1>8. Wrap(x + Wrap(-1)) = x - 1 /\ SetBits(x - 1) = T \cap Positions
  <2> HIDE DEF T
  <2>1. OfBits(T) = x - 1 /\ x - 1 \in Word /\ SetBits(x - 1) = T \cap Positions
    BY <1>7, WordOfBits DEF OfBits
  <2>2. Wrap(x) = x /\ Wrap(x - 1) = x - 1
    BY <2>1, WrapIs
  <2>3. Wrap(Wrap(x) + Wrap(-1)) = Wrap(x + (-1))
    BY <1>7, WrapAdd
  <2>4. x + (-1) = x - 1
    BY <1>7
  <2> QED
    BY <2>1, <2>2, <2>3, <2>4
<1>9. SetBits(And(x, x - 1)) = S \cap (T \cap Positions)
  <2>1. SetBits(And(x, x - 1)) = SetBits(x) \cap SetBits(x - 1)
    BY BitwiseIs
  <2> HIDE DEF T
  <2> QED
    BY <1>8, <2>1 DEF S
<1>10. S \cap (T \cap Positions) = S \ {m}
  <2>1. ASSUME NEW i \in S
        PROVE  i \in Positions /\ ~(i \in 0 .. m - 1) /\ i \in Int
    BY <1>1, <1>2
  <2> QED
    BY <2>1
<1>11. SetBits(And(x, Wrap(x + Wrap(-1)))) = S \ {m}
  BY <1>8, <1>9, <1>10
<1> QED
  BY <1>1, <1>11 DEF S

\* What is still to be counted, and how much the loop is behind by.
Counted(n) ==
  gpr[5] + Cardinality(SetBits(gpr[3])) + n = Cardinality(SetBits(A))

\* Every bit that register 3 has lost is counted in register 5.
CountInv ==
  program = "count" => Kept /\
    LET x == gpr[3]
        n == Cardinality(SetBits(A))
    IN /\ gpr[5] \in 0 .. W
       /\ pc # 0 => x \in Word
       /\ \/ pc = 0 /\ gpr[5] = 0
          \/ pc = 4 * 1 /\ Counted(0)
          \/ pc = 4 * 2 /\ Counted(0) /\ x # 0
          \/ pc = 4 * 3 /\ Counted(0) /\ x # 0 /\ gpr[4] = Wrap(x + Wrap(-1))
          \/ pc = 4 * 4 /\ Counted(1)
          \/ pc = 4 * 5 /\ Counted(0)
          \/ pc = 4 * 6 /\ gpr[5] = n
          \/ pc = 4 * 7 /\ gpr[5] = n /\ gpr[6] = n

\* At the start nothing is counted,
LEMMA InitCount == Init => CountInv
<1> SUFFICES ASSUME Init
             PROVE  CountInv
  OBVIOUS
<1>1. Kept /\ pc = 0 /\ gpr[5] = 0
  BY InitKept
<1>2. 0 \in 0 .. W
  BY WidthType
<1> QED
  BY <1>1, <1>2 DEF CountInv

\* To subtract 1 and keep the common bits takes one bit away.
LEMMA BitsCounted ==
  ASSUME NEW x \in Word
  PROVE  /\ Cardinality(SetBits(x)) \in 0 .. W
         /\ x = 0 => Cardinality(SetBits(x)) = 0
         /\ x # 0 =>
              /\ And(x, Wrap(x + Wrap(-1))) \in Word
              /\ Cardinality(SetBits(And(x, Wrap(x + Wrap(-1))))) + 1 =
                   Cardinality(SetBits(x))
<1>1. SetBits(x) \subseteq Positions
  BY BitsOfWord
<1>2. IsFiniteSet(SetBits(x)) /\ Cardinality(SetBits(x)) \in 0 .. W
  BY <1>1, BitsAreFinite
<1>3. ASSUME x = 0
      PROVE  Cardinality(SetBits(x)) = 0
  BY <1>3, EmptyWord, FS_EmptySet
<1>4. ASSUME x # 0
      PROVE  Cardinality(SetBits(And(x, Wrap(x + Wrap(-1))))) + 1 =
               Cardinality(SetBits(x))
  <2>1. PICK m \in SetBits(x) :
          SetBits(And(x, Wrap(x + Wrap(-1)))) = SetBits(x) \ {m}
    BY <1>4, ClearsLowest
  <2>2. Cardinality(SetBits(x) \ {m}) = Cardinality(SetBits(x)) - 1
    <3> DEFINE S == SetBits(x)
    <3>1. IsFiniteSet(S) /\ m \in S
      BY <1>2
    <3> HIDE DEF S
    <3>2. Cardinality(S \ {m}) =
            IF m \in S THEN Cardinality(S) - 1 ELSE Cardinality(S)
      BY <3>1, FS_RemoveElement
    <3> QED
      BY <3>1, <3>2 DEF S
  <2>3. Cardinality(SetBits(And(x, Wrap(x + Wrap(-1))))) =
          Cardinality(SetBits(x) \ {m})
    BY <2>1
  <2>4. Cardinality(SetBits(x)) \in Int
    BY <1>2
  <2> QED
    BY <2>2, <2>3, <2>4
<1> QED
  BY <1>2, <1>3, <1>4, BitwiseIs

\* and every instruction of the loop keeps what is still to be counted.
LEMMA NextCount ==
  ASSUME Programs = LawPrograms, CountInv, Next
  PROVE  CountInv'
<1> DEFINE x == gpr[3]
           z == gpr[5]
           n == Cardinality(SetBits(A))
<1> SUFFICES ASSUME program = "count"
             PROVE  CountInv'
  BY ProgramStays DEF CountInv
<1>1. Kept /\ ~Ended /\ program' = program /\ z \in 0 .. W
  BY ProgramStays DEF CountInv, Next
<1>2. /\ Len(Code) = 7 /\ \A r \in {1, 2, 3, 4, 5, 6} : r \in Registers
      /\ gpr[0] = 0 /\ A \in Word /\ B \in Word
      /\ Wrap(0) = 0 /\ Wrap(1) = 1 /\ n \in 0 .. W
      /\ W \in Nat
  <2>1. 0 \in 0 .. 63 /\ 1 \in 0 .. 63
    OBVIOUS
  <2>2. A \in Word /\ B \in Word /\ gpr[0] = 0
    BY <1>1 DEF Kept, A, B
  <2>3. n \in 0 .. W
    BY <2>2, BitsCounted
  <2> QED
    BY <1>1, <2>1, <2>2, <2>3, CountCode, SmallInWord, WidthType DEF Registers
<1>3. ASSUME NEW k \in 0 .. 6, pc = 4 * k
      PROVE  At(k)
  BY <1>1, <1>2, <1>3, PlaceOf
<1>4. ASSUME NEW k, NEW rd, Goes(k, rd), rd \in {3, 4, 5, 6}
      PROVE  /\ Kept' /\ A' = A /\ B' = B /\ pc' = 4 * k
             /\ \A r \in {3, 4, 5, 6} \ {rd} : gpr'[r] = gpr[r]
  BY <1>2, <1>4 DEF Goes, A, B
<1>10. CASE pc = 0
  <2>1. At(0) /\ z = 0
    BY <1>3, <1>10 DEF CountInv
  <2>2. Goes(1, 3) /\ gpr'[3] = Wrap(gpr[1] + Wrap(0))
    BY <1>1, <2>1, CountCode, OpImmStep, IntegerResults
  <2>3. gpr'[3] = A
    BY <1>2, <2>2, AddZero DEF A
  <2>4. (0 + n) + 0 = n
    BY <1>2
  <2> QED
    BY <1>1, <1>2, <1>4, <2>1, <2>2, <2>3, <2>4 DEF CountInv, Counted
<1>11. CASE pc = 4 * 1
  <2>1. At(1) /\ x \in Word /\ Counted(0)
    BY <1>3, <1>11 DEF CountInv
  <2>2. /\ Kept' /\ gpr' = gpr
        /\ x = 0 => pc' = 4 * 6
        /\ x # 0 => pc' = 4 * 2
    <3>1. 1 + 5 = 6 /\ 6 \in 0 .. 7 /\ 5 \in Int
      OBVIOUS
    <3>2. /\ Kept' /\ gpr' = gpr
          /\ Takes("beq", x, 0) => pc' = Wrap(pc + 20)
          /\ ~Takes("beq", x, 0) => pc' = 4 * (1 + 1)
      BY <1>1, <1>2, <2>1, CountCode, BranchStep
    <3>3. Wrap(pc + 4 * 5) = 4 * 6
      BY <1>1, <1>2, <2>1, <3>1, TargetIs
    <3> QED
      BY <3>2, <3>3, BranchNames
  <2>3. A' = A /\ B' = B
    BY <2>2 DEF A, B
  <2>4. CASE x = 0
    <3>1. z = n
      <4>1. Cardinality(SetBits(x)) = 0
        BY <2>1, <2>4, BitsCounted
      <4> QED
        BY <1>1, <1>2, <2>1, <4>1 DEF Counted
    <3> QED
      BY <1>1, <2>1, <2>2, <2>3, <2>4, <3>1 DEF CountInv
  <2>5. CASE x # 0
    BY <1>1, <2>1, <2>2, <2>3, <2>5 DEF CountInv, Counted
  <2> QED
    BY <2>4, <2>5
<1>12. CASE pc = 4 * 2
  <2>1. At(2) /\ x \in Word /\ Counted(0) /\ x # 0
    BY <1>3, <1>12 DEF CountInv
  <2>2. Goes(3, 4) /\ gpr'[4] = Wrap(x + Wrap(-1))
    BY <1>1, <2>1, CountCode, OpImmStep, IntegerResults
  <2> QED
    BY <1>1, <1>4, <2>1, <2>2 DEF CountInv, Counted
<1>13. CASE pc = 4 * 3
  <2>1. At(3) /\ x \in Word /\ Counted(0) /\ x # 0 /\ gpr[4] = Wrap(x + Wrap(-1))
    BY <1>3, <1>13 DEF CountInv
  <2>2. Goes(4, 3) /\ gpr'[3] = And(x, Wrap(x + Wrap(-1)))
    BY <1>1, <2>1, CountCode, OpStep, IntegerResults
  <2>3. /\ gpr'[3] \in Word /\ gpr'[5] = z /\ A' = A
        /\ Cardinality(SetBits(gpr'[3])) + 1 = Cardinality(SetBits(x))
    BY <1>4, <2>1, <2>2, BitsCounted
  <2>4. Cardinality(SetBits(gpr'[3])) \in Int
    BY <2>3, BitsCounted
  <2>5. (z + Cardinality(SetBits(gpr'[3]))) + 1 = n
    BY <1>1, <1>2, <2>1, <2>3, <2>4 DEF Counted
  <2> QED
    BY <1>1, <1>4, <2>1, <2>2, <2>3, <2>5 DEF CountInv, Counted
<1>14. CASE pc = 4 * 4
  <2>1. At(4) /\ x \in Word /\ Counted(1)
    BY <1>3, <1>14 DEF CountInv
  <2>2. Goes(5, 5) /\ gpr'[5] = Wrap(z + Wrap(1))
    BY <1>1, <2>1, CountCode, OpImmStep, IntegerResults
  <2>3. Cardinality(SetBits(x)) \in 0 .. W
    BY <2>1, BitsCounted
  <2>4. z + 1 \in 0 .. W /\ ((z + 1) + Cardinality(SetBits(x))) + 0 = n
    BY <1>1, <1>2, <2>1, <2>3 DEF Counted
  <2>5. gpr'[5] = z + 1
    <3>1. z + 1 \in 0 .. 63
      BY <2>4, WordsAssumption
    <3> QED
      BY <1>2, <2>2, <3>1, SmallInWord
  <2> QED
    BY <1>1, <1>4, <2>1, <2>2, <2>4, <2>5 DEF CountInv, Counted
<1>15. CASE pc = 4 * 5
  <2>1. At(5) /\ x \in Word /\ Counted(0)
    BY <1>3, <1>15 DEF CountInv
  <2>2. Wrap(pc + Wrap(4 * (-4))) = 4 * 1
    <3>1. 5 + (-4) = 1 /\ 1 \in 0 .. 7 /\ -4 \in Int
      OBVIOUS
    <3> QED
      BY <1>1, <1>2, <2>1, <3>1, TargetIs
  <2>3. /\ Kept' /\ pc' = 4 * 1
        /\ \A r \in Registers \ {0} : gpr'[r] = gpr[r]
    <3>1. 0 \in Registers \ {1, 2}
      BY DEF Registers
    <3> QED
      BY <1>1, <2>1, <2>2, <3>1, CountCode, JumpStep
  <2>4. A' = A /\ B' = B /\ \A r \in {3, 4, 5} : gpr'[r] = gpr[r]
    BY <1>2, <2>3 DEF A, B
  <2> QED
    BY <1>1, <2>1, <2>3, <2>4 DEF CountInv, Counted
<1>16. CASE pc = 4 * 6
  <2>1. At(6) /\ x \in Word /\ z = n
    BY <1>3, <1>16 DEF CountInv
  <2>2. Goes(7, 6) /\ gpr'[6] = n
    BY <1>1, <2>1, CountCode, OpStep, BitManipResults DEF A, Pcnt
  <2> QED
    BY <1>1, <1>4, <2>1, <2>2 DEF CountInv
<1>17. CASE pc = 4 * 7
  <2>1. At(7)
    BY <1>1, <1>2, <1>17, PlaceOf
  <2> QED
    BY <1>2, <2>1 DEF At
<1> QED
  BY <1>10, <1>11, <1>12, <1>13, <1>14, <1>15, <1>16, <1>17 DEF CountInv

\* pcnt counts the bits as the loop does.
LEMMA CountHolds ==
  ASSUME Programs = LawPrograms, CountInv, Finished("count")
  PROVE  gpr[6] = gpr[5]
<1>1. Len(Code) = 7 /\ Ended /\ program = "count"
  BY CountCode DEF Finished
<1> QED
  BY <1>1 DEF CountInv, Ended

-----------------------------------------------------------------------------
(* Extensions.                                                             *)

\* Bytes and halves of a word.
LEMMA PartsOfWord ==
  /\ Byte \in 1 .. W - 1 /\ Half \in 1 .. W - 1 /\ Byte \in Nat /\ Half \in Nat
  /\ Half = 2 * Byte /\ W = 4 * Byte /\ W = 2 * Half
  /\ 2 * Byte \in 1 .. W - 1 /\ 3 * Byte \in 1 .. W - 1 /\ W \in Nat
<1>1. /\ W = 8 => Byte = 2 /\ Half = 4
      /\ W = 16 => Byte = 4 /\ Half = 8
      /\ W = 32 => Byte = 8 /\ Half = 16
  BY DEF Byte, Half
<1>2. W \in {8, 16, 32}
  BY WordsAssumption
<1> QED
  BY <1>1, <1>2

\* A word is its lower bits and the others.
LEMMA WordParts ==
  ASSUME NEW x \in Word, NEW n \in 0 .. W
  PROVE  /\ Power[n] \in Nat \ {0} /\ Power[n] = Pow2[n]
         /\ Power[W - n] \in Nat \ {0} /\ Power[W - n] = Pow2[W - n]
         /\ Power[W] = Power[n] * Power[W - n] /\ Power[W] \in Nat \ {0}
         /\ Field(x, n) \in Nat /\ Field(x, n) < Power[n] /\ Field(x, n) \in Word
         /\ x \in Nat /\ x \div Power[n] \in Nat
         /\ x = Field(x, n) + Power[n] * (x \div Power[n])
<1>1. W \in Nat /\ n \in Nat /\ W - n \in 0 .. W /\ W \in 0 .. W /\ n <= W
  BY WidthType
<1>2. /\ Power[n] \in Nat \ {0} /\ Power[n] = Pow2[n]
      /\ Power[W - n] \in Nat \ {0} /\ Power[W - n] = Pow2[W - n]
      /\ Power[W] = Pow2[W] /\ Power[W] \in Nat \ {0}
  BY <1>1, WidthType
<1>3. Power[W] = Power[n] * Power[W - n]
  BY <1>1, <1>2, PowersInOrder
<1>4. x \in Nat
  BY WrapIs
<1>5. Field(x, n) \in Word
  BY FieldIs
<1> DEFINE d == Power[n]
<1> HIDE DEF d
<1> DEFINE q == x \div d
           r == x % d
<1>6. d \in Nat \ {0} /\ q \in Nat /\ r \in 0 .. d - 1 /\ x = d * q + r
  <2>1. d \in Nat \ {0}
    BY <1>2 DEF d
  <2> QED
    BY <1>4, <2>1
<1>7. q \in Nat /\ r \in Nat /\ r < d /\ x = r + d * q
  <2> HIDE DEF q, r
  <2>1. d * q \in Int
    BY <1>6
  <2> QED
    BY <1>6, <2>1
<1>8. r = Field(x, n)
  BY DEF d, Field
<1> HIDE DEF r
<1> QED
  BY <1>2, <1>3, <1>4, <1>5, <1>7, <1>8 DEF d

\* Shifting left by the rest of a word keeps the lower bits.
LEMMA SllKeeps ==
  ASSUME NEW x \in Word, NEW n \in 0 .. W
  PROVE  Sll(x, W - n) = Field(x, n) * Power[W - n]
<1> DEFINE f == Field(x, n)
           q == x \div Power[n]
           p == Power[n]
           k == Power[W - n]
           w == Power[W]
<1>1. /\ f \in Nat /\ f < p /\ q \in Nat /\ x = f + p * q /\ p \in Nat \ {0}
      /\ k \in Nat \ {0} /\ w = p * k /\ w \in Nat \ {0}
  BY WordParts
<1> HIDE DEF f, q, p, k, w
<1>2. x * k = f * k + w * q /\ f * k \in Nat
  <2>1. (f + p * q) * k = f * k + (p * q) * k
    BY <1>1
  <2>2. (p * q) * k = (p * k) * q
    BY <1>1
  <2>3. f * k \in Nat
    BY <1>1
  <2> QED
    BY <1>1, <2>1, <2>2, <2>3
<1>3. f * k < w
  <2>1. f * k < p * k
    <3>1. f + 1 <= p
      BY <1>1
    <3>2. (f + 1) * k <= p * k
      BY <1>1, <3>1
    <3>3. (f + 1) * k = f * k + k
      BY <1>1
    <3> QED
      BY <1>1, <1>2, <3>2, <3>3
  <2> QED
    BY <1>1, <2>1
<1>4. (f * k + w * q) % w = f * k
  <2> DEFINE r == f * k
  <2>1. r \in Nat /\ r < w
    BY <1>2, <1>3
  <2> HIDE DEF r
  <2>2. (r + w * q) % w = r
    BY <1>1, <2>1, DivMod
  <2> QED
    BY <2>2 DEF r
<1>5. Wrap(x * k) = f * k
  BY <1>2, <1>4 DEF Wrap, w
<1> QED
  BY <1>5 DEF Sll, f, k

\* A sign is extended by shifting it to the top and back.
LEMMA SextIs ==
  ASSUME NEW x \in Word, NEW n \in 1 .. W - 1
  PROVE  Sra(Sll(x, W - n), W - n) = Sext(x, n)
<1> DEFINE f == Field(x, n)
           h == Power[n - 1]
           p == Power[n]
           k == Power[W - n]
           w == Power[W]
           t == Power[W - 1]
           b == Bit(x, n - 1)
           y == Sll(x, W - n)
<1>1. n \in 0 .. W /\ n - 1 \in 0 .. W /\ W - n \in 0 .. W /\ n - 1 \in Nat
      /\ W \in Nat /\ n \in Nat
  BY WidthType
<1>2. /\ f \in Nat /\ f < p /\ p \in Nat \ {0} /\ f \in Word
      /\ k \in Nat \ {0} /\ w = p * k /\ w \in Nat \ {0} /\ x \in Nat
  BY <1>1, WordParts
<1>3. h \in Nat \ {0} /\ p = 2 * h /\ h = Pow2[n - 1] /\ p = Pow2[n]
  <2>1. h = Pow2[n - 1] /\ p = Pow2[n] /\ h \in Nat \ {0}
    BY <1>1, WidthType
  <2>2. Pow2[(n - 1) + 1] = 2 * Pow2[n - 1]
    BY <1>1, Pow2Next
  <2>3. (n - 1) + 1 = n
    BY <1>1
  <2> QED
    BY <2>1, <2>2, <2>3
<1>4. t = h * k /\ t \in Nat \ {0} /\ w = 2 * t
  <2>1. t \in Nat \ {0} /\ w = 2 * t
    BY WrapIs
  <2>2. w = 2 * (h * k)
    BY <1>2, <1>3
  <2>3. h * k \in Int
    BY <1>2, <1>3
  <2> QED
    BY <2>1, <2>2, <2>3
<1>5. b \in {0, 1} /\ \E r \in Nat : r < h /\ f = r + h * b
  <2>1. (x \div Pow2[n - 1]) % 2 \in {0, 1}
        /\ x % Pow2[(n - 1) + 1] = (x % Pow2[n - 1]) + Pow2[n - 1] * ((x \div Pow2[n - 1]) % 2)
    BY <1>1, <1>2, RestNext
  <2>2. (n - 1) + 1 = n
    BY <1>1
  <2>3. b \in {0, 1} /\ f = (x % h) + h * b
    BY <1>3, <2>1, <2>2 DEF Bit, Field
  <2> HIDE DEF h, f, b
  <2>4. x % h \in Nat /\ x % h < h
    BY <1>2, <1>3
  <2> QED
    BY <2>3, <2>4
<1>6. y = f * k /\ y \in Word
  BY <1>1, SllKeeps, SllIs
<1>7. Sra(y, W - n) = Wrap(Signed(y) \div k)
  BY DEF Sra
<1>8. Sext(x, n) = IF b = 1 THEN Wrap(f - p) ELSE f
  BY DEF Sext
<1>9. Wrap(f) = f
  BY <1>2, WrapIs
<1>10. /\ y < t => Signed(y) = y
       /\ y >= t => Signed(y) = y - w
  BY <1>6, SignedIs
<1> HIDE DEF f, h, p, k, w, t, b, y
<1>11. ASSUME NEW z \in Int
       PROVE  (z * k) \div k = z
  <2>1. k * z <= z * k /\ z * k < k * (z + 1) /\ z * k \in Int /\ z + 1 \in Int
    BY <1>2
  <2>2. (z * k) \div k \in Int /\ z <= (z * k) \div k /\ (z * k) \div k < z + 1
    BY <1>2, <2>1, QuotientBound
  <2> QED
    BY <2>2
<1>12. CASE b = 1
  <2>1. f >= h
    BY <1>3, <1>5, <1>12
  <2>2. f * k >= h * k
    BY <1>2, <1>3, <2>1
  <2>3. Signed(y) = f * k - w
    BY <1>4, <1>6, <1>10, <2>2
  <2>4. f * k - p * k = (f - p) * k /\ f - p \in Int
    BY <1>2
  <2>5. Signed(y) \div k = f - p
    BY <1>2, <1>11, <2>3, <2>4
  <2> QED
    BY <1>7, <1>8, <1>12, <2>5 DEF y
<1>13. CASE b # 1
  <2>1. f < h
    BY <1>3, <1>5, <1>13
  <2>2. f * k < h * k
    <3>1. f + 1 <= h
      BY <1>2, <1>3, <2>1
    <3>2. (f + 1) * k <= h * k
      BY <1>2, <1>3, <3>1
    <3>3. (f + 1) * k = f * k + k /\ f * k \in Int /\ h * k \in Int
      BY <1>2, <1>3
    <3> QED
      BY <1>2, <3>2, <3>3
  <2>3. Signed(y) = f * k
    BY <1>4, <1>6, <1>10, <2>2
  <2>4. Signed(y) \div k = f
    BY <1>2, <1>11, <2>3
  <2> QED
    BY <1>7, <1>8, <1>9, <1>13, <2>4 DEF y
<1> QED
  BY <1>12, <1>13 DEF y

\* The program of the sign extensions.
LEMMA ExtendCode ==
  ASSUME Programs = LawPrograms, program = "extend"
  PROVE  /\ Len(Code) = 6 /\ Straight(Code)
         /\ Code[1] = Op("sext_b", 3, 1, 0) /\ Code[2] = OpImm("sll", 4, 1, W - Byte)
         /\ Code[3] = OpImm("sra", 4, 4, W - Byte) /\ Code[4] = Op("sext_h", 5, 1, 0)
         /\ Code[5] = OpImm("sll", 6, 1, W - Half)
         /\ Code[6] = OpImm("sra", 6, 6, W - Half)
         /\ {"sext_b", "sll", "sra", "sext_h"} \subseteq Computed
<1>1. /\ Len(Code) = 6
      /\ Code[1] = Op("sext_b", 3, 1, 0) /\ Code[2] = OpImm("sll", 4, 1, W - Byte)
      /\ Code[3] = OpImm("sra", 4, 4, W - Byte) /\ Code[4] = Op("sext_h", 5, 1, 0)
      /\ Code[5] = OpImm("sll", 6, 1, W - Half)
      /\ Code[6] = OpImm("sra", 6, 6, W - Half)
  BY DEF Code, LawPrograms
<1>2. /\ {"sext_b", "sll", "sra", "sext_h"} \subseteq Computed
  BY DEF Computed, IntegerOps, BitManipOps
<1>3. /\ Code[1].op = "sext_b" /\ Code[2].op = "sll" /\ Code[3].op = "sra"
      /\ Code[4].op = "sext_h" /\ Code[5].op = "sll" /\ Code[6].op = "sra"
      /\ Code[1].rd = 3 /\ Code[2].rd = 4 /\ Code[3].rd = 4
      /\ Code[4].rd = 5 /\ Code[5].rd = 6 /\ Code[6].rd = 6
  BY <1>1, OpParts
<1>4. Straight(Code)
  BY <1>1, <1>2, <1>3 DEF Straight, StraightOps, Registers
<1> QED
  BY <1>1, <1>2, <1>4

\* An extension is a shift up and an arithmetic shift down.
LEMMA ExtendHolds ==
  ASSUME Programs = LawPrograms, StraightInv, Finished("extend")
  PROVE  gpr[3] = gpr[4] /\ gpr[5] = gpr[6]
<1> DEFINE m == W - Byte
           n == W - Half
<1>1. Len(Code) = 6 /\ Straight(Code) /\ Ended
  BY ExtendCode DEF Finished
<1>2. Kept /\ \E h : Run(h, 6)
  BY <1>1, Ran
<1>3. PICK h : Run(h, 6)
  BY <1>2
<1>4. \A i \in 0 .. 6 : h[i][1] = A /\ h[i][2] = B /\ h[i][0] = 0
  BY <1>3 DEF Run, A, B
<1>5. Amount(Wrap(m)) = m /\ Amount(Wrap(n)) = n
  <2>1. m \in 0 .. W - 1 /\ n \in 0 .. W - 1
    BY PartsOfWord
  <2> HIDE DEF m, n
  <2> QED
    BY <2>1, SmallInWord
<1>6. /\ h[1][3] = Sext(h[0][1], Byte)
      /\ h[2][4] = Sll(h[1][1], Amount(Wrap(m)))
      /\ h[3][4] = Sra(h[2][4], Amount(Wrap(m)))
      /\ h[4][5] = Sext(h[3][1], Half)
      /\ h[5][6] = Sll(h[4][1], Amount(Wrap(n)))
      /\ h[6][6] = Sra(h[5][6], Amount(Wrap(n)))
  <2>1. h[1][3] = Sext(h[0][1], Byte) /\ h[4][5] = Sext(h[3][1], Half)
    BY <1>3, ExtendCode, OpDone, BitManipResults DEF Finished
  <2>2. /\ h[2][4] = Sll(h[1][1], Amount(Wrap(m)))
        /\ h[3][4] = Sra(h[2][4], Amount(Wrap(m)))
        /\ h[5][6] = Sll(h[4][1], Amount(Wrap(n)))
        /\ h[6][6] = Sra(h[5][6], Amount(Wrap(n)))
    <3>1. 6 \in Nat /\ 1 \in 0 .. 6 - 1 /\ 2 \in 0 .. 6 - 1 /\ 4 \in 0 .. 6 - 1
          /\ 5 \in 0 .. 6 - 1 /\ 4 \in 3 .. 9 /\ 6 \in 3 .. 9
      OBVIOUS
    <3>2. /\ Code[1 + 1] = OpImm("sll", 4, 1, m) /\ Code[2 + 1] = OpImm("sra", 4, 4, m)
          /\ Code[4 + 1] = OpImm("sll", 6, 1, n) /\ Code[5 + 1] = OpImm("sra", 6, 6, n)
          /\ "sll" \in Computed /\ "sra" \in Computed
      BY ExtendCode DEF Finished
    <3> HIDE DEF m, n
    <3>3. h[1 + 1][4] = Sll(h[1][1], Amount(Wrap(m)))
      BY <1>3, <3>1, <3>2, OpImmDone, IntegerResults
    <3>4. h[2 + 1][4] = Sra(h[2][4], Amount(Wrap(m)))
      BY <1>3, <3>1, <3>2, OpImmDone, IntegerResults
    <3>5. h[4 + 1][6] = Sll(h[4][1], Amount(Wrap(n)))
      BY <1>3, <3>1, <3>2, OpImmDone, IntegerResults
    <3>6. h[5 + 1][6] = Sra(h[5][6], Amount(Wrap(n)))
      BY <1>3, <3>1, <3>2, OpImmDone, IntegerResults
    <3> QED
      BY <3>3, <3>4, <3>5, <3>6
  <2> QED
    BY <2>1, <2>2
<1>7. /\ \A r \in Registers \ {4} : h[2][r] = h[1][r]
      /\ \A r \in Registers \ {4} : h[3][r] = h[2][r]
      /\ \A r \in Registers \ {5} : h[4][r] = h[3][r]
      /\ \A r \in Registers \ {6} : h[5][r] = h[4][r]
      /\ \A r \in Registers \ {6} : h[6][r] = h[5][r]
  <2>1. /\ Code[2].rd = 4 /\ Code[3].rd = 4 /\ Code[4].rd = 5
        /\ Code[5].rd = 6 /\ Code[6].rd = 6
    BY ExtendCode, OpParts DEF Finished
  <2>2. \A i \in 1 .. 6 :
          \A r \in Registers \ {Code[i].rd} : h[i][r] = h[i - 1][r]
    BY <1>3, Frame
  <2>3. /\ \A r \in Registers \ {4} : h[2][r] = h[1][r]
        /\ \A r \in Registers \ {4} : h[3][r] = h[2][r]
        /\ \A r \in Registers \ {5} : h[4][r] = h[3][r]
    BY <2>1, <2>2
  <2>4. /\ \A r \in Registers \ {6} : h[5][r] = h[4][r]
        /\ \A r \in Registers \ {6} : h[6][r] = h[5][r]
    BY <2>1, <2>2
  <2> QED
    BY <2>3, <2>4
<1>8. A \in Word /\ 3 \in Registers /\ 4 \in Registers /\ 5 \in Registers
      /\ 6 \in Registers
  BY <1>2 DEF Kept, Registers, A
<1>9. /\ gpr[3] = Sext(A, Byte) /\ gpr[4] = Sra(Sll(A, m), m)
      /\ gpr[5] = Sext(A, Half) /\ gpr[6] = Sra(Sll(A, n), n)
  <2>1. gpr = h[6]
    BY <1>3 DEF Run
  <2> HIDE DEF m, n
  <2> QED
    BY <1>4, <1>5, <1>6, <1>7, <1>8, <2>1
<1> QED
  BY <1>8, <1>9, PartsOfWord, SextIs

-----------------------------------------------------------------------------
(* Bytes of words.                                                         *)

\* Where the places of a word are in its bytes.
LEMMA PlacesInBytes ==
  /\ \A i \in Positions :
       /\ i \div Byte \in 0 .. 3 /\ i % Byte \in 0 .. Byte - 1
       /\ i = (i % Byte) + (i \div Byte) * Byte
  /\ \A k \in 0 .. 3, j \in 0 .. Byte - 1 :
       /\ j + k * Byte \in Positions
       /\ (j + k * Byte) \div Byte = k /\ (j + k * Byte) % Byte = j
       /\ W - Byte * (1 + k) + j = j + (3 - k) * Byte
<1>1. /\ W = 8 => Byte = 2 /\ Positions = 0 .. 7
      /\ W = 16 => Byte = 4 /\ Positions = 0 .. 15
      /\ W = 32 => Byte = 8 /\ Positions = 0 .. 31
  BY DEF Byte, Positions
<1>2. W \in {8, 16, 32}
  BY WordsAssumption
<1>3. CASE W = 8
  BY <1>1, <1>3
<1>4. CASE W = 16
  BY <1>1, <1>4
<1>5. CASE W = 32
  BY <1>1, <1>5
<1> QED
  BY <1>2, <1>3, <1>4, <1>5

\* Place j of byte k.
LEMMA PlaceInByte ==
  ASSUME NEW k \in 0 .. 3, NEW j \in 0 .. Byte - 1
  PROVE  /\ j \in Nat /\ j + k * Byte \in Positions
         /\ (j + k * Byte) \div Byte = k /\ (j + k * Byte) % Byte = j
         /\ W - Byte * (1 + k) + j = j + (3 - k) * Byte
<1>1. Byte \in Nat
  BY PartsOfWord
<1>2. j \in Nat
  BY <1>1
<1> QED
  BY <1>2, PlacesInBytes

\* The same place of the byte on the other side.
Mirrored(i) == W - Byte * (1 + i \div Byte) + (i % Byte)

\* To turn the bytes around twice changes nothing.
LEMMA MirroredIs ==
  ASSUME NEW i \in Positions
  PROVE  Mirrored(i) \in Positions /\ Mirrored(Mirrored(i)) = i
<1> DEFINE k == i \div Byte
           j == i % Byte
<1>1. k \in 0 .. 3 /\ j \in 0 .. Byte - 1 /\ i = j + k * Byte
  BY PlacesInBytes
<1>2. Mirrored(i) = W - Byte * (1 + k) + j
  BY DEF Mirrored
<1> HIDE DEF k, j
<1>3. 3 - k \in 0 .. 3 /\ 3 - (3 - k) = k
  BY <1>1
<1>4. Mirrored(i) = j + (3 - k) * Byte
  BY <1>1, <1>2, PlacesInBytes
<1> DEFINE l == 3 - k
<1> HIDE DEF l
<1>5. /\ j + l * Byte \in Positions /\ (j + l * Byte) \div Byte = l
      /\ (j + l * Byte) % Byte = j /\ W - Byte * (1 + l) + j = j + (3 - l) * Byte
  <2>1. l \in 0 .. 3
    BY <1>3 DEF l
  <2> QED
    BY <1>1, <2>1, PlacesInBytes
<1>6. Mirrored(j + l * Byte) = W - Byte * (1 + l) + j
  BY <1>5 DEF Mirrored
<1> QED
  BY <1>1, <1>3, <1>4, <1>5, <1>6 DEF l

\* A number is made of the numbers of its bytes.
LEMMA NumberOfBytes ==
  ASSUME NEW T
  PROVE  NumberOf(T, W) =
           NumberOf(Drop(T, 0 * Byte), Byte)
           + NumberOf(Drop(T, 1 * Byte), Byte) * Power[Byte]
           + NumberOf(Drop(T, 2 * Byte), Byte) * Power[2 * Byte]
           + NumberOf(Drop(T, 3 * Byte), Byte) * Power[3 * Byte]
<1> DEFINE n(k) == NumberOf(Drop(T, k * Byte), Byte)
<1>1. /\ Byte \in Nat /\ 2 * Byte \in Nat /\ 3 * Byte \in Nat
      /\ Byte + Byte = 2 * Byte /\ 2 * Byte + Byte = 3 * Byte
      /\ 3 * Byte + Byte = W /\ 1 * Byte = Byte /\ 0 * Byte = 0
      /\ Byte \in 0 .. W /\ 2 * Byte \in 0 .. W /\ 3 * Byte \in 0 .. W
  BY PartsOfWord
<1>2. /\ Power[Byte] = Pow2[Byte] /\ Power[2 * Byte] = Pow2[2 * Byte]
      /\ Power[3 * Byte] = Pow2[3 * Byte]
      /\ Power[Byte] \in Nat /\ Power[2 * Byte] \in Nat /\ Power[3 * Byte] \in Nat
  BY <1>1, WidthType
<1>3. NumberOf(T, 2 * Byte) = NumberOf(T, Byte) + Power[Byte] * n(1)
  <2>1. NumberOf(T, Byte + Byte) = NumberOf(T, Byte) + Pow2[Byte] * NumberOf(Drop(T, Byte), Byte)
    BY <1>1, NumberSplit
  <2> QED
    BY <1>1, <1>2, <2>1
<1>4. NumberOf(T, 3 * Byte) = NumberOf(T, 2 * Byte) + Power[2 * Byte] * n(2)
  <2>1. NumberOf(T, 2 * Byte + Byte) =
          NumberOf(T, 2 * Byte) + Pow2[2 * Byte] * NumberOf(Drop(T, 2 * Byte), Byte)
    BY <1>1, NumberSplit
  <2> QED
    BY <1>1, <1>2, <2>1
<1>5. NumberOf(T, W) = NumberOf(T, 3 * Byte) + Power[3 * Byte] * n(3)
  <2>1. NumberOf(T, 3 * Byte + Byte) =
          NumberOf(T, 3 * Byte) + Pow2[3 * Byte] * NumberOf(Drop(T, 3 * Byte), Byte)
    BY <1>1, NumberSplit
  <2> QED
    BY <1>1, <1>2, <2>1
<1>6. n(0) = NumberOf(T, Byte)
  <2>1. \A i \in 0 .. Byte - 1 : i \in Drop(T, 0) <=> i \in T
    BY <1>1 DEF Drop
  <2> QED
    BY <1>1, <2>1, NumberAgrees
<1>7. \A k \in 0 .. 3 : n(k) \in Nat
  BY <1>1, NumberNext
<1> HIDE DEF n
<1> DEFINE p == n(1) * Power[Byte]
           q == n(2) * Power[2 * Byte]
           r == n(3) * Power[3 * Byte]
<1>8. /\ p = Power[Byte] * n(1) /\ q = Power[2 * Byte] * n(2)
      /\ r = Power[3 * Byte] * n(3) /\ p \in Int /\ q \in Int /\ r \in Int
  BY <1>2, <1>7
<1> HIDE DEF p, q, r
<1>9. NumberOf(T, W) = n(0) + p + q + r
  BY <1>3, <1>4, <1>5, <1>6, <1>7, <1>8
<1> QED
  BY <1>9 DEF p, q, r, n

\* A byte of a word is the number of its places.
LEMMA ByteOfIs ==
  ASSUME NEW x \in Word, NEW k \in 0 .. 3
  PROVE  ByteOf(x, k) = NumberOf(Drop(SetBits(x), k * Byte), Byte)
<1> DEFINE S == SetBits(x)
           m == k * Byte
           n == W - m
<1>1. /\ m \in 0 .. W /\ n \in Nat /\ Byte \in 0 .. n /\ W \in Nat /\ Byte \in 0 .. W
  <2>1. Byte \in Nat /\ W = 4 * Byte
    BY PartsOfWord
  <2>2. k = 0 \/ k = 1 \/ k = 2 \/ k = 3
    OBVIOUS
  <2> QED
    BY <2>1, <2>2
<1>2. Power[m] = Pow2[m] /\ Power[Byte] = Pow2[Byte]
  BY <1>1, WidthType
<1>3. x = NumberOf(S, W)
  BY BitsOfWord
<1> HIDE DEF S, m, n
<1>4. x \div Power[m] = NumberOf(Drop(S, m), n)
  <2>1. NumberOf(S, W) \div Pow2[m] = NumberOf(Drop(S, m), W - m)
    BY <1>1, NumberDivMod
  <2> QED
    BY <1>2, <1>3, <2>1 DEF n
<1>5. NumberOf(Drop(S, m), n) % Pow2[Byte] = NumberOf(Drop(S, m), Byte)
  BY <1>1, NumberDivMod
<1> QED
  BY <1>2, <1>4, <1>5 DEF ByteOf, Field, S, m

\* The bytes of a word the other way around.
LEMMA Rev8Is ==
  ASSUME NEW x \in Word
  PROVE  /\ Rev8(x) \in Word
         /\ SetBits(Rev8(x)) = {i \in Positions : Mirrored(i) \in SetBits(x)}
<1> DEFINE S == SetBits(x)
           T == {i \in Positions : Mirrored(i) \in S}
<1>1. ASSUME NEW k \in 0 .. 3
      PROVE  NumberOf(Drop(T, k * Byte), Byte) = ByteOf(x, 3 - k)
  <2>1. 3 - k \in 0 .. 3 /\ Byte \in Nat
    BY PartsOfWord
  <2>2. ByteOf(x, 3 - k) = NumberOf(Drop(S, (3 - k) * Byte), Byte)
    BY <2>1, ByteOfIs
  <2>3. ASSUME NEW j \in 0 .. Byte - 1
        PROVE  j \in Drop(T, k * Byte) <=> j \in Drop(S, (3 - k) * Byte)
    <3>1. j \in Nat /\ j + k * Byte \in Positions
          /\ Mirrored(j + k * Byte) = j + (3 - k) * Byte
      <4>1. /\ j \in Nat /\ j + k * Byte \in Positions
            /\ (j + k * Byte) \div Byte = k /\ (j + k * Byte) % Byte = j
            /\ W - Byte * (1 + k) + j = j + (3 - k) * Byte
        BY PlaceInByte
      <4>2. Mirrored(j + k * Byte) = W - Byte * (1 + k) + j
        BY <4>1 DEF Mirrored
      <4> QED
        BY <4>1, <4>2
    <3>2. j \in Drop(T, k * Byte) <=> j + k * Byte \in T
      BY <3>1 DEF Drop
    <3>3. j \in Drop(S, (3 - k) * Byte) <=> j + (3 - k) * Byte \in S
      BY <3>1 DEF Drop
    <3> QED
      BY <3>1, <3>2, <3>3
  <2> HIDE DEF S, T
  <2>4. NumberOf(Drop(T, k * Byte), Byte) = NumberOf(Drop(S, (3 - k) * Byte), Byte)
    <3> DEFINE u == Drop(T, k * Byte)
               v == Drop(S, (3 - k) * Byte)
    <3>1. \A j \in 0 .. Byte - 1 : j \in u <=> j \in v
      BY <2>3
    <3> HIDE DEF u, v
    <3>2. NumberOf(u, Byte) = NumberOf(v, Byte)
      BY <2>1, <3>1, NumberAgrees
    <3> QED
      BY <3>2 DEF u, v
  <2> QED
    BY <2>2, <2>4
<1> HIDE DEF T
<1>2. Rev8(x) = NumberOf(T, W)
  <2>1. Rev8(x) = ByteOf(x, 3 - 0) + ByteOf(x, 3 - 1) * Power[Byte]
                  + ByteOf(x, 3 - 2) * Power[2 * Byte] + ByteOf(x, 3 - 3) * Power[3 * Byte]
    BY DEF Rev8, OfBytes
  <2>2. /\ NumberOf(Drop(T, 0 * Byte), Byte) = ByteOf(x, 3 - 0)
        /\ NumberOf(Drop(T, 1 * Byte), Byte) = ByteOf(x, 3 - 1)
        /\ NumberOf(Drop(T, 2 * Byte), Byte) = ByteOf(x, 3 - 2)
        /\ NumberOf(Drop(T, 3 * Byte), Byte) = ByteOf(x, 3 - 3)
    <3>1. 0 \in 0 .. 3 /\ 1 \in 0 .. 3 /\ 2 \in 0 .. 3 /\ 3 \in 0 .. 3
      OBVIOUS
    <3> QED
      BY <1>1, <3>1, Zenon
  <2> QED
    BY <2>1, <2>2, NumberOfBytes, Zenon
<1>3. OfBits(T) \in Word /\ SetBits(OfBits(T)) = T \cap Positions
  BY WordOfBits
<1>4. OfBits(T) = Rev8(x)
  BY <1>2 DEF OfBits
<1>5. T \cap Positions = T
  BY DEF T
<1> QED
  BY <1>3, <1>4, <1>5 DEF T

\* Every bit of a byte that has one.
LEMMA OrcbIs ==
  ASSUME NEW x \in Word
  PROVE  /\ Orcb(x) \in Word
         /\ SetBits(Orcb(x)) = {i \in Positions : \E j \in SetBits(x) :
                                  j \div Byte = i \div Byte}
<1> DEFINE S == SetBits(x)
           T == {i \in Positions : \E j \in S : j \div Byte = i \div Byte}
           all(k) == IF ByteOf(x, k) = 0 THEN 0 ELSE Power[Byte] - 1
<1>0. Byte \in Nat /\ Byte \in 0 .. W /\ S \subseteq Positions
      /\ Power[Byte] = Pow2[Byte]
  BY PartsOfWord, BitsOfWord, WidthType
<1>1. ASSUME NEW k \in 0 .. 3
      PROVE  NumberOf(Drop(T, k * Byte), Byte) = all(k)
  <2> DEFINE u == Drop(S, k * Byte)
             v == Drop(T, k * Byte)
  <2>1. ByteOf(x, k) = NumberOf(u, Byte)
    BY ByteOfIs
  <2>2. ASSUME NEW i \in 0 .. Byte - 1
        PROVE  i \in v <=> \E j \in 0 .. Byte - 1 : j \in u
    <3>1. i \in Nat /\ i + k * Byte \in Positions /\ (i + k * Byte) \div Byte = k
      BY PlaceInByte
    <3>2. i \in v <=> \E j \in S : j \div Byte = k
      BY <3>1 DEF Drop
    <3>3. ASSUME NEW j \in S, j \div Byte = k
          PROVE  j % Byte \in 0 .. Byte - 1 /\ j % Byte \in u
      <4>1. j % Byte \in 0 .. Byte - 1 /\ j = (j % Byte) + k * Byte
        BY <1>0, <3>3, PlacesInBytes
      <4>2. j % Byte \in Nat
        BY <1>0, <4>1
      <4> QED
        BY <3>3, <4>1, <4>2 DEF Drop
    <3>4. ASSUME NEW j \in 0 .. Byte - 1, j \in u
          PROVE  j + k * Byte \in S /\ (j + k * Byte) \div Byte = k
      BY <3>4, PlaceInByte DEF Drop
    <3> HIDE DEF S, u, v
    <3> QED
      BY <3>2, <3>3, <3>4
  <2> HIDE DEF u, v, S, T
  <2>3. CASE \E j \in 0 .. Byte - 1 : j \in u
    <3>1. NumberOf(v, Byte) = Pow2[Byte] - 1
      BY <1>0, <2>2, <2>3, NumberFull
    <3>2. NumberOf(u, Byte) # 0
      <4>1. PICK j \in 0 .. Byte - 1 : j \in u
        BY <2>3
      <4>2. (NumberOf(u, Byte) \div Pow2[j]) % 2 = 1
        BY <1>0, <4>1, NumberBit
      <4>3. Pow2[j] \in Nat \ {0}
        BY <1>0, Pow2Next
      <4> DEFINE d == Pow2[j]
      <4> HIDE DEF d
      <4>4. d \in Nat \ {0} => 0 \div d = 0
        OBVIOUS
      <4>5. 0 % 2 # 1
        OBVIOUS
      <4> QED
        BY <4>2, <4>3, <4>4, <4>5 DEF d
    <3> QED
      BY <1>0, <2>1, <3>1, <3>2 DEF v
  <2>4. CASE ~\E j \in 0 .. Byte - 1 : j \in u
    <3>1. NumberOf(v, Byte) = 0 /\ NumberOf(u, Byte) = 0
      BY <1>0, <2>2, <2>4, NumberNone
    <3> QED
      BY <2>1, <3>1 DEF v
  <2> QED
    BY <2>3, <2>4
<1>2. Orcb(x) = all(0) + all(1) * Power[Byte]
                + all(2) * Power[2 * Byte] + all(3) * Power[3 * Byte]
  BY DEF Orcb, OfBytes
<1> HIDE DEF T, all
<1>3. Orcb(x) = NumberOf(T, W)
  <2>1. /\ NumberOf(Drop(T, 0 * Byte), Byte) = all(0)
        /\ NumberOf(Drop(T, 1 * Byte), Byte) = all(1)
        /\ NumberOf(Drop(T, 2 * Byte), Byte) = all(2)
        /\ NumberOf(Drop(T, 3 * Byte), Byte) = all(3)
    <3>1. 0 \in 0 .. 3 /\ 1 \in 0 .. 3 /\ 2 \in 0 .. 3 /\ 3 \in 0 .. 3
      OBVIOUS
    <3> QED
      BY <1>1, <3>1, Zenon
  <2> QED
    BY <1>2, <2>1, NumberOfBytes, Zenon
<1>4. OfBits(T) \in Word /\ SetBits(OfBits(T)) = T \cap Positions
  BY WordOfBits
<1>5. OfBits(T) = Orcb(x)
  BY <1>3 DEF OfBits
<1>6. T \cap Positions = T
  BY DEF T
<1> QED
  BY <1>4, <1>5, <1>6 DEF T

\* Two lower parts side by side.
LEMMA PacksAre ==
  ASSUME NEW x \in Word, NEW y \in Word
  PROVE  /\ Packh(x, y) % Power[Byte] = x % Power[Byte]
         /\ Packh(x, y) \div Power[Byte] = y % Power[Byte]
         /\ Pack(x, y) % Power[Half] = x % Power[Half]
         /\ Pack(x, y) \div Power[Half] = y % Power[Half]
         /\ Pack(x, 0) = x % Power[Half]
<1>1. Byte \in 0 .. W /\ Half \in 0 .. W /\ W - Half = Half /\ 0 \in Word
  <2>1. 0 \in Word
    BY SmallInWord
  <2> QED
    BY <2>1, PartsOfWord
<1>2. ASSUME NEW n \in 0 .. W
      PROVE  LET z == Field(x, n) + Field(y, n) * Power[n]
             IN z % Power[n] = x % Power[n] /\ z \div Power[n] = y % Power[n]
  <2> DEFINE d == Power[n]
             f == Field(x, n)
             g == Field(y, n)
  <2>1. d \in Nat \ {0} /\ f \in Nat /\ f < d /\ g \in Nat
    BY WordParts
  <2>2. f = x % d /\ g = y % d
    BY DEF Field
  <2> HIDE DEF d, f, g
  <2>3. (f + d * g) \div d = g /\ (f + d * g) % d = f
    BY <2>1, DivMod
  <2>4. f + g * d = f + d * g
    BY <2>1
  <2> QED
    BY <2>2, <2>3, <2>4 DEF d, f, g
<1>3. Packh(x, y) = Field(x, Byte) + Field(y, Byte) * Power[Byte]
  BY DEF Packh
<1>4. ASSUME NEW z \in Word
      PROVE  Pack(x, z) = Field(x, Half) + Field(z, Half) * Power[Half]
  BY <1>1, SllKeeps DEF Pack
<1>5. Pack(x, 0) = Field(x, Half)
  <2>1. Field(0, Half) = 0
    <3>1. Power[Half] \in Nat \ {0}
      BY <1>1, WidthType
    <3> DEFINE d == Power[Half]
    <3> HIDE DEF d
    <3>2. d \in Nat \ {0} => 0 % d = 0
      OBVIOUS
    <3> QED
      BY <3>1, <3>2 DEF Field, d
  <2>2. Power[Half] \in Int /\ Field(x, Half) \in Int
    BY <1>1, WordParts
  <2> QED
    BY <1>1, <1>4, <2>1, <2>2
<1> QED
  BY <1>1, <1>2, <1>3, <1>4, <1>5 DEF Field

\* The program of the operations on bytes.
LEMMA BytesCode ==
  ASSUME Programs = LawPrograms, program = "bytes"
  PROVE  /\ Len(Code) = 6 /\ Straight(Code)
         /\ Code[1] = Op("rev8", 3, 1, 0) /\ Code[2] = Op("rev8", 4, 3, 0)
         /\ Code[3] = Op("orcb", 5, 1, 0) /\ Code[4] = Op("packh", 6, 1, 2)
         /\ Code[5] = Op("pack", 7, 1, 2) /\ Code[6] = Op("pack", 8, 1, 0)
         /\ {"rev8", "orcb", "packh", "pack"} \subseteq Computed
<1>1. /\ Len(Code) = 6
      /\ Code[1] = Op("rev8", 3, 1, 0) /\ Code[2] = Op("rev8", 4, 3, 0)
      /\ Code[3] = Op("orcb", 5, 1, 0) /\ Code[4] = Op("packh", 6, 1, 2)
      /\ Code[5] = Op("pack", 7, 1, 2) /\ Code[6] = Op("pack", 8, 1, 0)
  BY DEF Code, LawPrograms
<1>2. /\ {"rev8", "orcb", "packh", "pack"} \subseteq Computed
  BY DEF Computed, IntegerOps, BitManipOps
<1>3. /\ Code[1].op = "rev8" /\ Code[2].op = "rev8" /\ Code[3].op = "orcb"
      /\ Code[4].op = "packh" /\ Code[5].op = "pack" /\ Code[6].op = "pack"
      /\ Code[1].rd = 3 /\ Code[2].rd = 4 /\ Code[3].rd = 5
      /\ Code[4].rd = 6 /\ Code[5].rd = 7 /\ Code[6].rd = 8
  BY <1>1, OpParts
<1>4. Straight(Code)
  BY <1>1, <1>2, <1>3 DEF Straight, StraightOps, Registers
<1> QED
  BY <1>1, <1>2, <1>4

\* What it leaves in its registers.
LEMMA BytesDone ==
  ASSUME Programs = LawPrograms, StraightInv, Finished("bytes")
  PROVE  /\ A \in Word /\ B \in Word
         /\ gpr[3] = Rev8(A) /\ gpr[4] = Rev8(gpr[3]) /\ gpr[5] = Orcb(A)
         /\ gpr[6] = Packh(A, B) /\ gpr[7] = Pack(A, B) /\ gpr[8] = Pack(A, 0)
<1>1. Len(Code) = 6 /\ Straight(Code) /\ Ended
  BY BytesCode DEF Finished
<1>2. Kept /\ \E h : Run(h, 6)
  BY <1>1, Ran
<1>3. PICK h : Run(h, 6)
  BY <1>2
<1>4. \A i \in 0 .. 6 : h[i][1] = A /\ h[i][2] = B /\ h[i][0] = 0
  BY <1>3 DEF Run, A, B
<1>5. /\ h[1][3] = Rev8(h[0][1])
      /\ h[2][4] = Rev8(h[1][3])
      /\ h[3][5] = Orcb(h[2][1])
      /\ h[4][6] = Packh(h[3][1], h[3][2])
      /\ h[5][7] = Pack(h[4][1], h[4][2])
      /\ h[6][8] = Pack(h[5][1], h[5][0])
  BY <1>3, BytesCode, OpDone, BitManipResults DEF Finished
<1>6. /\ \A r \in Registers \ {4} : h[2][r] = h[1][r]
      /\ \A r \in Registers \ {5} : h[3][r] = h[2][r]
      /\ \A r \in Registers \ {6} : h[4][r] = h[3][r]
      /\ \A r \in Registers \ {7} : h[5][r] = h[4][r]
      /\ \A r \in Registers \ {8} : h[6][r] = h[5][r]
  <2>1. /\ 6 \in Nat /\ 1 \in 0 .. 6 - 1 /\ 2 \in 0 .. 6 - 1 /\ 3 \in 0 .. 6 - 1
        /\ 4 \in 0 .. 6 - 1 /\ 5 \in 0 .. 6 - 1
    OBVIOUS
  <2>2. /\ Code[1 + 1] = Op("rev8", 4, 3, 0) /\ Code[2 + 1] = Op("orcb", 5, 1, 0)
        /\ Code[3 + 1] = Op("packh", 6, 1, 2) /\ Code[4 + 1] = Op("pack", 7, 1, 2)
        /\ Code[5 + 1] = Op("pack", 8, 1, 0)
    BY BytesCode DEF Finished
  <2>3. \A r \in Registers \ {4} : h[1 + 1][r] = h[1][r]
    BY <1>3, <2>1, <2>2, OpFrame
  <2>4. \A r \in Registers \ {5} : h[2 + 1][r] = h[2][r]
    BY <1>3, <2>1, <2>2, OpFrame
  <2>5. \A r \in Registers \ {6} : h[3 + 1][r] = h[3][r]
    BY <1>3, <2>1, <2>2, OpFrame
  <2>6. \A r \in Registers \ {7} : h[4 + 1][r] = h[4][r]
    BY <1>3, <2>1, <2>2, OpFrame
  <2>7. \A r \in Registers \ {8} : h[5 + 1][r] = h[5][r]
    BY <1>3, <2>1, <2>2, OpFrame
  <2> QED
    BY <2>3, <2>4, <2>5, <2>6, <2>7
<1>7. A \in Word /\ B \in Word /\ {3, 4, 5, 6, 7, 8} \subseteq Registers
      /\ gpr = h[6]
  BY <1>2, <1>3 DEF Kept, Registers, A, B, Run
<1>8. /\ h[6][3] = h[1][3] /\ h[6][4] = h[2][4] /\ h[6][5] = h[3][5]
      /\ h[6][6] = h[4][6] /\ h[6][7] = h[5][7]
  BY <1>6, <1>7
<1> QED
  BY <1>4, <1>5, <1>7, <1>8

\* rev8 turns the bytes around, orcb fills the bytes that are not zero, and
\* the packs put two lower parts together.
LEMMA BytesHold ==
  ASSUME Programs = LawPrograms, StraightInv, Finished("bytes")
  PROVE  /\ gpr[4] = A /\ \A i \in Positions :
              /\ Bit(gpr[3], i) =
                   Bit(A, W - Byte * (1 + i \div Byte) + (i % Byte))
              /\ Bit(gpr[5], i) = Truth(\E j \in Positions :
                   j \div Byte = i \div Byte /\ Bit(A, j) = 1)
         /\ gpr[6] % Power[Byte] = A % Power[Byte] /\ gpr[6] \div Power[Byte] = B % Power[Byte]
         /\ gpr[7] % Power[Half] = A % Power[Half] /\ gpr[7] \div Power[Half] = B % Power[Half]
         /\ gpr[8] = A % Power[Half]
<1> DEFINE x == A
           y == B
           S == SetBits(x)
<1>1. /\ x \in Word /\ y \in Word
      /\ gpr[3] = Rev8(x) /\ gpr[4] = Rev8(gpr[3]) /\ gpr[5] = Orcb(x)
      /\ gpr[6] = Packh(x, y) /\ gpr[7] = Pack(x, y) /\ gpr[8] = Pack(x, 0)
  BY BytesDone
<1> HIDE DEF x, y
<1>2. /\ Rev8(x) \in Word /\ SetBits(Rev8(x)) = {i \in Positions : Mirrored(i) \in S}
      /\ Orcb(x) \in Word
      /\ SetBits(Orcb(x)) = {i \in Positions : \E j \in S : j \div Byte = i \div Byte}
  BY <1>1, Rev8Is, OrcbIs
<1>3. gpr[4] = x
  <2> DEFINE z == Rev8(x)
  <2>1. Rev8(z) \in Word /\ SetBits(Rev8(z)) = {i \in Positions : Mirrored(i) \in SetBits(z)}
    BY <1>2, Rev8Is
  <2>2. S \subseteq Positions
    BY <1>1, BitsOfWord
  <2>3. ASSUME NEW i \in Positions
        PROVE  i \in SetBits(Rev8(z)) <=> i \in S
    <3>1. Mirrored(i) \in Positions /\ Mirrored(Mirrored(i)) = i
      BY MirroredIs
    <3> HIDE DEF S, z
    <3>2. i \in SetBits(Rev8(z)) <=> Mirrored(i) \in SetBits(z)
      BY <2>1
    <3>3. Mirrored(i) \in SetBits(z) <=> Mirrored(Mirrored(i)) \in S
      BY <1>2, <3>1 DEF z
    <3> QED
      BY <3>1, <3>2, <3>3
  <2>4. SetBits(Rev8(z)) = S
    <3> HIDE DEF S, z
    <3>1. SetBits(Rev8(z)) \subseteq Positions
      BY <2>1
    <3> QED
      BY <2>2, <2>3, <3>1
  <2>5. Rev8(z) = x
    BY <1>1, <2>1, <2>4, SameBits
  <2> QED
    BY <1>1, <2>5
<1>4. ASSUME NEW i \in Positions
      PROVE  Bit(gpr[3], i) = Bit(x, Mirrored(i))
  <2>1. Mirrored(i) \in Positions
    BY MirroredIs
  <2>2. i \in SetBits(Rev8(x)) <=> Mirrored(i) \in S
    BY <1>2
  <2>3. /\ Bit(Rev8(x), i) \in {0, 1} /\ Bit(x, Mirrored(i)) \in {0, 1}
        /\ i \in SetBits(Rev8(x)) <=> Bit(Rev8(x), i) = 1
        /\ Mirrored(i) \in S <=> Bit(x, Mirrored(i)) = 1
    <3>1. Bit(Rev8(x), i) \in {0, 1} /\ (i \in SetBits(Rev8(x)) <=> Bit(Rev8(x), i) = 1)
      BY <1>2, BitsOfWord
    <3>2. Bit(x, Mirrored(i)) \in {0, 1} /\ (Mirrored(i) \in S <=> Bit(x, Mirrored(i)) = 1)
      BY <1>1, <2>1, BitsOfWord
    <3> QED
      BY <3>1, <3>2
  <2> QED
    BY <1>1, <2>2, <2>3
<1>5. ASSUME NEW i \in Positions
      PROVE  Bit(gpr[5], i) = Truth(\E j \in Positions :
               j \div Byte = i \div Byte /\ Bit(x, j) = 1)
  <2>1. i \in SetBits(Orcb(x)) <=> \E j \in S : j \div Byte = i \div Byte
    BY <1>2
  <2>2. S \subseteq Positions /\ \A j \in Positions : j \in S <=> Bit(x, j) = 1
    BY <1>1, BitsOfWord
  <2>3. Bit(Orcb(x), i) \in {0, 1} /\ (i \in SetBits(Orcb(x)) <=> Bit(Orcb(x), i) = 1)
    BY <1>2, BitsOfWord
  <2> DEFINE some == \E j \in Positions : j \div Byte = i \div Byte /\ Bit(x, j) = 1
  <2>4. some <=> \E j \in S : j \div Byte = i \div Byte
    BY <2>2
  <2> HIDE DEF some
  <2>5. Bit(Orcb(x), i) = Truth(some)
    BY <2>1, <2>3, <2>4 DEF Truth
  <2> QED
    BY <1>1, <2>5 DEF some
<1>6. /\ gpr[6] % Power[Byte] = x % Power[Byte]
      /\ gpr[6] \div Power[Byte] = y % Power[Byte]
      /\ gpr[7] % Power[Half] = x % Power[Half]
      /\ gpr[7] \div Power[Half] = y % Power[Half]
      /\ gpr[8] = x % Power[Half]
  BY <1>1, PacksAre
<1> QED
  BY <1>3, <1>4, <1>5, <1>6 DEF x, y, Mirrored

-----------------------------------------------------------------------------
(* The laws.                                                               *)

\* The laws of counts, extensions and bytes.
LEMMA CountLawHolds ==
  ASSUME Programs = LawPrograms, StraightInv, CountInv
  PROVE  CountLaw
BY ZerosHold, CountHolds, ExtendHolds, BytesHold DEF CountLaw

\* The places of all programs.
ProgramsInv ==
  /\ StraightInv /\ BranchesInv /\ MultiplyInv /\ CallInv /\ CountInv

\* Without a step nothing changes.
LEMMA ProgramsRest ==
  ASSUME ProgramsInv, UNCHANGED vars
  PROVE  ProgramsInv'
<1>1. /\ program' = program /\ pc' = pc /\ gpr' = gpr /\ fcsr_nv' = fcsr_nv
  BY DEF vars
<1>2. Kept' <=> Kept
  BY <1>1 DEF Kept
<1>3. StraightInv'
  BY <1>1, <1>2 DEF ProgramsInv, StraightInv, Straight, Code, Run
<1>4. BranchesInv'
  BY <1>1, <1>2 DEF ProgramsInv, BranchesInv, Missed, A, B
<1>5. MultiplyInv'
  BY <1>1, <1>2 DEF ProgramsInv, MultiplyInv, Adds, A, B
<1>6. CallInv'
  BY <1>1, <1>2 DEF ProgramsInv, CallInv, Sum, A, B
<1>7. CountInv'
  BY <1>1, <1>2 DEF ProgramsInv, CountInv, Counted, A, B
<1> QED
  BY <1>3, <1>4, <1>5, <1>6, <1>7 DEF ProgramsInv

\* The programs of the laws keep their invariants.
LEMMA ProgramsKeep ==
  ASSUME Programs = LawPrograms
  PROVE  Spec => []ProgramsInv
<1>1. Init => ProgramsInv
  BY InitRun, InitBranches, InitMultiply, InitCall, InitCount DEF ProgramsInv
<1>2. ProgramsInv /\ [Next]_vars => ProgramsInv'
  <2>1. ASSUME ProgramsInv, Next
        PROVE  ProgramsInv'
    BY <2>1, NextRun, NextBranches, NextMultiply, NextCall,
       NextCount DEF ProgramsInv
  <2> QED
    BY <2>1, ProgramsRest
<1> QED
  BY <1>1, <1>2, PTL DEF Spec

\* At the ends of their programs, divisions, products, minima, branches and
\* comparisons have computed what their names mean of numbers
\* (exec.cpp:2070-2860), for every width and every two operands, a division by
\* zero and the one that overflows included.
THEOREM ArithmeticIsRight ==
  ASSUME Programs = LawPrograms
  PROVE  Spec => []ArithmeticLaws
<1>1. ProgramsInv => ArithmeticLaws
  BY DivisionHolds, ProductsHold, OrderHolds DEF ProgramsInv, ArithmeticLaws
<1> QED
  BY <1>1, ProgramsKeep, PTL

\* The bit manipulations obey the laws of the operations they are named for
\* (exec.cpp:2626-2830), for every width and every two operands, whatever C++
\* makes of the shift by a whole word.
THEOREM BitsAreRight ==
  ASSUME Programs = LawPrograms
  PROVE  Spec => []BitLaws
<1>1. ProgramsInv => BitLaws
  BY BitHolds, CarrylessHolds, CountLawHolds DEF ProgramsInv, BitLaws
<1> QED
  BY <1>1, ProgramsKeep, PTL

\* A procedure runs as often as it is called and returns behind each call,
\* what is written to x0 is dropped, and an encoding nothing is listed for
\* changes no register (exec.cpp:2384-2391).
THEOREM CallsReturn ==
  ASSUME Programs = LawPrograms
  PROVE  Spec => []CallLaw
<1>1. ProgramsInv => CallLaw
  BY CallHolds DEF ProgramsInv
<1> QED
  BY <1>1, ProgramsKeep, PTL

\* The floating-point minima, comparisons, classes and sign injections agree
\* on one order of the floats, with -0 before 0 and the NaNs outside it, and
\* raise the invalid flag for the NaNs they must (exec.cpp:358-437), for every
\* layout of a float and every two operands.
THEOREM FloatsAreOrdered ==
  ASSUME Programs = LawPrograms
  PROVE  Spec => []FloatLaw
<1>1. ProgramsInv => FloatLaw
  BY FloatHolds DEF ProgramsInv
<1> QED
  BY <1>1, ProgramsKeep, PTL
=============================================================================
