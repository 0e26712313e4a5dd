------------------------------- MODULE Words --------------------------------
(***************************************************************************)
(* Machine words and what the integer, bit manipulation and floating point *)
(* instructions compute of them.                                           *)
(*                                                                         *)
(* A word has W bits, 32 in the code.  A byte, a half and a shift amount   *)
(* are a quarter, a half and the logarithm of a word, and a float has      *)
(* ExpBits bits of exponent under its sign, 8 in the code.                 *)
(***************************************************************************)
EXTENDS Numerals, FiniteSets, FiniteSetsExt

CONSTANTS W, ExpBits

ASSUME WordsAssumption ==
  /\ W \in {8, 16, 32} /\ ExpBits \in 2 .. W - 3

\* The powers of 2 that count bits and bytes of a word.
Power == [n \in 0 .. W |-> Pow2[n]]

Word == 0 .. Power[W] - 1
Ones == Power[W] - 1
Byte == W \div 4
Half == W \div 2
Positions == 0 .. W - 1

Wrap(n)    == n % Power[W]
Signed(x)  == IF x >= Power[W - 1] THEN x - Power[W] ELSE x
Bit(x, i)  == (x \div Power[i]) % 2
Truth(b)   == IF b THEN 1 ELSE 0
Flip(x)    == Ones - x
Field(x, n) == x % Power[n]

\* The bits of a word as the set of their places.
SetBits(x) == {i \in Positions : Bit(x, i) = 1}
OfBits(S)  == NumberOf(S, W)
And(x, y)  == OfBits(SetBits(x) \cap SetBits(y))
Or(x, y)   == OfBits(SetBits(x) \cup SetBits(y))
Xor(x, y)  == OfBits({i \in Positions : Bit(x, i) # Bit(y, i)})

-----------------------------------------------------------------------------
(* Shifts and rotations, by the low bits of the second operand.            *)

Amount(y) == y % W

Sll(x, n) == Wrap(x * Power[n])
Srl(x, n) == x \div Power[n]
Sra(x, n) == Wrap(Signed(x) \div Power[n])

\* A rotation by nothing shifts by the width of a word, which C++ leaves
\* undefined: the machine shifts by nothing or everything out.
Beyond(x) == {0, x}
Rotated(x, n, opposite, beyond) == IF n = 0 THEN Or(x, beyond) ELSE opposite
Rol(x, n, beyond) == Rotated(x, n, Or(Sll(x, n), Srl(x, W - n)), beyond)
Ror(x, n, beyond) == Rotated(x, n, Or(Srl(x, n), Sll(x, W - n)), beyond)

-----------------------------------------------------------------------------
(* Multiplication and division.                                            *)

High(p) == Wrap(p \div Power[W])
Mulhsu(x, y) == High(Signed(x) * y)

Magnitude(n) == IF n < 0 THEN -n ELSE n

\* C++ divides towards zero.
Quotient(m, n) ==
  LET q == Magnitude(m) \div Magnitude(n)
  IN IF (m < 0) = (n < 0) THEN q ELSE -q

\* Mutant: the remainder has the sign of the divisor.
SignedRemFloored(m, n) ==
  IF n = 0 THEN m ELSE m - n * (IF n > 0 THEN m \div n ELSE (-m) \div (-n))
SignedDiv(m, n) == IF n = 0 THEN -1 ELSE Quotient(m, n)
SignedRem(m, n) == IF n = 0 THEN m ELSE m - n * Quotient(m, n)
UnsignedDiv(x, y) == IF y = 0 THEN Ones ELSE x \div y
UnsignedRem(x, y) == IF y = 0 THEN x ELSE x % y

-----------------------------------------------------------------------------
(* Carry-less products: the loops over the bits of the second operand.     *)

XorOver(shifted(_), bits) ==
  LET odd(j) == Cardinality({i \in bits : Bit(shifted(i), j) = 1}) % 2 = 1
  IN OfBits({j \in Positions : odd(j)})

Clmul(x, y)  == XorOver(LAMBDA i : Sll(x, i), SetBits(y))
Clmulh(x, y) == XorOver(LAMBDA i : Srl(x, W - i), SetBits(y) \ {0})
\* Mutant: one bit too far.
ClmulrOff(x, y) == XorOver(LAMBDA i : Srl(x, W - i), SetBits(y))
Clmulr(x, y) == XorOver(LAMBDA i : Srl(x, W - 1 - i), SetBits(y))

-----------------------------------------------------------------------------
(* Counts and bytes.                                                       *)

Clz(x)  == IF x = 0 THEN W ELSE W - 1 - Max(SetBits(x))
Ctz(x)  == IF x = 0 THEN W ELSE Min(SetBits(x))
Pcnt(x) == Cardinality(SetBits(x))

ByteOf(x, k) == Field(x \div Power[k * Byte], Byte)
OfBytes(b(_)) == b(0) + b(1) * Power[Byte] + b(2) * Power[2 * Byte]
                  + b(3) * Power[3 * Byte]

Rev8(x) == OfBytes(LAMBDA k : ByteOf(x, 3 - k))
Orcb(x) == OfBytes(LAMBDA k : IF ByteOf(x, k) = 0 THEN 0 ELSE Power[Byte] - 1)

Sext(x, n) ==
  IF Bit(x, n - 1) = 1 THEN Wrap(Field(x, n) - Power[n]) ELSE Field(x, n)

Pack(x, y)  == Field(x, Half) + Sll(y, Half)
Packh(x, y) == Field(x, Byte) + Field(y, Byte) * Power[Byte]

-----------------------------------------------------------------------------
(* Floats.  f32_lt and its like are softfloat's, here the order of signed  *)
(* magnitudes.                                                             *)

SignBit == Power[W - 1]
Mantissa == W - 1 - ExpBits
Infinity == (Power[ExpBits] - 1) * Power[Mantissa]
CanonicalNan == Infinity + Power[Mantissa - 1]

Sign(f) == Bit(f, W - 1)
Size(f) == f % SignBit

\* is_nan32, is_snan32
IsNan(f)  == Size(f) > Infinity
IsSnan(f) == IsNan(f) /\ Bit(f, Mantissa - 1) = 0

Value(f) == IF Sign(f) = 1 THEN -Size(f) ELSE Size(f)
F32Lt(f, g) == ~IsNan(f) /\ ~IsNan(g) /\ Value(f) < Value(g)
F32Le(f, g) == ~IsNan(f) /\ ~IsNan(g) /\ Value(f) <= Value(g)
F32Eq(f, g) == ~IsNan(f) /\ ~IsNan(g) /\ Value(f) = Value(g)

\* What f32_min_riscv and f32_max_riscv share: NaN against a number loses.
OfNumbers(f, g, number) ==
  CASE IsNan(f) /\ IsNan(g) -> CanonicalNan
    [] IsNan(f) /\ ~IsNan(g) -> g
    [] ~IsNan(f) /\ IsNan(g) -> f
    [] OTHER -> number

\* Of two numbers, the one that comes first or last, or what equal ones give.
Ordered(f, g, less, more, tie) ==
  OfNumbers(f, g, CASE F32Lt(f, g) -> less
                    [] F32Lt(g, f) -> more
                    [] OTHER -> tie)
\* Mutant: of two zeros the second one.
FminSecond(f, g) == Ordered(f, g, f, g, g)
Fmin(f, g) == Ordered(f, g, f, g, Or(f, g))
Fmax(f, g) == Ordered(f, g, g, f, And(f, g))

Fsgnj(f, g)  == Size(f) + SignBit * Sign(g)
Fsgnjn(f, g) == Size(f) + SignBit * (1 - Sign(g))
Fsgnjx(f, g) == Xor(f, SignBit * Sign(g))

\* f32_classify_riscv sets one bit, for which a short word may have no room;
\* this is its number.
Classify(f) ==
  LET exp == Size(f) \div Power[Mantissa]
      mant == Field(f, Mantissa)
      size == CASE exp = Power[ExpBits] - 1 -> 0
                [] exp = 0 /\ mant # 0 -> 2
                [] exp = 0 /\ mant = 0 -> 3
                [] OTHER -> 1
  IN CASE IsSnan(f) -> 8
       [] IsNan(f) /\ ~IsSnan(f) -> 9
       [] OTHER -> IF Sign(f) = 1 THEN size ELSE 7 - size

\* Whether the operation sets the invalid flag: comparisons with an order on
\* every NaN, the others on a signalling one.
Invalid(op, f, g) ==
  IF op \in {"flt", "fle"} THEN IsNan(f) \/ IsNan(g)
  ELSE op \in {"fmin", "fmax", "feq"} /\ (IsSnan(f) \/ IsSnan(g))
=============================================================================
