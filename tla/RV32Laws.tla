------------------------------ MODULE RV32Laws ------------------------------
(***************************************************************************)
(* Programs whose results are bound by a law of arithmetic, and the laws:  *)
(* each instruction is checked against others, or against what its name    *)
(* means, and never against a second copy of its own formula.              *)
(***************************************************************************)
EXTENDS RV32IM

Op(op, rd, r1, r2) == [op |-> op, rd |-> rd, r1 |-> r1, r2 |-> r2]
OpImm(op, rd, r1, imm) == [op |-> op, rd |-> rd, r1 |-> r1, imm |-> Wrap(imm)]
Br(op, r1, r2, offset) == [op |-> op, r1 |-> r1, r2 |-> r2, offset |-> offset]
Fp(op, rd, rm) == [op |-> op, rd |-> rd, r1 |-> 1, r2 |-> 2, rm |-> rm]

Branches == <<"beq", "bne", "blt", "bge", "bltu", "bgeu">>

\* A bit of register 3 for each branch that is taken.
BranchProgram ==
  LET of(k) == <<Br(Branches[k], 1, 2, 8), OpImm("add", 3, 3, Power[k - 1])>>
  IN of(1) \o of(2) \o of(3) \o of(4) \o of(5) \o of(6)

LawPrograms == [
  divide |-> <<Op("div", 3, 1, 2), Op("rem", 4, 1, 2), Op("mul", 5, 3, 2),
               Op("add", 5, 5, 4),
               Op("divu", 6, 1, 2), Op("remu", 7, 1, 2), Op("mul", 8, 6, 2),
               Op("add", 8, 8, 7)>>,
  \* the product by shifts and additions, and by the instruction
  multiply |-> <<OpImm("add", 3, 1, 0), OpImm("add", 4, 2, 0),
                 Br("beq", 4, 0, 28),
                 OpImm("and", 6, 4, 1), Br("beq", 6, 0, 8),
                 Op("add", 5, 5, 3), OpImm("sll", 3, 3, 1),
                 OpImm("srl", 4, 4, 1), OpImm("jal", 0, 0, -24),
                 Op("mul", 6, 1, 2)>>,
  products |-> <<Op("mul", 3, 1, 2), Op("mulh", 4, 1, 2),
                 Op("mulhsu", 5, 1, 2), Op("mulhu", 6, 1, 2)>>,
  carryless |-> <<Op("clmul", 3, 1, 2), Op("clmulh", 4, 1, 2),
                  Op("clmulr", 5, 1, 2)>>,
  rotate |-> <<Op("rol", 3, 1, 2), Op("ror", 4, 3, 2), Op("sub", 5, 0, 2),
               Op("rol", 5, 1, 5), Op("ror", 6, 1, 2)>>,
  bits |-> <<Op("bset", 3, 1, 2), Op("bext", 4, 3, 2), Op("bclr", 5, 1, 2),
             Op("bext", 6, 5, 2), Op("binv", 7, 1, 2)>>,
  logic |-> <<Op("and", 3, 1, 2), Op("andn", 4, 1, 2), Op("or", 3, 3, 4),
              Op("xor", 4, 1, 2), Op("xnor", 5, 1, 2), Op("add", 4, 4, 5),
              Op("orn", 5, 1, 2), Op("andn", 6, 2, 1), Op("add", 5, 5, 6)>>,
  order |-> <<Op("min", 3, 1, 2), Op("max", 4, 1, 2), Op("minu", 5, 1, 2),
              Op("maxu", 6, 1, 2), Op("slt", 7, 4, 3), Op("sltu", 8, 6, 5)>>,
  branches |-> BranchProgram \o <<Op("slt", 4, 1, 2), Op("sltu", 5, 1, 2)>>,
  zeros |-> <<Op("clz", 3, 1, 0), Op("sll", 4, 1, 3), Op("ctz", 5, 1, 0),
              Op("srl", 6, 1, 5)>>,
  \* the bits by clearing the lowest one until there is none
  count |-> <<OpImm("add", 3, 1, 0), Br("beq", 3, 0, 20),
              OpImm("add", 4, 3, -1), Op("and", 3, 3, 4),
              OpImm("add", 5, 5, 1), OpImm("jal", 0, 0, -16),
              Op("pcnt", 6, 1, 0)>>,
  bytes |-> <<Op("rev8", 3, 1, 0), Op("rev8", 4, 3, 0), Op("orcb", 5, 1, 0),
              Op("packh", 6, 1, 2), Op("pack", 7, 1, 2), Op("pack", 8, 1, 0)>>,
  extend |-> <<Op("sext_b", 3, 1, 0), OpImm("sll", 4, 1, W - Byte),
               OpImm("sra", 4, 4, W - Byte), Op("sext_h", 5, 1, 0),
               OpImm("sll", 6, 1, W - Half), OpImm("sra", 6, 6, W - Half)>>,
  \* a procedure that adds, called twice: through a target with low bits in
  \* the register the link replaces, and by a jal
  call |-> <<OpImm("auipc", 5, 0, 0), OpImm("jalr", 5, 5, 19),
             OpImm("jal", 5, 0, 8), OpImm("jal", 0, 0, 24),
             Op("sh1add", 3, 1, 3), OpImm("auipc", 7, 0, 0),
             Op("add", 4, 4, 7), Op("fence", 0, 0, 0),
             OpImm("jalr", 0, 5, 0)>>,
  addresses |-> <<Op("sh1add", 3, 1, 2), Op("sh2add", 4, 1, 2),
                  Op("sh3add", 5, 1, 2), OpImm("lui", 0, 0, 4),
                  Op("unlisted", 9, 1, 2)>>,
  floats |-> <<Fp("fmin", 3, 0), Fp("fmax", 4, 0), Fp("fclass", 5, 0),
               Op("fclass", 9, 2, 0),
               Fp("fsgnj", 6, 0), Fp("fsgnjn", 7, 0), Fp("fsgnjx", 8, 0)>>,
  compares |-> <<Fp("feq", 5, 0), Fp("flt", 3, 0), Fp("fle", 4, 0)>>,
  rounding |-> <<Fp("fadd", 3, 7), Fp("feq", 4, 0), Fp("fmul", 5, 4)>> ]

-----------------------------------------------------------------------------
(* Properties.                                                             *)

Finished(name) == program = name /\ Ended
A == gpr[1]
B == gpr[2]

\* Quotient times divisor plus remainder is the dividend, with the remainder
\* smaller than the divisor and of the dividend's sign, also for the quotient
\* that does not fit; without a divisor all bits are set (exec.cpp:2692-2729).
DivisionLaw ==
  Finished("divide") =>
    /\ gpr[5] = A /\ gpr[8] = A
    /\ B # 0 =>
         /\ gpr[7] < B
         /\ Magnitude(Signed(gpr[4])) < Magnitude(Signed(B))
         /\ gpr[4] # 0 => (Signed(gpr[4]) < 0) = (Signed(A) < 0)
    /\ B = 0 => gpr[3] = Ones /\ gpr[6] = Ones

\* The two halves of a product are those of the product, with the signs each
\* instruction is for; the lower half is what shifts and additions give.
ProductLaw ==
  /\ Finished("multiply") => gpr[6] = gpr[5]
  /\ Finished("products") =>
       /\ Signed(gpr[4]) * Power[W] + gpr[3] = Signed(A) * Signed(B)
       /\ Signed(gpr[5]) * Power[W] + gpr[3] = Signed(A) * B
       /\ gpr[6] * Power[W] + gpr[3] = A * B

\* Bit i of the carry-less product is the parity of the pairs of bits whose
\* places add up to i, in each of the three windows the instructions show
\* (exec.cpp:2754-2791).
CarrylessLaw ==
  LET pairs(i) == {j \in SetBits(A) : i - j \in SetBits(B)}
      product  == [i \in 0 .. 2 * W - 1 |-> Cardinality(pairs(i)) % 2]
  IN Finished("carryless") =>
       \A i \in Positions :
         /\ Bit(gpr[3], i) = product[i]
         /\ Bit(gpr[4], i) = product[i + W]
         /\ Bit(gpr[5], i) = product[i + W - 1]

\* A rotation is undone by the opposite one, moves every bit by the amount,
\* and does so for the amount 0 whatever a shift by a whole word gives; a bit
\* that is set, cleared or inverted is the one that is extracted, and the
\* only one (exec.cpp:2626, :2746, :2818).
BitLaw ==
  /\ Finished("rotate") =>
       /\ gpr[4] = A /\ gpr[5] = gpr[6]
       /\ \A i \in Positions : Bit(gpr[3], (i + B) % W) = Bit(A, i)
  /\ Finished("bits") =>
       /\ gpr[4] = 1 /\ gpr[6] = 0
       /\ {gpr[3], gpr[5]} = {A, gpr[7]} /\ gpr[7] # A
  /\ Finished("logic") => gpr[3] = A /\ gpr[4] = Ones /\ gpr[5] = Ones

\* Minimum and maximum are the two operands in order; one of each pair of
\* branches is taken, the one the comparison into a register says.
OrderLaw ==
  /\ Finished("order") =>
       /\ {gpr[3], gpr[4]} = {A, B} /\ gpr[7] = 0
       /\ {gpr[5], gpr[6]} = {A, B} /\ gpr[8] = 0
  /\ Finished("branches") =>
       LET taken(k) == Bit(gpr[3], k - 1) = 0
       IN /\ \A k \in {1, 3, 5} : taken(k) # taken(k + 1)
          /\ taken(1) = (A = B)
          /\ taken(3) = (gpr[4] = 1)
          /\ taken(5) = (gpr[5] = 1)

\* Shifting by the number of leading or trailing zeros brings the first bit
\* that is set to the end and loses none; the bits are as many as a loop
\* counts; bytes turn around, fill, extend and pack.
CountLaw ==
  /\ Finished("zeros") =>
       IF A = 0 THEN gpr[3] = W /\ gpr[5] = W
       ELSE /\ Bit(gpr[4], W - 1) = 1 /\ Srl(gpr[4], gpr[3]) = A
            /\ Bit(gpr[6], 0) = 1 /\ Sll(gpr[6], gpr[5]) = A
  /\ Finished("count") => gpr[6] = gpr[5]
  /\ Finished("extend") => gpr[3] = gpr[4] /\ gpr[5] = gpr[6]
  /\ Finished("bytes") =>
       /\ gpr[4] = A /\ \A i \in Positions :
            /\ Bit(gpr[3], i) =
                 Bit(A, W - Byte * (1 + i \div Byte) + (i % Byte))
            /\ Bit(gpr[5], i) = Truth(\E j \in Positions :
                 j \div Byte = i \div Byte /\ Bit(A, j) = 1)
       /\ gpr[6] % Power[Byte] = A % Power[Byte] /\ gpr[6] \div Power[Byte] = B % Power[Byte]
       /\ gpr[7] % Power[Half] = A % Power[Half] /\ gpr[7] \div Power[Half] = B % Power[Half]
       /\ gpr[8] = A % Power[Half]

\* RV32IM's multiplications, divisions, comparisons and branches compute what
\* their names mean, at every edge: quotient and remainder make up the
\* dividend, halves make up the product, and minimum, maximum, branch and
\* comparison follow one order, signed or unsigned (exec.cpp:2070-2860).
ArithmeticLaws == DivisionLaw /\ ProductLaw /\ OrderLaw

\* RV32IM's bit manipulations lose no bit and mistake none: rotations, single
\* bits, carry-less products, counts, and moves of bytes obey the laws of the
\* operations they are named for, also for a shift by a whole word, which C++
\* leaves undefined (exec.cpp:2626-2830).
BitLaws == BitLaw /\ CarrylessLaw /\ CountLaw

\* A procedure that is called twice, once through the register that takes the
\* link, whose target has low bits, runs twice and returns each time behind the call; what is written
\* to x0, and an encoding nothing is listed for, leave the registers alone
\* (exec.cpp:2384-2391).
CallLaw ==
  /\ Finished("call") => gpr[3] = Wrap(2 * A + 2 * A) /\ gpr[4] = 20 + 20
  /\ Finished("addresses") =>
       /\ gpr[3] = Wrap(B + 2 * A) /\ gpr[4] = Wrap(B + 4 * A)
       /\ gpr[5] = Wrap(B + 8 * A) /\ gpr[9] = 0

\* The smaller and the greater of two numbers are the two, with -0 before 0;
\* a NaN loses against a number; an ordered comparison raises the invalid flag
\* on any NaN; the classes are in the order of the floats, and signs are
\* the only thing a sign injection moves (exec.cpp:358-437).
FloatLaw ==
  LET before(f, g) == Value(f) < Value(g) \/ (Size(f) = 0 /\ Size(g) = 0
                                              /\ Sign(f) >= Sign(g)) \/ f = g
  IN /\ Finished("floats") =>
          /\ ~IsNan(A) /\ ~IsNan(B) =>
               {gpr[3], gpr[4]} = {A, B} /\ before(gpr[3], gpr[4])
          /\ IsNan(A) # IsNan(B) =>
               gpr[3] = gpr[4] /\ gpr[3] \in {A, B} /\ ~IsNan(gpr[3])
          /\ IsNan(A) /\ IsNan(B) => gpr[3] = CanonicalNan
          /\ fcsr_nv = (IsSnan(A) \/ IsSnan(B))
          /\ F32Lt(A, B) => gpr[5] <= gpr[9]
          /\ (IsNan(A) <=> gpr[5] \in {8, 9})
          /\ (gpr[5] \in {3, 4} <=> Size(A) = 0)
          /\ Sign(gpr[6]) # Sign(gpr[7]) /\ Sign(gpr[6]) = Sign(B)
          /\ Fsgnjx(gpr[8], B) = A
     /\ Finished("compares") =>
          /\ gpr[3] + gpr[5] = gpr[4]
          /\ fcsr_nv = (IsNan(A) \/ IsNan(B))

\* Every program comes to its end, the ones with loops and calls too, unless
\* it is stuck on a rounding mode that does not exist (exec.cpp:2070).
ProgramsEnd == <>(Ended \/ illegal_exception)
=============================================================================
