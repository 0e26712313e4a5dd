------------------------------- MODULE RV32IM -------------------------------
(***************************************************************************)
(* The guest's own instructions: RV32IM(), without loads and stores, and   *)
(* the parts of RV32Zfinx() that are not softfloat's, executing programs   *)
(* whose results have to obey a law.                                       *)
(*                                                                         *)
(* An instruction is decoded: op is its name, rd and r1 are registers, and *)
(* the second operand is a register r2 or an immediate.  Names that are    *)
(* not an op stand for the encodings the switches do not list.  A program  *)
(* starts at 0, with its operands in registers 1 and 2, and ends when the  *)
(* pc leaves it.                                                           *)
(***************************************************************************)
EXTENDS Words, Sequences

CONSTANTS
  Programs,     (* name -> sequence of instructions                         *)
  Operands,     (* bound: the words in registers 1 and 2                    *)
  Frms          (* bound: the rounding modes in fcsr                        *)

\* A pc is a word; registers beyond these are not used by the programs.
Registers == 0 .. 9

ASSUME RV32IMAssumption ==
  /\ Operands \subseteq Word
  /\ \A n \in DOMAIN Programs : 4 * Len(Programs[n]) < Power[W - 1]

VARIABLES
  program,            (* which one runs                                     *)
  pc, gpr,
  is_br, br_taken,    (* what the last instruction was                      *)
  fcsr_frm, fcsr_nv,  (* rounding mode, and the invalid flag of fcsr        *)
  illegal_exception

vars == <<program, pc, gpr, is_br, br_taken, fcsr_frm, fcsr_nv,
          illegal_exception>>

\* Only arithmetic on floats looks at the rounding mode.
Rounds == {"fadd", "fsub", "fmul", "fdiv", "fsqrt", "fmadd", "fcvt"}
Computes(code) == \A k \in 1 .. Len(code) : code[k].op \notin Rounds

Init ==
  /\ program \in DOMAIN Programs
  /\ pc = 0
  /\ \E x, y \in Operands :
       gpr = [r \in Registers |-> CASE r = 1 -> x [] r = 2 -> y [] OTHER -> 0]
  /\ is_br = FALSE /\ br_taken = FALSE
  /\ fcsr_frm \in Frms /\ fcsr_nv = FALSE
  /\ Computes(Programs[program]) => fcsr_frm = 0
  /\ illegal_exception = FALSE

Code == Programs[program]
Ended == pc \div 4 \notin 0 .. Len(Code) - 1
Instruction == Code[pc \div 4 + 1]

Rdata1 == gpr[Instruction.r1]
Rdata2 == IF "imm" \in DOMAIN Instruction THEN Instruction.imm
          ELSE gpr[Instruction.r2]

\* Every instruction clears what the last one left, and the zero register.
Written(rd, value) == [gpr EXCEPT ![rd] = IF rd = 0 THEN 0 ELSE value]

-----------------------------------------------------------------------------
(* Jumps and branches.                                                     *)

NextPc == Wrap(pc + 4)

\* What every instruction that is not a jump does.
Proceeds ==
  /\ pc' = NextPc
  /\ is_br' = FALSE /\ br_taken' = FALSE /\ illegal_exception' = FALSE

Takes(op, x, y) ==
  CASE op = "beq"  -> x = y
    [] op = "bne"  -> x # y
    [] op = "blt"  -> Signed(x) < Signed(y)
    [] op = "bge"  -> Signed(x) >= Signed(y)
    [] op = "bltu" -> x < y
    [] op = "bgeu" -> x >= y

BranchOps == {"beq", "bne", "blt", "bge", "bltu", "bgeu"}

\* Mutant: a branch that is not taken stays where it is.
NotTakenStays == pc
NotTaken == NextPc

Branch ==
  /\ Instruction.op \in BranchOps
  /\ LET taken == Takes(Instruction.op, Rdata1, Rdata2)
     IN /\ br_taken' = taken
        /\ pc' = IF taken THEN Wrap(pc + Instruction.offset) ELSE NotTaken
  /\ is_br' = TRUE /\ illegal_exception' = FALSE
  /\ UNCHANGED <<program, gpr, fcsr_frm, fcsr_nv>>

\* jalr drops the two low bits.
JumpTarget(n) == Wrap(n) - (Wrap(n) % 4)

\* Mutant: the base is read after the link is written.
BaseAfterLink == IF Instruction.rd = Instruction.r1 THEN NextPc ELSE Rdata1
\* The registers are read before any is written.
JumpBase == Rdata1

Jump ==
  /\ \/ Instruction.op = "jal" /\ pc' = Wrap(pc + Instruction.imm)
     \/ Instruction.op = "jalr" /\ pc' = JumpTarget(JumpBase + Instruction.imm)
  /\ gpr' = Written(Instruction.rd, NextPc)
  /\ is_br' = TRUE /\ br_taken' = TRUE /\ illegal_exception' = FALSE
  /\ UNCHANGED <<program, fcsr_frm, fcsr_nv>>

-----------------------------------------------------------------------------
(* Computations: the value of a register from two words and, for auipc, pc.*)

Integer(op, x, y) ==
  CASE op = "lui"   -> y
    [] op = "auipc" -> Wrap(y + pc)
    [] op = "add"   -> Wrap(x + y)
    [] op = "sub"   -> Wrap(x - y)
    [] op = "slt"   -> Truth(Signed(x) < Signed(y))
    [] op = "sltu"  -> Truth(x < y)
    [] op = "xor"   -> Xor(x, y)
    [] op = "or"    -> Or(x, y)
    [] op = "and"   -> And(x, y)
    [] op = "sll"   -> Sll(x, Amount(y))
    [] op = "srl"   -> Srl(x, Amount(y))
    [] op = "sra"   -> Sra(x, Amount(y))

MulDiv(op, x, y) ==
  CASE op = "mul"    -> Wrap(x * y)
    [] op = "mulh"   -> High(Signed(x) * Signed(y))
    [] op = "mulhsu" -> Mulhsu(x, y)
    [] op = "mulhu"  -> High(x * y)
    [] op = "div"    -> Wrap(SignedDiv(Signed(x), Signed(y)))
    [] op = "divu"   -> UnsignedDiv(x, y)
    [] op = "rem"    -> Wrap(SignedRem(Signed(x), Signed(y)))
    [] op = "remu"   -> UnsignedRem(x, y)

BitManip(op, x, y, beyond) ==
  CASE op \in {"sh1add", "sh2add", "sh3add"} ->
         LET n == CASE op = "sh1add" -> 1 [] op = "sh2add" -> 2 [] OTHER -> 3
         IN Wrap(y + Sll(x, n))
    [] op = "xnor" -> Flip(Xor(x, y))
    [] op = "orn"  -> Or(x, Flip(y))
    [] op = "andn" -> And(x, Flip(y))
    [] op = "rol"  -> Rol(x, Amount(y), beyond)
    [] op = "ror"  -> Ror(x, Amount(y), beyond)
    [] op = "bset" -> Or(x, Power[Amount(y)])
    [] op = "bclr" -> And(x, Flip(Power[Amount(y)]))
    [] op = "binv" -> Xor(x, Power[Amount(y)])
    [] op = "bext" -> Bit(x, Amount(y))
    [] op = "min"  -> IF Signed(x) < Signed(y) THEN x ELSE y
    [] op = "minu" -> IF x < y THEN x ELSE y
    [] op = "max"  -> IF Signed(x) > Signed(y) THEN x ELSE y
    [] op = "maxu" -> IF x > y THEN x ELSE y
    [] op = "pack"   -> Pack(x, y)
    [] op = "packh"  -> Packh(x, y)
    [] op = "clmul"  -> Clmul(x, y)
    [] op = "clmulr" -> Clmulr(x, y)
    [] op = "clmulh" -> Clmulh(x, y)
    [] op = "clz"    -> Clz(x)
    [] op = "ctz"    -> Ctz(x)
    [] op = "pcnt"   -> Pcnt(x)
    [] op = "sext_b" -> Sext(x, Byte)
    [] op = "sext_h" -> Sext(x, Half)
    [] op = "rev8"   -> Rev8(x)
    [] op = "orcb"   -> Orcb(x)

IntegerOps == {"lui", "auipc", "add", "sub", "slt", "sltu", "xor", "or", "and",
               "sll", "srl", "sra"}
MulDivOps  == {"mul", "mulh", "mulhsu", "mulhu", "div", "divu", "rem", "remu"}
BitManipOps == {"sh1add", "sh2add", "sh3add", "xnor", "orn", "andn", "rol",
                "ror", "bset", "bclr", "binv", "bext", "min", "minu", "max",
                "maxu", "pack", "packh", "clmul", "clmulr", "clmulh", "clz",
                "ctz", "pcnt", "sext_b", "sext_h", "rev8", "orcb"}

Compute ==
  LET op == Instruction.op
  IN /\ op \in IntegerOps \cup MulDivOps \cup BitManipOps
     /\ \E beyond \in Beyond(Rdata1) :
          gpr' = Written(Instruction.rd,
                   CASE op \in IntegerOps  -> Integer(op, Rdata1, Rdata2)
                     [] op \in MulDivOps   -> MulDiv(op, Rdata1, Rdata2)
                     [] op \in BitManipOps ->
                          BitManip(op, Rdata1, Rdata2, beyond))
     /\ Proceeds
     /\ UNCHANGED <<program, fcsr_frm, fcsr_nv>>

-----------------------------------------------------------------------------
(* Floats.                                                                 *)

Float(op, f, g) ==
  CASE op = "fmin" -> Fmin(f, g)
    [] op = "fmax" -> Fmax(f, g)
    [] op = "flt"  -> Truth(F32Lt(f, g))
    [] op = "fle"  -> Truth(F32Le(f, g))
    [] op = "feq"  -> Truth(F32Eq(f, g))
    [] op = "fsgnj"  -> Fsgnj(f, g)
    [] op = "fsgnjn" -> Fsgnjn(f, g)
    [] op = "fsgnjx" -> Fsgnjx(f, g)
    [] op = "fclass" -> Classify(f)

FloatOps == {"fmin", "fmax", "flt", "fle", "feq", "fsgnj", "fsgnjn", "fsgnjx",
             "fclass"}

\* Arithmetic rounds as it says or, for mode 7, as fcsr says; softfloat is
\* left to give any of these words, and any flag.
RoundingMode == IF Instruction.rm = 7 THEN fcsr_frm ELSE Instruction.rm
Rounded == {0, CanonicalNan}

FloatStep ==
  /\ \/ /\ Instruction.op \in FloatOps
        /\ gpr' = Written(Instruction.rd,
                           Float(Instruction.op, Rdata1, Rdata2))
        /\ fcsr_nv' = (fcsr_nv \/ Invalid(Instruction.op, Rdata1, Rdata2))
     \/ /\ Instruction.op \in Rounds /\ RoundingMode \in 0 .. 4
        /\ \E f \in Rounded : gpr' = Written(Instruction.rd, f)
        /\ \E raised \in BOOLEAN : fcsr_nv' = (fcsr_nv \/ raised)
  /\ Proceeds
  /\ UNCHANGED <<program, fcsr_frm>>

\* A rounding mode that does not exist: the flag, and nothing else.
IllegalFloat ==
  /\ Instruction.op \in Rounds /\ RoundingMode \notin 0 .. 4
  /\ illegal_exception' = TRUE
  /\ is_br' = FALSE /\ br_taken' = FALSE
  /\ UNCHANGED <<program, pc, gpr, fcsr_frm, fcsr_nv>>

\* fence, and the encodings no case of RV32IM() is for.
Nothing ==
  /\ Instruction.op \in {"fence", "unlisted"}
  /\ Proceeds
  /\ UNCHANGED <<program, gpr, fcsr_frm, fcsr_nv>>

-----------------------------------------------------------------------------
Next ==
  /\ ~Ended
  /\ Branch \/ Jump \/ Compute \/ FloatStep \/ IllegalFloat \/ Nothing

Spec == Init /\ [][Next]_vars /\ WF_vars(Next)
=============================================================================
