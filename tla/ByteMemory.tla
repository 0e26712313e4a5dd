---------------------------- MODULE ByteMemory ----------------------------
(***************************************************************************)
(* What a memory promises its program: bytes, little-endian words made of  *)
(* them, and instructions that each read and write just the bytes they     *)
(* name.  A byte and a word are numbers; a byte has ByteBits bits, 8 in    *)
(* the code.                                                               *)
(***************************************************************************)
EXTENDS Numerals

CONSTANTS
  Words,       (* word addresses                                            *)
  ByteBits     (* bits of a byte                                            *)

VARIABLES
  bytes,       (* [Words -> [0 .. 3 -> Byte]]                               *)
  rd,          (* what the last instruction that returns a value returned   *)
  done         (* the instruction the last step executed: [op, word, off,
                  size, signed, x, withheld], op "none" if it executed none *)

vars == <<bytes, rd, done>>

\* What a unit of byte n of a word counts: the size of a word of n bytes.
Place(n) == Pow2[n * ByteBits]

Bits == 4 * ByteBits
Size == Place(4)
Byte == 0 .. Place(1) - 1

Join(b) == b[0] + Place(1) * b[1] + Place(2) * b[2] + Place(3) * b[3]
Cut(n)  == [i \in 0 .. 3 |-> (n \div Place(i)) % Place(1)]

\* The value of n bytes from byte off on, and the same as a signed number.
Field(b, off, n) == (Join(b) \div Place(off)) % Place(n)
Extended(x, n)   == IF x >= Place(n) \div 2 THEN Size - Place(n) + x ELSE x

Signed(x) == IF x >= Size \div 2 THEN x - Size ELSE x

\* Bitwise operations, by the bits of the result.
Bit(x, i)  == (x \div Pow2[i]) % 2 = 1
Of(bits)   == NumberOf(bits, Bits)
Places     == 0 .. Bits - 1

Least(x, y)    == IF x < y THEN x ELSE y
Greatest(x, y) == IF x > y THEN x ELSE y

Modified(op, x, y) ==
  CASE op = "swap" -> y
    [] op = "add"  -> (x + y) % Size
    [] op = "xor"  -> Of({i \in Places : Bit(x, i) # Bit(y, i)})
    [] op = "or"   -> Of({i \in Places : Bit(x, i) \/ Bit(y, i)})
    [] op = "and"  -> Of({i \in Places : Bit(x, i) /\ Bit(y, i)})
    [] op = "min"  -> IF Signed(x) < Signed(y) THEN x ELSE y
    [] op = "max"  -> IF Signed(x) < Signed(y) THEN y ELSE x
    [] op = "minu" -> Least(x, y)
    [] op = "maxu" -> Greatest(x, y)

AmoOps == {"swap", "add", "xor", "or", "and", "min", "max", "minu", "maxu"}

Init ==
  /\ bytes \in [Words -> [0 .. 3 -> Byte]]
  /\ rd = 0
  /\ done.op = "none"

Load(d) ==
  /\ d.op \in {"load", "lr"}
  /\ rd' = LET x == Field(bytes[d.word], d.off, d.size)
           IN IF d.signed THEN Extended(x, d.size) ELSE x
  /\ UNCHANGED bytes

\* A store may be left to the program that embeds the simulator.
Written(b, d) == IF d.withheld THEN b ELSE
                 [i \in 0 .. 3 |-> IF i \in d.off .. d.off + d.size - 1
                                    THEN Cut(d.x)[i - d.off] ELSE b[i]]

Store(d) ==
  /\ d.op = "store"
  /\ bytes' = [bytes EXCEPT ![d.word] = Written(@, d)]
  /\ UNCHANGED rd

Amo(d) ==
  /\ d.op \in AmoOps
  /\ rd' = Join(bytes[d.word])
  /\ bytes' = IF d.withheld THEN bytes ELSE
              [bytes EXCEPT ![d.word] = Cut(Modified(d.op, Join(@), d.x))]

\* Whether the write is made is the reservation's affair.
StoreConditional(d) ==
  /\ d.op = "sc"
  /\ \/ rd' = 0 /\ bytes' = [bytes EXCEPT ![d.word] = Written(@, d)]
     \/ rd' = 1 /\ UNCHANGED bytes

\* A device transfer, or the program that embeds the simulator.
WriteFromOutside(d) ==
  /\ d.op = "outside"
  /\ bytes' = [bytes EXCEPT ![d.word] = Cut(d.x)]
  /\ UNCHANGED rd

\* A step that executes nothing on this memory: a fault, a fetch, a device.
Nothing(d) ==
  /\ d.op = "none"
  /\ UNCHANGED <<bytes, rd>>

Next == \/ Load(done') \/ Store(done') \/ Amo(done')
        \/ StoreConditional(done') \/ WriteFromOutside(done') \/ Nothing(done')

Spec == Init /\ [][Next]_vars
=============================================================================
