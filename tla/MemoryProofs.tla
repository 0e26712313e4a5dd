---------------------------- MODULE MemoryProofs ----------------------------
(***************************************************************************)
(* Proofs about Memory, for every set of programs, page tables and windows *)
(* and every width of a byte: the types, that the walk of the code grants  *)
(* what an entry's rights say, what decides an sc.w, and that the memory   *)
(* of bit sets is one of bytes and numbers.                                *)
(*                                                                         *)
(* The last rests on what a set of bits is as a number (NumeralsProofs),   *)
(* on the carries, the order and the bitwise operations of sets being      *)
(* those of numbers (Arithmetic on words), and on the bytes of a word      *)
(* being the digits of its number (Bytes of words).                        *)
(***************************************************************************)
EXTENDS Memory, NumeralsProofs

-----------------------------------------------------------------------------
(* The walk.                                                               *)

\* Frames are physical pages.
LEMMA FrameType == \A n \in Nat : Frame(n) \in 0 .. PhysPages - 1
  BY Sv32Assumption DEF Frame

\* A superpage that is aligned still is when it is cut to the address space.
LEMMA FrameAligned ==
  ASSUME NEW n \in Nat, n % Entries = 0
  PROVE  (Frame(n) \div Entries) * Entries = Frame(n)
<1> DEFINE m == n \div Entries
           k == PhysPages \div Entries
           q == n \div PhysPages
<1>1. /\ Entries \in Nat \ {0} /\ PhysPages \in Nat \ {0}
      /\ m \in Nat /\ k \in Nat /\ q \in Nat
  BY Sv32Assumption
<1>2. n = Entries * m
  BY <1>1
<1>3. PhysPages = Entries * k
  BY <1>1, Sv32Assumption
<1>4. Frame(n) = n - PhysPages * q /\ Frame(n) \in Nat
  BY <1>1 DEF Frame
<1>5. Frame(n) = Entries * (m - k * q)
  <2> HIDE DEF m, k, q
  <2>1. PhysPages * q = Entries * (k * q)
    BY <1>1, <1>3
  <2> QED
    BY <1>1, <1>2, <1>4, <2>1
<1> DEFINE d == m - k * q
<1>6. d \in Int
  BY <1>1
<1> HIDE DEF m, k, q, d
<1>7. Frame(n) \div Entries = d
  BY <1>1, <1>4, <1>5, <1>6 DEF d
<1> QED
  BY <1>1, <1>5, <1>6, <1>7 DEF d

\* The refusals of va2pa(), one by one, are what an entry does not grant.
LEMMA FlagsAgree ==
  ASSUME NEW c \in Context, NEW f \in SUBSET Flags, NEW kind \in Kinds
  PROVE  (kind \in Rights(c, f)) <=> (~Malformed(f) /\ ~Denied(c, f, kind))
<1>1. c.priv \in {0, 1, 3} /\ c.mpp \in 0 .. 3
  BY DEF Context
<1>2. EffectivePriv(c, kind) \in 0 .. 3
  BY <1>1 DEF EffectivePriv
<1>3. kind \in Rights(c, f) <=>
        /\ kind \in Granted(f, "MXR" \in c.bits)
        /\ Admits(f, EffectivePriv(c, kind), "SUM" \in c.bits)
  BY DEF Rights, Granted, EffectivePriv
<1>4. Admits(f, EffectivePriv(c, kind), "SUM" \in c.bits) <=>
        /\ ~(EffectivePriv(c, kind) = 0 /\ "U" \notin f)
        /\ ~(EffectivePriv(c, kind) = 1 /\ "U" \in f /\ "SUM" \notin c.bits)
  BY <1>2 DEF Admits
<1>5. kind \in Granted(f, "MXR" \in c.bits) <=>
        /\ ~Malformed(f)
        /\ "A" \in f
        /\ ~(kind = "fetch" /\ "X" \notin f)
        /\ ~(kind = "load" /\ "R" \notin f /\ ~MxrLoad(c, f))
        /\ ~(kind = "store" /\ "W" \notin f)
        /\ ~(kind = "store" /\ "D" \notin f)
  BY DEF Granted, Malformed, Kinds, MxrLoad
<1> QED
  BY <1>3, <1>4, <1>5 DEF Denied

\* A pointer is a well-formed entry that is no leaf.
LEMMA PointerIs ==
  ASSUME NEW e \in PTE
  PROVE  Pointer(e) <=> ~Malformed(e.flags) /\ ~IsLeaf(e.flags)
BY DEF Pointer, Malformed, IsLeaf

\* A page that grants a right has neither malformed flags nor no leaf's.
LEMMA GrantedByLeaf ==
  ASSUME NEW c \in Context, NEW f \in SUBSET Flags, NEW kind \in Kinds,
         ~Malformed(f), ~Denied(c, f, kind)
  PROVE  IsLeaf(f)
BY DEF Malformed, Denied, IsLeaf, Kinds, MxrLoad

\* va2pa() reaches the page an access is granted, and no other.
THEOREM WalkReaches ==
  ASSUME NEW c \in Context, NEW t \in Tables, Linked(t),
         NEW v \in 0 .. Entries * Entries - 1, NEW kind \in Kinds
  PROVE  /\ va2pa(c, t, Root, v, kind) = Reaches(c, t, Root, v, kind)
         /\ va2pa(c, t, Root, v, kind) \in Nat \cup {NoPage}
<1> DEFINE e == t[Root][v \div Entries]
           leaf == t[Frame(e.ppn)][v % Entries]
<1>1. v \div Entries \in 0 .. Entries - 1 /\ v % Entries \in 0 .. Entries - 1
  BY Sv32Assumption
<1>2. e \in PTE
  BY <1>1, MemoryAssumption DEF Tables
<1>3. e.flags \in SUBSET Flags /\ e.ppn \in Nat /\ Frame(e.ppn) \in Nat
  BY <1>2, FrameType DEF PTE
<1> HIDE DEF e, leaf
<1>4. CASE Pointer(e)
  <2>1. leaf \in PTE
    <3>1. Frame(e.ppn) \in TablePages
      BY <1>1, <1>4 DEF Linked, e
    <3> QED
      BY <3>1, <1>1 DEF Tables, leaf
  <2>2. leaf.flags \in SUBSET Flags /\ Frame(leaf.ppn) \in Nat
    BY <2>1, FrameType DEF PTE
  <2>3. va2pa(c, t, Root, v, kind) = PageWalk(c, leaf, kind)
    BY <1>2, <1>4, PointerIs DEF va2pa, e, leaf
  <2>4. Mapped(t, Root, v) =
          [flags |-> IF Pointer(leaf) THEN {} ELSE leaf.flags,
           page |-> Frame(leaf.ppn)]
    BY <1>4 DEF Mapped, e, leaf
  <2>5. kind \notin Rights(c, {})
    BY DEF Rights, Granted
  <2>6. kind \in Rights(c, leaf.flags) <=>
          ~Malformed(leaf.flags) /\ ~Denied(c, leaf.flags, kind)
    BY <2>2, FlagsAgree
  <2>7. kind \in Rights(c, Mapped(t, Root, v).flags) <=>
          ~(\/ Malformed(leaf.flags) \/ ~IsLeaf(leaf.flags)
            \/ Denied(c, leaf.flags, kind))
    BY <2>1, <2>2, <2>4, <2>5, <2>6, PointerIs, GrantedByLeaf
  <2> QED
    BY <2>2, <2>3, <2>4, <2>7 DEF Reaches, PageWalk
<1>5. CASE ~Pointer(e)
  <2>1. Mapped(t, Root, v) =
          [flags |-> IF e.ppn % Entries = 0 THEN e.flags ELSE {},
           page |-> Frame(e.ppn) + (v % Entries)]
    BY <1>5 DEF Mapped, e
  <2>2. kind \notin Rights(c, {})
    BY DEF Rights, Granted
  <2>3. kind \in Rights(c, e.flags) <=>
          ~Malformed(e.flags) /\ ~Denied(c, e.flags, kind)
    BY <1>3, FlagsAgree
  <2>4. CASE Malformed(e.flags)
    BY <2>1, <2>2, <2>3, <2>4 DEF va2pa, e, Reaches
  <2>5. CASE ~Malformed(e.flags)
    <3>1. IsLeaf(e.flags)
      BY <1>2, <1>5, <2>5, PointerIs
    <3>2. va2pa(c, t, Root, v, kind) = SuperpageWalk(c, e, v, kind)
      BY <2>5, <3>1 DEF va2pa, e
    <3>3. e.ppn % Entries = 0 =>
            (Frame(e.ppn) \div Entries) * Entries = Frame(e.ppn)
      BY <1>3, FrameAligned
    <3>4. CASE e.ppn % Entries = 0
      BY <1>1, <1>3, <2>1, <2>3, <2>5, <3>2, <3>3, <3>4, Sv32Assumption
      DEF Reaches, SuperpageWalk, Misaligned
    <3>5. CASE e.ppn % Entries # 0
      BY <2>1, <2>2, <3>2, <3>5 DEF Reaches, SuperpageWalk, Misaligned
    <3> QED
      BY <3>4, <3>5
  <2> QED
    BY <2>4, <2>5
<1> QED
  BY <1>4, <1>5

\* Where a store is granted, so is a load: the first walk of an AMO fails
\* only where the second one does.
LEMMA StoreImpliesLoad ==
  ASSUME NEW c \in Context, NEW t \in Tables, Linked(t),
         NEW v \in 0 .. Entries * Entries - 1,
         va2pa(c, t, Root, v, "store") # NoPage
  PROVE  va2pa(c, t, Root, v, "load") # NoPage
<1> DEFINE m == Mapped(t, Root, v)
<1>1. "store" \in Rights(c, m.flags)
  BY WalkReaches DEF Reaches, Kinds
<1>2. "load" \in Rights(c, m.flags)
  BY <1>1 DEF Rights, Granted, Kinds
<1>3. m.page # NoPage
  BY <1>1, WalkReaches DEF Reaches, Kinds
<1> QED
  BY <1>2, <1>3, WalkReaches DEF Reaches, Kinds

-----------------------------------------------------------------------------
(* The types.                                                              *)

\* A state's types, in a context and with page tables of its program.
Typed == TypeOK /\ Linked(tables) /\ ctx \in Program.contexts

\* The program that runs is one of those assumed.
LEMMA ProgramType ==
  ASSUME guest \in DOMAIN Guests
  PROVE  Guest(Program)
BY MemoryAssumption DEF Program

\* Where an access goes that does not fault.
LEMMA PageForType ==
  ASSUME Typed, NEW i \in Program.insns, NEW kind \in Kinds
  PROVE  PageFor(i, kind) \in Nat \cup {NoPage}
<1>1. /\ i.v \in Nat
      /\ Translates(ctx) => i.v \in 0 .. Entries * Entries - 1
  BY ProgramType DEF Guest, Insn, Typed, TypeOK
<1>2. ctx \in Context /\ tables \in Tables /\ Linked(tables)
  BY DEF Typed, TypeOK
<1>3. Translates(ctx) =>
        va2pa(ctx, tables, Root, i.v, kind) \in Nat \cup {NoPage}
  BY <1>1, <1>2, WalkReaches
<1> QED
  BY <1>1, <1>3 DEF PageFor

LEMMA FaultType ==
  ASSUME NEW i \in Program.insns, i.op \in Ops
  PROVE  FaultOf(i) \in Kinds \cup {"none"}
<1>1. CASE IsAtomic(i)
  <2>1. AmoFault(i) \in Kinds \cup {"none"}
    BY DEF AmoFault, Kinds
  <2> QED
    BY <1>1, <2>1 DEF FaultOf
<1>2. CASE ~IsAtomic(i)
  BY <1>2 DEF FaultOf, IsAtomic, Ops, Kinds
<1> QED
  BY <1>1, <1>2

LEMMA BitsOfWords ==
  /\ \A x \in SUBSET Bits, n \in Int :
       Shl(x, n) \subseteq Bits /\ Shr(x, n) \subseteq Bits
  /\ \A w, x \in SUBSET Bits, off \in 0 .. 3, size \in {1, 2, 4} :
       Merged(w, off, size, x) \subseteq Bits
  /\ \A w \in SUBSET Bits, off \in 0 .. 3, size \in {1, 2, 4}, s \in BOOLEAN :
       Loaded(w, off, size, s) \subseteq Bits
  /\ \A op \in AmoOps, w, x \in SUBSET Bits : Modified(op, w, x) \subseteq Bits
<1>1. \A x \in SUBSET Bits, n \in Int :
        Shl(x, n) \subseteq Bits /\ Shr(x, n) \subseteq Bits
  BY DEF Shl, Shr
<1>2. ASSUME NEW w \in SUBSET Bits, NEW x \in SUBSET Bits, NEW off, NEW size
      PROVE  Merged(w, off, size, x) \subseteq Bits
  BY DEF Merged, Mask
<1>3. ASSUME NEW w \in SUBSET Bits, NEW off \in 0 .. 3, NEW size \in {1, 2, 4},
             NEW s \in BOOLEAN
      PROVE  Loaded(w, off, size, s) \subseteq Bits
  <2>1. size * ByteBits \in Nat
    BY MemoryAssumption
  <2>2. Shr(w, off * ByteBits) \subseteq Bits
    BY DEF Shr
  <2>3. size * ByteBits .. 4 * ByteBits - 1 \subseteq Bits
    BY <2>1, MemoryAssumption DEF Bits
  <2> QED
    BY <2>2, <2>3 DEF Loaded
<1>4. ASSUME NEW op \in AmoOps, NEW w \in SUBSET Bits, NEW x \in SUBSET Bits
      PROVE  Modified(op, w, x) \subseteq Bits
  BY DEF Modified, AmoOps, Sum, Xor
<1> QED
  BY <1>1, <1>2, <1>3, <1>4

LEMMA InsnType ==
  ASSUME Typed, NEW i \in Program.insns
  PROVE  /\ i.op \in Ops /\ i.off \in 0 .. 3 /\ i.size \in {1, 2, 4}
         /\ i.signed \in BOOLEAN /\ i.x \in SUBSET Bits
BY ProgramType DEF Guest, Insn, Typed, TypeOK

LEMMA DidType ==
  ASSUME Typed, NEW i \in Program.insns, PageOf(i) \in Words
  PROVE  Did(i) \in Done
BY InsnType DEF Did, Done, Withheld, Typed, TypeOK

LEMMA StoreDataType ==
  ASSUME Typed, NEW p \in Words, NEW off \in 0 .. 3, NEW size \in {1, 2, 4},
         NEW x \in SUBSET Bits
  PROVE  StoreData(p, off, size, x) \in [Words -> SUBSET Bits]
<1>1. mem \in [Words -> SUBSET Bits]
  BY DEF Typed, TypeOK
<1>2. Merged(mem[p], off, size, x) \in SUBSET Bits
  BY <1>1, BitsOfWords
<1> QED
  BY <1>1, <1>2 DEF StoreData

LEMMA NotDoneType == NotDone \in Done
BY DEF NotDone, Done

LEMMA InitTyped == Init => Typed
<1> SUFFICES ASSUME Init PROVE Typed
  OBVIOUS
<1>1. Guest(Program)
  BY ProgramType DEF Init
<1> QED
  BY <1>1, NotDoneType, MemoryAssumption
  DEF Init, Typed, TypeOK, Guest, Kinds

LEMMA StepTyped == Typed /\ [Next]_vars => Typed'
<1> SUFFICES ASSUME Typed, [Next]_vars PROVE Typed'
  OBVIOUS
<1>g. Guest(Program) /\ TypeOK /\ Linked(tables) /\ ctx \in Program.contexts
  BY ProgramType DEF Typed, TypeOK
<1>1. ASSUME NEW i \in Program.insns, Executes(i)
      PROVE  /\ PageOf(i) \in Words
             /\ guest' \in DOMAIN Guests /\ ctx' \in Context
             /\ tables' \in Tables /\ Linked(tables')
             /\ ctx' \in Program'.contexts
             /\ effects' \in BOOLEAN /\ is_io' \in BOOLEAN
             /\ exited' \in BOOLEAN /\ fault' \in Kinds \cup {"none"}
             /\ i.op \in Ops /\ i.off \in 0 .. 3 /\ i.size \in {1, 2, 4}
             /\ i.signed \in BOOLEAN /\ i.x \in SUBSET Bits
             /\ Did(i) \in Done
             /\ mem[PageOf(i)] \in SUBSET Bits
  BY <1>1, <1>g, InsnType, DidType DEF Executes, TypeOK, IoFlag, Program
<1>2. ASSUME NEW i \in Program.insns, Fetch(i) PROVE Typed'
  BY <1>1, <1>2, <1>g, NotDoneType DEF Fetch, Typed, TypeOK
<1>3. ASSUME NEW i \in Program.insns, Load(i) PROVE Typed'
  <2>1. Loaded(mem[PageOf(i)], i.off, i.size, i.signed) \subseteq Bits
    BY <1>1, <1>3, BitsOfWords DEF Load
  <2> QED
    BY <1>1, <1>3, <1>g, <2>1 DEF Load, Typed, TypeOK
<1>4. ASSUME NEW i \in Program.insns, Store(i) PROVE Typed'
  <2>1. mem' \in [Words -> SUBSET Bits]
    BY <1>1, <1>4, StoreDataType DEF Store
  <2> QED
    BY <1>1, <1>4, <1>g, <2>1 DEF Store, Typed, TypeOK, Released, Stored
<1>5. ASSUME NEW i \in Program.insns, LoadReserved(i) PROVE Typed'
  BY <1>1, <1>5, <1>g DEF LoadReserved, Typed, TypeOK
<1>6. ASSUME NEW i \in Program.insns, StoreConditional(i) PROVE Typed'
  <2>1. mem' \in [Words -> SUBSET Bits]
    BY <1>1, <1>6, <1>g, StoreDataType DEF StoreConditional, TypeOK
  <2>2. rd' \subseteq Bits
    BY <1>6, MemoryAssumption DEF StoreConditional, Bits
  <2> QED
    BY <1>1, <1>6, <1>g, <2>1, <2>2 DEF StoreConditional, Typed, TypeOK
<1>7. ASSUME NEW i \in Program.insns, Amo(i) PROVE Typed'
  <2>1. Modified(i.op, mem[PageOf(i)], i.x) \in SUBSET Bits
    BY <1>1, <1>7, BitsOfWords DEF Amo
  <2>2. mem' \in [Words -> SUBSET Bits]
    BY <1>1, <1>7, <2>1, StoreDataType DEF Amo
  <2> QED
    BY <1>1, <1>7, <1>g, <2>2 DEF Amo, Typed, TypeOK, Released, Stored
<1>8. ASSUME NEW i \in Program.insns, Fault(i) PROVE Typed'
  <2>1. FaultOf(i) \in Kinds \cup {"none"}
    BY InsnType, FaultType
  <2> QED
    BY <1>8, <1>g, <2>1, NotDoneType DEF Fault, Typed, TypeOK, IoFlag, Program
<1>9. ASSUME NEW i \in Program.insns, Exit(i) PROVE Typed'
  BY <1>9, <1>g, NotDoneType DEF Exit, Typed, TypeOK, Program
<1>10. ASSUME NEW c \in Program.contexts, Switch(c) PROVE Typed'
  BY <1>10, <1>g, NotDoneType
  DEF Switch, Between, Typed, TypeOK, Guest, Program
<1>11. ASSUME NEW t \in Program.tables, Remap(t) PROVE Typed'
  BY <1>11, <1>g, NotDoneType DEF Remap, Between, Typed, TypeOK, Guest, Program
<1>12. ASSUME NEW p \in Words, NEW x \in Program.outside,
              WriteFromOutside(p, x)
       PROVE  Typed'
  <2>1. x \in SUBSET Bits
    BY <1>g DEF Guest
  <2>2. done' \in Done
    <3>1. done' = [op |-> "outside", word |-> p, off |-> 0, size |-> 4,
                   signed |-> FALSE, x |-> x, withheld |-> FALSE]
      BY <1>12 DEF WriteFromOutside, NotDone
    <3> QED
      BY <2>1, <3>1 DEF Done
  <2> QED
    BY <1>12, <1>g, <2>1, <2>2
    DEF WriteFromOutside, Between, Typed, TypeOK, Program
<1>13. ASSUME NEW b \in BOOLEAN, SetDeviceEffects(b) PROVE Typed'
  BY <1>13, <1>g, NotDoneType
  DEF SetDeviceEffects, Between, Typed, TypeOK, Program
<1>14. CASE UNCHANGED vars
  BY <1>14, <1>g DEF vars, Typed, TypeOK, Program
<1> QED
  BY <1>2, <1>3, <1>4, <1>5, <1>6, <1>7, <1>8, <1>9, <1>10, <1>11, <1>12,
     <1>13, <1>14 DEF Next, Access

\* Every variable has its type, and page tables stay linked.
THEOREM TypeCorrect == Spec => []TypeOK
<1>1. Typed => TypeOK
  BY DEF Typed
<1> QED
  BY <1>1, InitTyped, StepTyped, PTL DEF Spec

LEMMA TypedAlways == Spec => []Typed
  BY InitTyped, StepTyped, PTL DEF Spec

-----------------------------------------------------------------------------
(* Accesses.                                                               *)

LEMMA TypedGrants == Typed => AccessesAsGranted
<1> SUFFICES ASSUME Typed, Translates(ctx), NEW i \in Program.insns
             PROVE  LET page == Reaches(ctx, tables, Root, i.v, Need(i)) IN
                      IF page = NoPage THEN FaultOf(i) = Need(i)
                      ELSE FaultOf(i) = "none" /\ PageOf(i) = page
  BY DEF AccessesAsGranted
<1>1. /\ i.v \in 0 .. Entries * Entries - 1 /\ i.op \in Ops
      /\ ctx \in Context /\ tables \in Tables /\ Linked(tables)
  BY ProgramType DEF Guest, Insn, Typed, TypeOK
<1>2. \A kind \in Kinds :
        PageFor(i, kind) = Reaches(ctx, tables, Root, i.v, kind)
  BY <1>1, WalkReaches DEF PageFor
<1>3. ~Fails(i, "store") => ~Fails(i, "load")
  BY <1>1, StoreImpliesLoad DEF Fails, PageFor
<1>4. CASE i.op \in {"fetch", "load", "store"}
  BY <1>2, <1>4 DEF Need, Fails, FaultOf, PageOf, IsAtomic, Kinds, AmoOps
<1>5. CASE i.op = "lr"
  <2>1. ASSUME ~Fails(i, "load"), ~Fails(i, "store")
        PROVE  PageFor(i, "store") = PageFor(i, "load")
    BY <1>1, <1>2, <2>1 DEF Fails, Reaches, Kinds
  <2> QED
    BY <1>2, <1>5, <2>1
    DEF Need, Fails, FaultOf, AmoFault, PageOf, IsAtomic, Kinds
<1>6. CASE i.op = "sc"
  BY <1>2, <1>6 DEF Need, Fails, FaultOf, AmoFault, PageOf, IsAtomic, Kinds
<1>7. CASE i.op \in AmoOps
  BY <1>2, <1>3, <1>7
  DEF Need, Fails, FaultOf, AmoFault, PageOf, IsAtomic, Kinds, AmoOps
<1> QED
  BY <1>1, <1>4, <1>5, <1>6, <1>7 DEF Ops

\* Under every page table and in every mode an access is let through exactly
\* when its page grants it, and goes to that page.
THEOREM AccessesAreGranted == Spec => []AccessesAsGranted
  BY TypedAlways, TypedGrants, PTL

-----------------------------------------------------------------------------
(* The reservation.                                                        *)

\* The code's reservation is the last lr.w that no sc.w and no store to its
\* first byte has followed.
ReserveIsLink ==
  /\ reserve.valid <=> link.page # NoPage /\ ~link.first
  /\ reserve.valid => reserve.page = link.page

LEMMA WordsArePages == NoPage \notin Words
  BY MemoryAssumption DEF NoPage

LEMMA InitLinked == Init => ReserveIsLink
  BY DEF Init, ReserveIsLink

LEMMA StoreLinked ==
  ASSUME Typed, ReserveIsLink, NEW p \in Words, NEW off \in 0 .. 3,
         reserve' = Released(p, off), link' = Stored(p, off)
  PROVE  ReserveIsLink'
<1>1. /\ link' = [link EXCEPT !.first = @ \/ (off = 0 /\ link.page = p)]
      /\ link.first \in BOOLEAN /\ p # NoPage
      /\ link \in [page : Words \cup {NoPage}, first : BOOLEAN]
      /\ reserve \in [valid : BOOLEAN, page : Words \cup {NoPage}]
  BY WordsArePages DEF Stored, Typed, TypeOK
<1>2. CASE Reserved(p, off)
  <2>1. ~reserve'.valid
    BY <1>1, <1>2 DEF Released
  <2>2. link'.first
    BY <1>1, <1>2 DEF Reserved, ReserveIsLink
  <2> QED
    BY <2>1, <2>2 DEF ReserveIsLink
<1>3. CASE ~Reserved(p, off)
  <2>1. reserve' = reserve /\ link'.page = link.page
    BY <1>1, <1>3 DEF Released
  <2>2. CASE off = 0 /\ link.page = p
    <3>1. ~reserve.valid
      BY <1>3, <2>2 DEF Reserved, ReserveIsLink
    <3>2. link'.first
      BY <1>1, <2>2
    <3> QED
      BY <2>1, <3>1, <3>2 DEF ReserveIsLink
  <2>3. CASE ~(off = 0 /\ link.page = p)
    <3>1. link'.first = link.first
      BY <1>1, <2>3
    <3> QED
      BY <2>1, <3>1 DEF ReserveIsLink
  <2> QED
    BY <2>2, <2>3
<1> QED
  BY <1>2, <1>3

LEMMA StepLinked ==
  Typed /\ ReserveIsLink /\ [Next]_vars => ReserveIsLink'
<1> SUFFICES ASSUME Typed, ReserveIsLink, [Next]_vars PROVE ReserveIsLink'
  OBVIOUS
<1>1. ASSUME NEW i \in Program.insns, Store(i) PROVE ReserveIsLink'
  BY <1>1, InsnType, StoreLinked DEF Store, Executes
<1>2. ASSUME NEW i \in Program.insns, Amo(i) PROVE ReserveIsLink'
  BY <1>2, StoreLinked DEF Amo, Executes
<1>3. ASSUME NEW i \in Program.insns, LoadReserved(i) PROVE ReserveIsLink'
  BY <1>3, WordsArePages DEF LoadReserved, Executes, ReserveIsLink
<1>4. ASSUME NEW i \in Program.insns, StoreConditional(i) PROVE ReserveIsLink'
  BY <1>4 DEF StoreConditional, ReserveIsLink, Typed, TypeOK
<1>5. CASE UNCHANGED <<reserve, link>>
  BY <1>5 DEF ReserveIsLink
<1>6. \/ UNCHANGED <<reserve, link>>
      \/ \E i \in Program.insns :
           Store(i) \/ Amo(i) \/ LoadReserved(i) \/ StoreConditional(i)
  BY DEF Next, Access, Fetch, Load, Fault, Exit, Switch, Remap,
         WriteFromOutside, SetDeviceEffects, Between, vars
<1> QED
  BY <1>1, <1>2, <1>3, <1>4, <1>5, <1>6

LEMMA StepScOutcome ==
  Typed /\ ReserveIsLink /\ [Next]_vars =>
    [done'.op = "sc" =>
       (rd' = {}) = (link.page = done'.word /\ ~link.first)]_vars
<1> SUFFICES ASSUME Typed, ReserveIsLink, Next, done'.op = "sc"
             PROVE  (rd' = {}) = (link.page = done'.word /\ ~link.first)
  OBVIOUS
<1>1. PICK i \in Program.insns : StoreConditional(i)
  <2>1. NotDone.op # "sc" /\ \A i : Did(i).op = i.op
    BY DEF NotDone, Did
  <2>2. ASSUME NEW i \in Program.insns,
               \/ Fetch(i) \/ Load(i) \/ Store(i) \/ LoadReserved(i)
               \/ Amo(i) \/ Fault(i) \/ Exit(i)
        PROVE  FALSE
    BY <2>1, <2>2
    DEF Fetch, Load, Store, LoadReserved, Amo, Fault, Exit, AmoOps
  <2>3. ASSUME NEW p \in Words, NEW x \in Program.outside,
               WriteFromOutside(p, x)
        PROVE  FALSE
    BY <2>3 DEF WriteFromOutside, NotDone
  <2> QED
    BY <2>1, <2>2, <2>3 DEF Next, Access, Switch, Remap, SetDeviceEffects
<1>2. done'.word = PageOf(i) /\ PageOf(i) \in Words
  BY <1>1 DEF StoreConditional, Executes, Did
<1>3. (rd' = {}) <=> Reserved(PageOf(i), 0)
  BY <1>1 DEF StoreConditional
<1> QED
  BY <1>2, <1>3, WordsArePages DEF Reserved, ReserveIsLink

\* sc.w succeeds exactly after an lr.w of its word that no other sc.w and no
\* store to its first byte has followed.
THEOREM ScOutcomeHolds == Spec => ScOutcome
<1>1. Spec => []ReserveIsLink
  BY InitLinked, StepLinked, TypedAlways, PTL DEF Spec
<1> QED
  BY <1>1, TypedAlways, StepScOutcome, PTL DEF Spec, ScOutcome

-----------------------------------------------------------------------------
(* Arithmetic on words.                                                    *)

Width == 4 * ByteBits

\* What the assumptions say of the width of a word.
LEMMA WidthIs ==
  /\ ByteBits \in Nat \ {0} /\ Width \in Nat \ {0}
  /\ Bits = 0 .. Width - 1 /\ \A x : ValueOf(x) = NumberOf(x, Width)
BY MemoryAssumption DEF Width, Bits, ValueOf

\* A word is a number a register can hold.
LEMMA ValueType ==
  ASSUME NEW x
  PROVE  ValueOf(x) \in Nat /\ ValueOf(x) < Pow2[Width]
BY WidthIs, NumberIs, NumberBelow

\* A carry is made or passed on at each place.
LEMMA CarryStep ==
  ASSUME NEW a \in SUBSET Bits, NEW b \in SUBSET Bits, NEW k \in Nat
  PROVE  /\ ~Carry(a, b, 0)
         /\ Carry(a, b, k + 1) <=>
              (k \in a /\ k \in b) \/ ((k \in a \/ k \in b) /\ Carry(a, b, k))
<1>1. a \subseteq Nat /\ b \subseteq Nat
  BY DEF Bits
<1>2. ~Carry(a, b, 0)
  BY <1>1 DEF Carry
<1>3. ASSUME Carry(a, b, k + 1)
      PROVE  (k \in a /\ k \in b) \/ ((k \in a \/ k \in b) /\ Carry(a, b, k))
  <2>1. PICK j \in a \cap b : /\ j < k + 1
                              /\ (j + 1) .. ((k + 1) - 1) \subseteq a \cup b
    BY <1>3 DEF Carry
  <2>2. CASE j = k
    BY <2>2
  <2>3. CASE j # k
    <3>1. j \in Nat /\ j < k /\ k \in (j + 1) .. ((k + 1) - 1)
      BY <1>1, <2>1, <2>3
    <3>2. (j + 1) .. (k - 1) \subseteq a \cup b
      BY <2>1, <3>1
    <3> QED
      BY <2>1, <3>1, <3>2 DEF Carry
  <2> QED
    BY <2>2, <2>3
<1>4. ASSUME k \in a, k \in b PROVE Carry(a, b, k + 1)
  <2>1. k < k + 1 /\ (k + 1) .. ((k + 1) - 1) = {}
    OBVIOUS
  <2> QED
    BY <1>4, <2>1 DEF Carry
<1>5. ASSUME k \in a \cup b, Carry(a, b, k) PROVE Carry(a, b, k + 1)
  <2>1. PICK j \in a \cap b : j < k /\ (j + 1) .. (k - 1) \subseteq a \cup b
    BY <1>5 DEF Carry
  <2>2. (j + 1) .. ((k + 1) - 1) \subseteq a \cup b /\ j < k + 1
    <3>1. \A i \in (j + 1) .. ((k + 1) - 1) : i = k \/ i \in (j + 1) .. (k - 1)
      BY <1>1
    <3> QED
      BY <1>1, <1>5, <2>1, <3>1
  <2> QED
    BY <2>1, <2>2 DEF Carry
<1> QED
  BY <1>2, <1>3, <1>4, <1>5

\* The sum of two words by its carries is their sum as numbers, as far as a
\* word can hold it.
LEMMA SumIsAddition ==
  ASSUME NEW a \in SUBSET Bits, NEW b \in SUBSET Bits
  PROVE  ValueOf(Sum(a, b)) = (ValueOf(a) + ValueOf(b)) % Pow2[Width]
<1> DEFINE s == Sum(a, b)
           c(k) == IF Carry(a, b, k) THEN Pow2[k] ELSE 0
           G == {k \in Nat : k <= Width =>
                   NumberOf(a, k) + NumberOf(b, k) = NumberOf(s, k) + c(k)}
<1>1. 0 \in G
  BY CarryStep, NumberIs
<1>2. ASSUME NEW k \in Nat, k \in G PROVE k + 1 \in G
  <2>1. SUFFICES ASSUME k + 1 <= Width
                 PROVE  NumberOf(a, k + 1) + NumberOf(b, k + 1) =
                          NumberOf(s, k + 1) + c(k + 1)
    OBVIOUS
  <2>2. NumberOf(a, k) + NumberOf(b, k) = NumberOf(s, k) + c(k)
    <3> HIDE DEF c, s
    <3>1. k <= Width
      BY <2>1, WidthIs
    <3> QED
      BY <1>2, <3>1
  <2>3. k \in s <=> (~(k \in a <=> k \in b) <=> ~Carry(a, b, k))
    <3>1. k \in Bits
      BY <2>1, WidthIs
    <3>2. k \in Xor(a, b) <=> ~(k \in a <=> k \in b)
      BY DEF Xor
    <3>3. k \in s <=> (k \in Xor(a, b)) # Carry(a, b, k)
      BY <3>1 DEF Sum
    <3>4. Carry(a, b, k) \in BOOLEAN
      BY DEF Carry
    <3> QED
      BY <3>2, <3>3, <3>4
  <2>4. Carry(a, b, k + 1) <=>
          (k \in a /\ k \in b) \/ ((k \in a \/ k \in b) /\ Carry(a, b, k))
    BY CarryStep
  <2>5. Pow2[k] \in Nat /\ Pow2[k + 1] = 2 * Pow2[k]
    BY Pow2Next
  <2>6. ASSUME NEW x
        PROVE  /\ NumberOf(x, k) \in Nat
               /\ k \in x => NumberOf(x, k + 1) = NumberOf(x, k) + Pow2[k]
               /\ k \notin x => NumberOf(x, k + 1) = NumberOf(x, k)
    BY NumberNext
  <2>7. CASE Carry(a, b, k)
    <3>1. c(k) = Pow2[k]
      BY <2>7
    <3>2. CASE k \in a /\ k \in b
      <4>1. c(k + 1) = Pow2[k + 1] /\ k \in s
        BY <2>3, <2>4, <2>7, <3>2
      <4> HIDE DEF c, s
      <4> QED
        BY <2>2, <2>5, <2>6, <3>1, <3>2, <4>1
    <3>3. CASE k \notin a /\ k \notin b
      <4>1. c(k + 1) = 0 /\ k \in s
        BY <2>3, <2>4, <2>7, <3>3
      <4> HIDE DEF c, s
      <4> QED
        BY <2>2, <2>5, <2>6, <3>1, <3>3, <4>1
    <3>4. CASE ~(k \in a <=> k \in b)
      <4>1. c(k + 1) = Pow2[k + 1] /\ k \notin s
        BY <2>3, <2>4, <2>7, <3>4
      <4> HIDE DEF c, s
      <4> QED
        BY <2>2, <2>5, <2>6, <3>1, <3>4, <4>1
    <3> QED
      BY <3>2, <3>3, <3>4
  <2>8. CASE ~Carry(a, b, k)
    <3>1. c(k) = 0
      BY <2>8
    <3>2. CASE k \in a /\ k \in b
      <4>1. c(k + 1) = Pow2[k + 1] /\ k \notin s
        BY <2>3, <2>4, <2>8, <3>2
      <4> HIDE DEF c, s
      <4> QED
        BY <2>2, <2>5, <2>6, <3>1, <3>2, <4>1
    <3>3. CASE k \notin a /\ k \notin b
      <4>1. c(k + 1) = 0 /\ k \notin s
        BY <2>3, <2>4, <2>8, <3>3
      <4> HIDE DEF c, s
      <4> QED
        BY <2>2, <2>5, <2>6, <3>1, <3>3, <4>1
    <3>4. CASE ~(k \in a <=> k \in b)
      <4>1. c(k + 1) = 0 /\ k \in s
        BY <2>3, <2>4, <2>8, <3>4
      <4> HIDE DEF c, s
      <4> QED
        BY <2>2, <2>5, <2>6, <3>1, <3>4, <4>1
    <3> QED
      BY <3>2, <3>3, <3>4
  <2> QED
    BY <2>7, <2>8
<1>3. \A k \in Nat : k \in G
  <2> HIDE DEF G
  <2> QED
    BY <1>1, <1>2, Induction
<1>4. NumberOf(a, Width) + NumberOf(b, Width) = NumberOf(s, Width) + c(Width)
  <2>1. Width \in G /\ Width <= Width
    BY <1>3, WidthIs
  <2> QED
    BY <2>1
<1>5. /\ NumberOf(s, Width) \in Nat /\ NumberOf(s, Width) < Pow2[Width]
      /\ Pow2[Width] \in Nat \ {0}
  BY WidthIs, NumberIs, NumberBelow, Pow2Type
<1>6. (NumberOf(s, Width) + c(Width)) % Pow2[Width] = NumberOf(s, Width)
  <2> DEFINE z == NumberOf(s, Width)
             d == Pow2[Width]
  <2> HIDE DEF z, d
  <2>1. z \in Nat /\ d \in Nat \ {0} /\ z < d /\ 0 \in Nat /\ 1 \in Nat
    BY <1>5 DEF z, d
  <2>2. (z + d * 0) % d = z /\ (z + d * 1) % d = z
    BY <2>1, DivMod
  <2>3. z + d * 0 = z + 0 /\ z + d * 1 = z + d
    BY <2>1
  <2> QED
    BY <2>2, <2>3 DEF z, d
<1> HIDE DEF s, c
<1> QED
  BY <1>4, <1>6, WidthIs DEF s

\* ByteMemory counts with the same numbers.
LEMMA SameNumbers ==
  /\ \A n : Abstract!Pow2[n] = Pow2[n]
  /\ \A x, n : Abstract!NumberOf(x, n) = NumberOf(x, n)
  /\ Abstract!Bits = Width /\ Abstract!Size = Pow2[Width]
  /\ \A n : Abstract!Place(n) = Pow2[n * ByteBits]
<1>1. Abstract!Pow2 = Pow2
  BY DEF Pow2, Abstract!Pow2
<1>2. \A x, n : Abstract!NumberOf(x, n) = NumberOf(x, n)
  BY <1>1 DEF NumberOf, Abstract!NumberOf
<1>3. \A n : Abstract!Place(n) = Pow2[n * ByteBits]
  BY <1>1 DEF Abstract!Place
<1>4. Abstract!Size = Pow2[Width]
  BY <1>3 DEF Abstract!Size, Width
<1> QED
  BY <1>1, <1>2, <1>3, <1>4 DEF Abstract!Bits, Width

\* One word is below another as a set of bits exactly if it is as a number.
LEMMA ULessIsLess ==
  ASSUME NEW a \in SUBSET Bits, NEW b \in SUBSET Bits
  PROVE  ULess(a, b) <=> ValueOf(a) < ValueOf(b)
<1>1. ASSUME NEW x \in SUBSET Bits, NEW y \in SUBSET Bits, ULess(x, y)
      PROVE  ValueOf(x) < ValueOf(y)
  <2>1. PICK i \in y \ x : \A j \in Xor(x, y) : j <= i
    BY <1>1 DEF ULess
  <2>2. i \in 0 .. Width - 1
    BY WidthIs
  <2>3. \A j \in i + 1 .. Width - 1 : j \in x <=> j \in y
    <3>1. \A j \in i + 1 .. Width - 1 : ~(j <= i)
      BY <2>2
    <3> QED
      BY <2>1, <3>1 DEF Xor
  <2> QED
    BY <2>1, <2>2, <2>3, NumberLess, WidthIs
<1>2. ASSUME ValueOf(a) < ValueOf(b) PROVE ULess(a, b)
  <2>1. Width \in Nat /\ NumberOf(a, Width) # NumberOf(b, Width)
    BY <1>2, ValueType, WidthIs
  <2>2. PICK i \in 0 .. Width - 1 :
          /\ ~(i \in a <=> i \in b)
          /\ \A j \in i + 1 .. Width - 1 : j \in a <=> j \in b
    BY <2>1, HighestDifference
  <2>3. \A j \in Xor(a, b) : j <= i
    <3>1. \A j \in Xor(a, b) : j \in 0 .. Width - 1 /\ ~(j \in a <=> j \in b)
      BY WidthIs DEF Xor
    <3>2. \A j \in 0 .. Width - 1 : j <= i \/ j \in i + 1 .. Width - 1
      BY <2>2
    <3> QED
      BY <2>2, <3>1, <3>2
  <2>4. CASE i \in b
    BY <2>2, <2>3, <2>4 DEF ULess
  <2>5. CASE i \in a
    <3>1. Xor(b, a) = Xor(a, b)
      BY DEF Xor
    <3>2. ULess(b, a)
      BY <2>2, <2>3, <2>5, <3>1 DEF ULess
    <3>3. ValueOf(b) < ValueOf(a)
      BY <1>1, <3>2
    <3> QED
      BY <1>2, <3>3, ValueType
  <2> QED
    BY <2>2, <2>4, <2>5
<1> QED
  BY <1>1, <1>2

\* Turning the sign bit over moves the signed numbers up by half the range.
LEMMA FlipIs ==
  ASSUME NEW a \in SUBSET Bits
  PROVE  /\ Flip(a) \in SUBSET Bits
         /\ Abstract!Signed(ValueOf(a)) = ValueOf(Flip(a)) - Pow2[Width - 1]
<1> DEFINE t == Width - 1
           half == Pow2[t]
           low == NumberOf(a, t)
<1>1. t \in Nat /\ t + 1 = Width /\ t \in Bits /\ 4 * ByteBits - 1 = t
  BY WidthIs DEF Width
<1> HIDE DEF t
<1>2. half \in Nat \ {0} /\ Pow2[Width] = 2 * half
  BY <1>1, Pow2Next
<1>3. low \in Nat /\ low < half
  <2>1. low \in Nat
    BY <1>1, NumberIs
  <2>2. low < half
    BY <1>1, NumberBelow
  <2> QED
    BY <2>1, <2>2
<1>4. Flip(a) = Xor(a, {t})
  BY <1>1 DEF Flip
<1>5. Flip(a) \in SUBSET Bits /\ (t \in Flip(a) <=> t \notin a)
  BY <1>1, <1>4 DEF Xor
<1>6. NumberOf(Flip(a), t) = low
  <2>1. \A i \in 0 .. t - 1 : i # t
    BY <1>1
  <2>2. \A i \in 0 .. t - 1 : i \in Flip(a) <=> i \in a
    BY <1>4, <2>1 DEF Xor
  <2> QED
    BY <1>1, <2>2, NumberAgrees
<1>7. /\ t \in a => ValueOf(a) = low + half /\ ValueOf(Flip(a)) = low
      /\ t \notin a => ValueOf(a) = low /\ ValueOf(Flip(a)) = low + half
  <2>1. ValueOf(a) = NumberOf(a, t + 1)
        /\ ValueOf(Flip(a)) = NumberOf(Flip(a), t + 1)
    BY <1>1, WidthIs
  <2>2. /\ t \in a => NumberOf(a, t + 1) = low + half
        /\ t \notin a => NumberOf(a, t + 1) = low
    BY <1>1, NumberNext
  <2>3. /\ t \in Flip(a) => NumberOf(Flip(a), t + 1) = low + half
        /\ t \notin Flip(a) => NumberOf(Flip(a), t + 1) = low
    BY <1>1, <1>6, NumberNext
  <2> QED
    BY <1>5, <2>1, <2>2, <2>3
<1>8. Abstract!Size \div 2 = half /\ Abstract!Size = 2 * half
  <2> HIDE DEF half
  <2>1. Abstract!Size = 2 * half
    BY <1>2, SameNumbers
  <2>2. (2 * half) \div 2 = half
    BY <1>2
  <2> QED
    BY <2>1, <2>2
<1>9. Abstract!Signed(ValueOf(a)) = ValueOf(Flip(a)) - half
  <2> HIDE DEF half, low
  <2> QED
    BY <1>2, <1>3, <1>7, <1>8 DEF Abstract!Signed
<1> QED
  BY <1>5, <1>9 DEF t

\* One word is below another, both signed, exactly if it is as a number.
LEMMA LessIsSigned ==
  ASSUME NEW a \in SUBSET Bits, NEW b \in SUBSET Bits
  PROVE  /\ Less(a, b) <=>
              Abstract!Signed(ValueOf(a)) < Abstract!Signed(ValueOf(b))
         /\ Less(a, b) \/ Less(b, a) \/ ValueOf(a) = ValueOf(b)
         /\ ~(Less(a, b) /\ Less(b, a))
<1> DEFINE f(x) == ValueOf(Flip(x))
           half == Pow2[Width - 1]
<1>1. f(a) \in Nat /\ f(b) \in Nat /\ half \in Nat
  <2>1. Width - 1 \in Nat
    BY WidthIs
  <2> QED
    BY <2>1, ValueType, Pow2Type
<1>2. /\ Abstract!Signed(ValueOf(a)) = f(a) - half
      /\ Abstract!Signed(ValueOf(b)) = f(b) - half
  BY FlipIs
<1>3. /\ Less(a, b) <=> f(a) < f(b)
      /\ Less(b, a) <=> f(b) < f(a)
  BY FlipIs, ULessIsLess DEF Less
<1>4. f(a) = f(b) => ValueOf(a) = ValueOf(b)
  <2>1. ASSUME f(a) = f(b), NEW k \in 0 .. Width - 1, ~(k \in a <=> k \in b)
        PROVE  FALSE
    <3>1. ~(k \in Flip(a) <=> k \in Flip(b))
      BY <2>1 DEF Flip, Xor
    <3>2. \A z : ((NumberOf(z, Width) \div Pow2[k]) % 2 = 1) <=> k \in z
      BY <2>1, WidthIs, NumberBit
    <3>3. f(a) = f(b)
      BY <2>1
    <3> QED
      BY <3>1, <3>2, <3>3, WidthIs
  <2> QED
    BY <2>1, NumberAgrees, WidthIs
<1> HIDE DEF f, half
<1> QED
  BY <1>1, <1>2, <1>3, <1>4

\* The bitwise operations on sets are those on numbers.
LEMMA BitwiseIs ==
  ASSUME NEW a \in SUBSET Bits, NEW b \in SUBSET Bits
  PROVE  /\ ValueOf(Xor(a, b)) = Abstract!Modified("xor", ValueOf(a), ValueOf(b))
         /\ ValueOf(a \cup b) = Abstract!Modified("or", ValueOf(a), ValueOf(b))
         /\ ValueOf(a \cap b) = Abstract!Modified("and", ValueOf(a), ValueOf(b))
<1> DEFINE bit(x, i) == Abstract!Bit(ValueOf(x), i)
           P == 0 .. Width - 1
<1>1. ASSUME NEW x, NEW i \in P PROVE bit(x, i) <=> i \in x
  BY NumberBit, WidthIs, SameNumbers DEF Abstract!Bit
<1>2. Abstract!Places = P /\ \A x : Abstract!Of(x) = NumberOf(x, Width)
  BY SameNumbers DEF Abstract!Places, Abstract!Of
<1>3. \A i \in P : bit(a, i) \in BOOLEAN /\ bit(b, i) \in BOOLEAN
  BY DEF Abstract!Bit
<1> HIDE DEF bit
<1>4. NumberOf({i \in P : bit(a, i) # bit(b, i)}, Width) = ValueOf(Xor(a, b))
  <2>1. \A i \in P : i \in {j \in P : bit(a, j) # bit(b, j)} <=> i \in Xor(a, b)
    BY <1>1, <1>3 DEF Xor
  <2> QED
    BY <2>1, NumberAgrees, WidthIs
<1>5. NumberOf({i \in P : bit(a, i) \/ bit(b, i)}, Width) = ValueOf(a \cup b)
  <2>1. \A i \in P : i \in {j \in P : bit(a, j) \/ bit(b, j)} <=> i \in a \cup b
    BY <1>1
  <2> QED
    BY <2>1, NumberAgrees, WidthIs
<1>6. NumberOf({i \in P : bit(a, i) /\ bit(b, i)}, Width) = ValueOf(a \cap b)
  <2>1. \A i \in P : i \in {j \in P : bit(a, j) /\ bit(b, j)} <=> i \in a \cap b
    BY <1>1
  <2> QED
    BY <2>1, NumberAgrees, WidthIs
<1> QED
  BY <1>2, <1>4, <1>5, <1>6 DEF Abstract!Modified, bit

\* What an AMO stores is what arithmetic on numbers makes of the word it
\* reads and its operand.
LEMMA ModifiedIsArithmetic ==
  ASSUME NEW op \in AmoOps, NEW old \in SUBSET Bits, NEW x \in SUBSET Bits
  PROVE  ValueOf(Modified(op, old, x)) =
           Abstract!Modified(op, ValueOf(old), ValueOf(x))
<1>1. /\ ULess(old, x) <=> ValueOf(old) < ValueOf(x)
      /\ ULess(x, old) <=> ValueOf(x) < ValueOf(old)
      /\ ValueOf(old) \in Nat /\ ValueOf(x) \in Nat
  BY ULessIsLess, ValueType
<1>2. /\ Less(x, old) <=>
           Abstract!Signed(ValueOf(x)) < Abstract!Signed(ValueOf(old))
      /\ Less(old, x) <=>
           Abstract!Signed(ValueOf(old)) < Abstract!Signed(ValueOf(x))
      /\ Less(x, old) \/ Less(old, x) \/ ValueOf(x) = ValueOf(old)
      /\ ~(Less(x, old) /\ Less(old, x))
  BY LessIsSigned
<1>3. CASE op \in {"swap", "xor", "or", "and"}
  BY <1>3, BitwiseIs DEF Modified, Abstract!Modified
<1>4. CASE op = "add"
  BY <1>4, SumIsAddition, SameNumbers DEF Modified, Abstract!Modified
<1>5. CASE op = "min"
  BY <1>2, <1>5 DEF Modified, Abstract!Modified
<1>6. CASE op = "max"
  BY <1>2, <1>6 DEF Modified, Abstract!Modified
<1>7. CASE op = "minu"
  BY <1>1, <1>7 DEF Modified, Abstract!Modified, Abstract!Least
<1>8. CASE op = "maxu"
  BY <1>1, <1>8 DEF Modified, Abstract!Modified, Abstract!Greatest
<1> QED
  BY <1>3, <1>4, <1>5, <1>6, <1>7, <1>8 DEF AmoOps

-----------------------------------------------------------------------------
(* Bytes of words.                                                         *)

\* Where bytes begin and end.
LEMMA PlaceIs ==
  ASSUME NEW off \in 0 .. 4, NEW n \in 0 .. 4, off + n <= 4
  PROVE  /\ off * ByteBits \in 0 .. Width
         /\ n * ByteBits \in 0 .. Width - off * ByteBits
         /\ n * ByteBits \in Nat
         /\ Width - off * ByteBits \in Nat
         /\ off * ByteBits + n * ByteBits = (off + n) * ByteBits
<1>1. ByteBits \in Nat /\ off * ByteBits \in Nat /\ n * ByteBits \in Nat
  BY WidthIs
<1> DEFINE m == 4 - off - n
<1>2. m \in Nat /\ m * ByteBits \in Nat
  BY WidthIs
<1>3. Width = off * ByteBits + n * ByteBits + m * ByteBits
  <2>1. m * ByteBits = 4 * ByteBits - off * ByteBits - n * ByteBits
    BY WidthIs
  <2> QED
    BY <1>1, <2>1 DEF Width
<1>4. off * ByteBits + n * ByteBits = (off + n) * ByteBits
  BY WidthIs
<1> HIDE DEF m
<1> QED
  BY <1>1, <1>2, <1>3, <1>4

\* The bytes off .. off + n - 1 of a word.
LEMMA FieldIs ==
  ASSUME NEW w, NEW off \in 0 .. 3, NEW n \in 0 .. 4, off + n <= 4
  PROVE  (ValueOf(w) \div Abstract!Place(off)) % Abstract!Place(n) =
           NumberOf(Drop(w, off * ByteBits), n * ByteBits)
<1> DEFINE m == off * ByteBits
           k == n * ByteBits
           t == Width - m
<1>1. m \in 0 .. Width /\ k \in 0 .. t /\ t \in Nat /\ Width \in Nat
  BY PlaceIs, WidthIs
<1>2. Abstract!Place(off) = Pow2[m] /\ Abstract!Place(n) = Pow2[k]
  BY SameNumbers
<1>3. ValueOf(w) = NumberOf(w, Width)
  BY WidthIs
<1> HIDE DEF k, m
<1>4. NumberOf(w, Width) \div Pow2[m] = NumberOf(Drop(w, m), t)
  BY <1>1, NumberDivMod
<1> HIDE DEF t
<1>5. NumberOf(Drop(w, m), t) % Pow2[k] = NumberOf(Drop(w, m), k)
  BY <1>1, NumberDivMod
<1> QED
  BY <1>2, <1>3, <1>4, <1>5 DEF m, k

\* The byte a bit is in.
LEMMA BitInByte ==
  ASSUME NEW l \in 0 .. 3, NEW j \in 0 .. ByteBits - 1
  PROVE  /\ j + l * ByteBits \in Bits
         /\ (j + l * ByteBits) \div ByteBits = l
<1>1. ByteBits \in Nat \ {0} /\ l \in Nat /\ j \in Nat /\ j < ByteBits
  BY WidthIs
<1>2. (j + ByteBits * l) \div ByteBits = l
  BY <1>1, DivMod
<1>3. ByteBits * l = l * ByteBits
  BY <1>1
<1>4. /\ l * ByteBits \in 0 .. Width
      /\ 1 * ByteBits \in 0 .. Width - l * ByteBits
  <2>1. l \in 0 .. 4 /\ 1 \in 0 .. 4 /\ l + 1 <= 4
    OBVIOUS
  <2> QED
    BY <2>1, PlaceIs
<1>5. j + l * ByteBits \in 0 .. Width - 1
  <2> DEFINE m == l * ByteBits
  <2>1. m \in 0 .. Width /\ ByteBits \in 0 .. Width - m
    BY <1>1, <1>4
  <2> HIDE DEF m
  <2>2. j + m \in 0 .. Width - 1
    BY <1>1, <2>1, WidthIs
  <2> QED
    BY <2>2 DEF m
<1> DEFINE m == l * ByteBits
<1>6. (j + m) \div ByteBits = l /\ j + m \in 0 .. Width - 1
  <2> HIDE DEF m
  <2> QED
    BY <1>2, <1>3, <1>5 DEF m
<1> QED
  BY <1>6, WidthIs

\* A bit of a byte, from the place the byte begins at.
LEMMA ByteOfBit ==
  ASSUME NEW b \in Bits, NEW l \in 0 .. 3, b \div ByteBits = l
  PROVE  b - l * ByteBits \in 0 .. ByteBits - 1
<1>1. ByteBits \in Nat \ {0} /\ b \in Nat
  BY WidthIs
<1> DEFINE r == b % ByteBits
           q == b \div ByteBits
<1>2. b = ByteBits * q + r /\ r \in 0 .. ByteBits - 1
  BY <1>1
<1>3. q = l
  OBVIOUS
<1> HIDE DEF r, q
<1>4. ByteBits * l = l * ByteBits /\ l * ByteBits \in Int
  BY <1>1
<1> QED
  BY <1>1, <1>2, <1>3, <1>4

\* The bytes the abstract memory has of a word are those of its value.
LEMMA ByteIs ==
  ASSUME NEW w \in SUBSET Bits, NEW l \in 0 .. 3
  PROVE  /\ ValueOf(Shr(w \cap Mask({l}), l * ByteBits)) =
              NumberOf(Drop(w, l * ByteBits), ByteBits)
         /\ Abstract!Cut(ValueOf(w))[l] =
              NumberOf(Drop(w, l * ByteBits), ByteBits)
<1> DEFINE m == l * ByteBits
           s == Shr(w \cap Mask({l}), m)
<1>1. /\ ByteBits \in Nat \ {0} /\ ByteBits \in 0 .. Width /\ m \in Nat
      /\ Width \in Nat /\ 1 * ByteBits = ByteBits
  <2>1. l \in 0 .. 4 /\ 1 \in 0 .. 4 /\ l + 1 <= 4
    OBVIOUS
  <2>2. m \in 0 .. Width
    BY <2>1, PlaceIs
  <2> QED
    BY <2>2, WidthIs DEF Width
<1>2. ASSUME NEW i \in s PROVE i \in 0 .. ByteBits - 1 /\ i + m \in w
  <2>1. PICK b \in w \cap Mask({l}) : i = b - m
    BY DEF Shr
  <2>2. b \in Bits /\ b \div ByteBits = l /\ b \in Nat
    BY <2>1, WidthIs DEF Mask
  <2>3. i \in 0 .. ByteBits - 1
    BY <2>1, <2>2, ByteOfBit
  <2>4. i + m = b
    BY <1>1, <2>1, <2>2
  <2> QED
    BY <2>1, <2>3, <2>4
<1>3. ASSUME NEW i \in 0 .. ByteBits - 1, i + m \in w PROVE i \in s
  <2>1. i + m \in w \cap Mask({l})
    <3>1. i + m \in Bits /\ (i + m) \div ByteBits = l
      BY BitInByte
    <3> DEFINE b == i + m
    <3>0. b \in Bits /\ b \div ByteBits \in {l}
      BY <3>1
    <3> HIDE DEF b, m
    <3>2. b \in w /\ b \in Mask({l})
      BY <1>3, <3>0 DEF Mask, b
    <3> QED
      BY <3>2 DEF b
  <2>2. (i + m) - m = i /\ i \in Bits
    BY <1>1, WidthIs
  <2> QED
    BY <2>1, <2>2 DEF Shr
<1> HIDE DEF s
<1>4. NumberOf(s, Width) = NumberOf(s, ByteBits)
  <2>1. \A i \in ByteBits .. Width - 1 : i \notin s
    BY <1>1, <1>2
  <2> QED
    BY <1>1, <2>1, NumberShort
<1>5. NumberOf(s, ByteBits) = NumberOf(Drop(w, m), ByteBits)
  <2>1. \A i \in 0 .. ByteBits - 1 : i \in s <=> i \in Drop(w, m)
    BY <1>2, <1>3 DEF Drop
  <2> QED
    BY <1>1, <2>1, NumberAgrees
<1>6. Abstract!Cut(ValueOf(w))[l] = NumberOf(Drop(w, m), ByteBits)
  <2>1. (ValueOf(w) \div Abstract!Place(l)) % Abstract!Place(1) =
          NumberOf(Drop(w, m), 1 * ByteBits)
    BY FieldIs
  <2> QED
    BY <1>1, <2>1 DEF Abstract!Cut
<1> QED
  BY <1>4, <1>5, <1>6, WidthIs DEF s

\* The value of a word is that of its bytes.
LEMMA JoinIs ==
  ASSUME NEW w \in SUBSET Bits
  PROVE  Abstract!Join(Abstract!Cut(ValueOf(w))) = ValueOf(w)
<1> DEFINE B == ByteBits
           d(l) == NumberOf(Drop(w, l * B), B)
           low(l) == NumberOf(w, l * B)
           place(l) == Pow2[l * B]
<1>1. B \in Nat \ {0} /\ \A l \in 0 .. 3 : l * B \in Nat
  BY WidthIs
<1>2. \A l \in 0 .. 3 : Abstract!Cut(ValueOf(w))[l] = d(l)
  BY ByteIs
<1>3. \A l \in 0 .. 3 : d(l) \in Nat /\ place(l) \in Nat /\ low(l) \in Nat
  <2>1. \A l \in 0 .. 3 : d(l) \in Nat /\ low(l) \in Nat
    BY <1>1, NumberIs
  <2>2. \A l \in 0 .. 3 : place(l) \in Nat
    BY <1>1, Pow2Type
  <2> QED
    BY <2>1, <2>2
<1>4. ASSUME NEW l \in 0 .. 3
      PROVE  low(l + 1) = low(l) + place(l) * d(l)
  <2>1. (l + 1) * B = l * B + B
    BY <1>1
  <2>2. NumberOf(w, l * B + B) =
          NumberOf(w, l * B) + Pow2[l * B] * NumberOf(Drop(w, l * B), B)
    BY <1>1, NumberSplit
  <2> QED
    BY <2>1, <2>2
<1>5. low(0) = 0 /\ place(0) = 1 /\ low(4) = ValueOf(w)
  <2>1. 0 * B = 0 /\ 4 * B = Width
    BY <1>1 DEF Width
  <2> QED
    BY <2>1, NumberIs, Pow2Is, WidthIs
<1> HIDE DEF d, low, place
<1>6. ValueOf(w) = d(0) + place(1) * d(1) + place(2) * d(2) + place(3) * d(3)
  <2>1. low(0 + 1) = low(0) + place(0) * d(0)
    BY <1>4
  <2>2. low(1 + 1) = low(1) + place(1) * d(1)
    BY <1>4
  <2>3. low(2 + 1) = low(2) + place(2) * d(2)
    BY <1>4
  <2>4. low(3 + 1) = low(3) + place(3) * d(3)
    BY <1>4
  <2>5. /\ d(0) \in Nat /\ place(1) * d(1) \in Nat
        /\ place(2) * d(2) \in Nat /\ place(3) * d(3) \in Nat
    BY <1>3
  <2>6. place(0) * d(0) = d(0)
    BY <1>5, <2>5
  <2> QED
    BY <1>5, <2>1, <2>2, <2>3, <2>4, <2>5, <2>6
<1>7. \A l \in 0 .. 3 : Abstract!Place(l) = place(l)
  BY SameNumbers DEF place
<1> QED
  BY <1>2, <1>6, <1>7 DEF Abstract!Join

\* Where a well-placed access of size bytes lies in its word.
Placed(off, size) == off \in 0 .. 3 /\ size \in {1, 2, 4} /\ off % size = 0

\* Such an access ends within its word.
LEMMA PlacedIs ==
  ASSUME NEW off, NEW size, Placed(off, size)
  PROVE  off \in 0 .. 3 /\ off \in 0 .. 4 /\ size \in 1 .. 4 /\ off + size <= 4
<1>1. CASE size = 1
  BY <1>1 DEF Placed
<1>2. CASE size = 2
  BY <1>2 DEF Placed
<1>3. CASE size = 4
  BY <1>3 DEF Placed
<1> QED
  BY <1>1, <1>2, <1>3 DEF Placed

\* A load returns the field of the word, as it is or with its sign extended.
LEMMA LoadIs ==
  ASSUME NEW w \in SUBSET Bits, NEW off, NEW size, Placed(off, size),
         NEW signed \in BOOLEAN
  PROVE  LET x == Abstract!Field(Abstract!Cut(ValueOf(w)), off, size)
         IN ValueOf(Loaded(w, off, size, signed)) =
              IF signed THEN Abstract!Extended(x, size) ELSE x
<1> DEFINE m == off * ByteBits
           n == size * ByteBits
           t == n - 1
           r == Width - n
           D == Drop(w, m)
           x == NumberOf(D, n)
           sign == signed /\ t \in D
           z == Loaded(w, off, size, signed)
           top == NumberOf(Drop(z, n), r)
<1>1. off \in 0 .. 3 /\ off \in 0 .. 4 /\ size \in 1 .. 4 /\ off + size <= 4
  BY PlacedIs
<1>2. /\ m \in 0 .. Width /\ n \in 0 .. Width - m /\ n \in Nat /\ m \in Nat
      /\ Width \in Nat
  BY <1>1, PlaceIs, WidthIs
<1>3. n >= 1 /\ ByteBits \in Nat
  BY <1>1, WidthIs
<1>4. /\ t \in Nat /\ t + 1 = n /\ r \in Nat /\ n + r = Width
      /\ n \in 0 .. Width
  <2> HIDE DEF n, m
  <2> QED
    BY <1>2, <1>3
<1>5. Abstract!Field(Abstract!Cut(ValueOf(w)), off, size) = x
  BY <1>1, JoinIs, FieldIs DEF Abstract!Field
<1>6. \A i \in 0 .. Width - 1 : i \in Shr(w, m) <=> i \in D
  <2>1. ASSUME NEW i \in 0 .. Width - 1, i \in Shr(w, m) PROVE i \in D
    <3>1. PICK b \in w : i = b - m
      BY <2>1 DEF Shr
    <3>2. b \in Nat /\ i + m = b
      <4> HIDE DEF m
      <4> QED
        BY <1>2, <3>1, WidthIs
    <3> QED
      BY <3>1, <3>2 DEF Drop
  <2>2. ASSUME NEW i \in 0 .. Width - 1, i \in D PROVE i \in Shr(w, m)
    <3>1. i + m \in w
      BY <2>2 DEF Drop
    <3>2. (i + m) - m = i /\ i \in Bits
      <4> HIDE DEF m
      <4> QED
        BY <1>2, WidthIs
    <3> QED
      BY <3>1, <3>2 DEF Shr
  <2> QED
    BY <2>1, <2>2
<1> HIDE DEF m, n, D, t, r
<1>7. \A i \in 0 .. n - 1 : i \in z <=> i \in D
  <2>1. \A i \in 0 .. n - 1 : i \in 0 .. Width - 1 /\ i \notin n .. Width - 1
    BY <1>2, <1>4
  <2>2. z = (Shr(w, m) \cap 0 .. n - 1) \cup
              (IF signed /\ n - 1 \in Shr(w, m) THEN n .. Width - 1 ELSE {})
    BY DEF Loaded, m, n, Width
  <2> HIDE DEF z
  <2> QED
    BY <1>6, <2>1, <2>2
<1>8. \A i \in n .. Width - 1 : i \in z <=> sign
  <2>1. t \in 0 .. Width - 1 /\ n - 1 = t
    BY <1>4
  <2>2. z = (Shr(w, m) \cap 0 .. n - 1) \cup
              (IF signed /\ n - 1 \in Shr(w, m) THEN n .. Width - 1 ELSE {})
    BY DEF Loaded, m, n, Width
  <2>3. \A i \in n .. Width - 1 : i \notin 0 .. n - 1
    BY <1>4
  <2> HIDE DEF z
  <2> QED
    BY <1>6, <2>1, <2>2, <2>3
<1> HIDE DEF z
<1>9. ValueOf(z) = x + Pow2[n] * top
  <2>1. NumberOf(z, n + r) = NumberOf(z, n) + Pow2[n] * NumberOf(Drop(z, n), r)
    BY <1>2, <1>4, NumberSplit
  <2>2. NumberOf(z, n) = x
    BY <1>2, <1>7, NumberAgrees
  <2> QED
    BY <1>4, <2>1, <2>2, WidthIs
<1>10. \A i \in 0 .. r - 1 : i \in Drop(z, n) <=> sign
  <2>1. \A i \in 0 .. r - 1 : i \in Nat /\ i + n \in n .. Width - 1
    BY <1>2, <1>4
  <2> HIDE DEF sign
  <2> QED
    BY <1>8, <2>1 DEF Drop
<1>11. /\ x \in Nat /\ Pow2[n] \in Nat /\ Pow2[t] \in Nat \ {0}
       /\ Pow2[r] \in Nat /\ Pow2[n] = 2 * Pow2[t]
       /\ Pow2[Width] = Pow2[n] * Pow2[r]
  BY <1>2, <1>4, NumberIs, Pow2Type, Pow2Next, Pow2Plus
<1>12. CASE ~sign
  <2>1. top = 0
    BY <1>4, <1>10, <1>12, NumberNone
  <2>2. ValueOf(z) = x
    <3> HIDE DEF x, top
    <3> QED
      BY <1>9, <1>11, <2>1
  <2>3. signed => x < Pow2[t]
    BY <1>4, <1>11, <1>12, NumberTop
  <2>4. signed => Abstract!Extended(x, size) = x
    <3>1. Abstract!Place(size) = Pow2[n]
      BY SameNumbers DEF n
    <3>2. Pow2[n] \div 2 = Pow2[t]
      BY <1>11
    <3>3. ASSUME signed PROVE ~(x >= Pow2[n] \div 2)
      <4> HIDE DEF x
      <4> QED
        BY <1>11, <2>3, <3>2, <3>3
    <3> QED
      BY <3>1, <3>3 DEF Abstract!Extended
  <2> QED
    BY <1>5, <2>2, <2>4 DEF z
<1>13. CASE sign
  <2>1. top = Pow2[r] - 1
    BY <1>4, <1>10, <1>13, NumberFull
  <2>2. ValueOf(z) = x + (Pow2[Width] - Pow2[n])
    <3>1. Pow2[n] * (Pow2[r] - 1) = Pow2[n] * Pow2[r] - Pow2[n]
      BY <1>11
    <3> HIDE DEF x, top
    <3> QED
      BY <1>9, <1>11, <2>1, <3>1
  <2>3. x >= Pow2[t]
    BY <1>4, <1>11, <1>13, NumberTop
  <2>4. Abstract!Extended(x, size) = Pow2[Width] - Pow2[n] + x
    <3>1. Abstract!Place(size) = Pow2[n] /\ Abstract!Size = Pow2[Width]
      BY SameNumbers DEF n
    <3>2. Pow2[n] \div 2 = Pow2[t]
      BY <1>11
    <3> HIDE DEF x
    <3> QED
      BY <2>3, <3>1, <3>2 DEF Abstract!Extended
  <2>5. Pow2[Width] \in Nat
    BY <1>2, Pow2Type
  <2>6. Abstract!Extended(x, size) = ValueOf(z)
    <3> HIDE DEF x
    <3> QED
      BY <1>11, <2>2, <2>4, <2>5
  <2> QED
    BY <1>5, <1>13, <2>6 DEF z
<1> QED
  BY <1>12, <1>13

\* A store replaces the bytes of its strobe, by those of the register, and
\* no other.
LEMMA StoreIs ==
  ASSUME NEW w \in SUBSET Bits, NEW x \in SUBSET Bits,
         NEW off, NEW size, Placed(off, size), NEW l \in 0 .. 3
  PROVE  Abstract!Cut(ValueOf(Merged(w, off, size, x)))[l] =
           IF l \in off .. off + size - 1
             THEN Abstract!Cut(ValueOf(x))[l - off]
             ELSE Abstract!Cut(ValueOf(w))[l]
<1> DEFINE B == ByteBits
           m == off * B
           n == size * B
           k == l * B
           S == Strobe(off, size)
           z == Merged(w, off, size, x)
           wdata == Shl(x \cap 0 .. n - 1, m)
<1>1. off \in 0 .. 3 /\ off \in 0 .. 4 /\ size \in 1 .. 4 /\ off + size <= 4
  BY PlacedIs
<1>2. m \in Nat /\ n \in Nat /\ k \in Nat /\ B \in Nat \ {0}
  BY <1>1, WidthIs
<1>3. z \in SUBSET Bits
  BY <1>1 DEF Merged, Mask
<1>4. l \in S <=> l \in off .. off + size - 1
  <2>1. ASSUME l \in off .. off + size - 1 PROVE l \in S
    <3>1. l - off \in 0 .. size - 1 /\ (l - off) + off = l
      BY <1>1, <2>1
    <3> QED
      BY <3>1 DEF Strobe
  <2>2. ASSUME l \in S PROVE l \in off .. off + size - 1
    <3>1. PICK j \in 0 .. size - 1 : l = j + off
      BY <2>2 DEF Strobe
    <3> QED
      BY <1>1, <3>1
  <2> QED
    BY <2>1, <2>2
<1>5. ASSUME NEW j \in 0 .. B - 1
      PROVE  /\ l \in S => (j + k \in z <=> j + k \in wdata)
             /\ l \notin S => (j + k \in z <=> j + k \in w)
  <2>1. j + k \in Bits /\ (j + k) \div B = l
    BY BitInByte
  <2>2. j + k \in Mask(S) <=> l \in S
    <3> DEFINE b == j + k
    <3>1. b \in Bits /\ b \div B = l
      BY <2>1
    <3> HIDE DEF b, S
    <3>2. b \in Mask(S) <=> l \in S
      BY <3>1 DEF Mask
    <3> QED
      BY <3>2 DEF b
  <2>3. z = (Mask(S) \cap wdata) \cup (w \ Mask(S))
    BY DEF Merged
  <2> HIDE DEF z, S, wdata, k
  <2> QED
    BY <2>2, <2>3
<1>6. CASE l \in S
  <2> DEFINE q == l - off
             p == q * B
  <2>1. q \in 0 .. 3 /\ q \in 0 .. size - 1 /\ q + off = l
    BY <1>1, <1>4, <1>6
  <2>2. p \in Nat /\ k = p + m /\ n = p + B + (size - 1 - q) * B
    BY <1>1, <1>2, <2>1
  <2>3. (size - 1 - q) * B \in Nat
    BY <1>1, <1>2, <2>1
  <2>4. p + B <= n
    <3> DEFINE rest == (size - 1 - q) * B
    <3> HIDE DEF p, n, rest
    <3> QED
      BY <1>2, <2>2, <2>3 DEF rest
  <2> HIDE DEF p, q, n, m, k
  <2>5. ASSUME NEW j \in 0 .. B - 1
        PROVE  j + k \in wdata <=> j + p \in x
    <3>1. j + p \in 0 .. n - 1 /\ (j + p) + m = j + k /\ j + k \in Bits
      <4>1. j + k \in Bits
        BY BitInByte DEF k
      <4> QED
        BY <1>2, <2>2, <2>4, <4>1
    <3>2. ASSUME j + p \in x PROVE j + k \in wdata
      BY <3>1, <3>2 DEF Shl
    <3>3. ASSUME j + k \in wdata PROVE j + p \in x
      <4>1. PICK b \in x \cap 0 .. n - 1 : j + k = b + m
        BY <3>3 DEF Shl
      <4>2. b = j + p
        BY <1>2, <2>2, <3>1, <4>1
      <4> QED
        BY <4>1, <4>2
    <3> QED
      BY <3>2, <3>3
  <2>6. \A j \in 0 .. B - 1 : j \in Drop(z, k) <=> j \in Drop(x, p)
    <3> HIDE DEF z, S, wdata
    <3> QED
      BY <1>2, <1>5, <1>6, <2>5 DEF Drop
  <2>7. NumberOf(Drop(z, k), B) = NumberOf(Drop(x, p), B)
    BY <1>2, <2>6, NumberAgrees
  <2>8. /\ Abstract!Cut(ValueOf(z))[l] = NumberOf(Drop(z, k), B)
        /\ Abstract!Cut(ValueOf(x))[q] = NumberOf(Drop(x, p), B)
    BY <1>3, <2>1, ByteIs DEF k, p
  <2> QED
    BY <1>4, <1>6, <2>7, <2>8 DEF q
<1>7. CASE l \notin S
  <2>1. \A j \in 0 .. B - 1 : j \in Drop(z, k) <=> j \in Drop(w, k)
    <3> HIDE DEF z, S, wdata, k
    <3> QED
      BY <1>2, <1>5, <1>7 DEF Drop
  <2>2. NumberOf(Drop(z, k), B) = NumberOf(Drop(w, k), B)
    <3> HIDE DEF z, k
    <3> QED
      BY <1>2, <2>1, NumberAgrees
  <2>3. /\ Abstract!Cut(ValueOf(z))[l] = NumberOf(Drop(z, k), B)
        /\ Abstract!Cut(ValueOf(w))[l] = NumberOf(Drop(w, k), B)
    BY <1>3, ByteIs
  <2> QED
    BY <1>4, <1>7, <2>2, <2>3
<1> QED
  BY <1>6, <1>7

-----------------------------------------------------------------------------
(* The memory of bytes.                                                    *)

\* The bytes of a memory of words.
BytesOf(m) == [p \in Words |-> Abstract!Cut(ValueOf(m[p]))]

\* The memory the refinement shows is that of the bytes of its words.
LEMMA BytesAre ==
  ASSUME NEW m \in [Words -> SUBSET Bits]
  PROVE  [p \in Words |-> [l \in 0 .. 3 |->
            ValueOf(Shr(m[p] \cap Mask({l}), l * ByteBits))]] = BytesOf(m)
<1> DEFINE byte(p, l) == ValueOf(Shr(m[p] \cap Mask({l}), l * ByteBits))
           cut(p) == Abstract!Cut(ValueOf(m[p]))
<1>1. \A p \in Words, l \in 0 .. 3 : byte(p, l) = cut(p)[l]
  BY ByteIs
<1>2. \A p \in Words : cut(p) = [l \in 0 .. 3 |-> cut(p)[l]]
  BY DEF Abstract!Cut
<1> HIDE DEF byte, cut
<1>3. \A p \in Words : [l \in 0 .. 3 |-> byte(p, l)] = cut(p)
  BY <1>1, <1>2
<1>4. [p \in Words |-> [l \in 0 .. 3 |-> byte(p, l)]] = [p \in Words |-> cut(p)]
  BY <1>3
<1> QED
  BY <1>4 DEF byte, cut, BytesOf

\* Each of them is a byte.
LEMMA BytesType ==
  ASSUME NEW m \in [Words -> SUBSET Bits]
  PROVE  BytesOf(m) \in [Words -> [0 .. 3 -> Abstract!Byte]]
<1>1. ASSUME NEW w \in SUBSET Bits, NEW l \in 0 .. 3
      PROVE  Abstract!Cut(ValueOf(w))[l] \in Abstract!Byte
  <2>1. Abstract!Place(1) = Pow2[ByteBits]
    <3>1. 1 * ByteBits = ByteBits
      BY WidthIs
    <3> QED
      BY <3>1, SameNumbers
  <2>2. /\ NumberOf(Drop(w, l * ByteBits), ByteBits) \in Nat
        /\ NumberOf(Drop(w, l * ByteBits), ByteBits) < Pow2[ByteBits]
        /\ Pow2[ByteBits] \in Nat
    BY WidthIs, NumberIs, NumberBelow, Pow2Type
  <2>3. Abstract!Cut(ValueOf(w))[l] = NumberOf(Drop(w, l * ByteBits), ByteBits)
    BY ByteIs
  <2> QED
    BY <2>1, <2>2, <2>3 DEF Abstract!Byte
<1>2. \A w \in SUBSET Bits :
        Abstract!Cut(ValueOf(w)) \in [0 .. 3 -> Abstract!Byte]
  <2>1. \A n : /\ DOMAIN Abstract!Cut(n) = 0 .. 3
               /\ Abstract!Cut(n) = [l \in 0 .. 3 |-> Abstract!Cut(n)[l]]
    BY DEF Abstract!Cut
  <2> QED
    BY <1>1, <2>1
<1> QED
  BY <1>2 DEF BytesOf

\* What a store makes of them, if it is not withheld.
LEMMA StoredBytes ==
  ASSUME NEW off, NEW size, Placed(off, size), NEW p \in Words,
         NEW x \in SUBSET Bits, mem \in [Words -> SUBSET Bits]
  PROVE  BytesOf(StoreData(p, off, size, x)) =
           IF Withheld(p) THEN BytesOf(mem)
           ELSE [BytesOf(mem) EXCEPT ![p] =
                   [l \in 0 .. 3 |-> IF l \in off .. off + size - 1
                                      THEN Abstract!Cut(ValueOf(x))[l - off]
                                      ELSE @[l]]]
<1> DEFINE w == mem[p]
           z == Merged(w, off, size, x)
           c(y) == Abstract!Cut(ValueOf(y))
<1>1. CASE Withheld(p)
  BY <1>1 DEF StoreData
<1>2. CASE ~Withheld(p)
  <2>1. \A l \in 0 .. 3 : c(z)[l] = IF l \in off .. off + size - 1
                                    THEN c(x)[l - off] ELSE c(w)[l]
    <3>1. w \in SUBSET Bits
      OBVIOUS
    <3> HIDE DEF w
    <3> QED
      BY <3>1, StoreIs
  <2>2. c(z) = [l \in 0 .. 3 |-> c(z)[l]]
    BY DEF Abstract!Cut
  <2> HIDE DEF c, z
  <2>3. c(z) = [l \in 0 .. 3 |-> IF l \in off .. off + size - 1
                                 THEN c(x)[l - off] ELSE c(w)[l]]
    BY <2>1, <2>2
  <2>4. StoreData(p, off, size, x) = [mem EXCEPT ![p] = z]
    BY <1>2 DEF StoreData, z
  <2>5. \A m : BytesOf(m) = [q \in Words |-> c(m[q])]
    BY DEF BytesOf, c
  <2>6. BytesOf(StoreData(p, off, size, x)) = [BytesOf(mem) EXCEPT ![p] = c(z)]
    <3>1. \A q \in Words :
            [mem EXCEPT ![p] = z][q] = IF q = p THEN z ELSE mem[q]
      OBVIOUS
    <3>2. BytesOf([mem EXCEPT ![p] = z]) =
            [q \in Words |-> IF q = p THEN c(z) ELSE c(mem[q])]
      BY <2>5, <3>1
    <3> QED
      BY <2>4, <2>5, <3>2
  <2>7. BytesOf(mem)[p] = c(w)
    BY <2>5
  <2> QED
    BY <1>2, <2>3, <2>6, <2>7 DEF c
<1> QED
  BY <1>1, <1>2
 
\* A word read whole is its value, whatever its sign.
LEMMA WholeIs ==
  ASSUME NEW w \in SUBSET Bits
  PROVE  LET x == Abstract!Field(Abstract!Cut(ValueOf(w)), 0, 4)
         IN x = ValueOf(w) /\ Abstract!Extended(x, 4) = ValueOf(w)
<1> DEFINE x == Abstract!Field(Abstract!Cut(ValueOf(w)), 0, 4)
           D == Drop(w, 0 * ByteBits)
<1>1. x = NumberOf(D, 4 * ByteBits)
  BY JoinIs, FieldIs DEF Abstract!Field
<1>2. \A i \in 0 .. Width - 1 : i \in D <=> i \in w
  <2>1. 0 * ByteBits = 0
    BY WidthIs
  <2>2. \A i \in 0 .. Width - 1 : i \in Nat /\ i + 0 = i
    OBVIOUS
  <2> QED
    BY <2>1, <2>2 DEF Drop
<1>3. x = ValueOf(w)
  <2> HIDE DEF D
  <2> QED
    BY <1>1, <1>2, NumberAgrees, WidthIs DEF Width
<1>4. Abstract!Extended(x, 4) = x
  <2>1. Abstract!Place(4) = Abstract!Size /\ Abstract!Size \in Nat /\ x \in Nat
    <3>1. Abstract!Size = Pow2[Width]
      BY SameNumbers
    <3> QED
      BY <1>3, <3>1, ValueType, WidthIs, Pow2Type DEF Abstract!Size
  <2>2. Abstract!Size - Abstract!Place(4) + x = x
    <3> HIDE DEF x
    <3> QED
      BY <2>1
  <2> QED
    BY <2>2 DEF Abstract!Extended
<1> QED
  BY <1>3, <1>4

\* What the refinement shows of an instruction carried out.
LEMMA DidIs ==
  ASSUME Typed, NEW i \in Program.insns, Executes(i), ~Misplaced(i)
  PROVE  LET d == [Did(i) EXCEPT !.x = ValueOf(@)] IN
         /\ d.op = i.op /\ d.word = PageOf(i) /\ PageOf(i) \in Words
         /\ d.off = i.off /\ d.size = i.size /\ d.signed = i.signed
         /\ d.x = ValueOf(i.x) /\ d.withheld = Withheld(PageOf(i))
         /\ i.op # "fetch" => Placed(i.off, i.size)
         /\ i.op \in {"lr", "sc"} \cup AmoOps => i.size = 4 /\ i.off = 0
         /\ i.x \in SUBSET Bits /\ i.signed \in BOOLEAN
<1>1. PageOf(i) \in Words
  BY DEF Executes
<1>2. /\ i.op \in Ops /\ i.off \in 0 .. 3 /\ i.size \in {1, 2, 4}
      /\ i.signed \in BOOLEAN /\ i.x \in SUBSET Bits
  BY InsnType
<1>3. Wellformed(i)
  BY ProgramType DEF Guest, Typed, TypeOK
<1>4. i.op # "fetch" => Placed(i.off, i.size)
  BY <1>2 DEF Misplaced, Placed
<1>5. i.op \in {"lr", "sc"} \cup AmoOps => i.size = 4 /\ i.off = 0
  <2>1. SUFFICES ASSUME i.op \in {"lr", "sc"} \cup AmoOps
                 PROVE  i.size = 4 /\ i.off = 0
    OBVIOUS
  <2>2. i.size = 4
    BY <1>3, <2>1 DEF Wellformed, AmoOps
  <2>3. i.off % 4 = 0
    BY <2>1, <2>2 DEF Misplaced, AmoOps
  <2> QED
    BY <1>2, <2>2, <2>3
<1> QED
  BY <1>1, <1>2, <1>4, <1>5 DEF Did

\* The variables of the abstract memory, in this state and the next.
Shown ==
  /\ [p \in Words |-> [l \in 0 .. 3 |->
       ValueOf(Shr(mem[p] \cap Mask({l}), l * ByteBits))]] = BytesOf(mem)
  /\ mem \in [Words -> SUBSET Bits]
  /\ rd \in SUBSET Bits

\* The abstract memory in this state,
LEMMA TypedShown == Typed => Shown
BY BytesAre DEF Typed, TypeOK, Shown

\* and in the next.
LEMMA TypedShownNext == Typed' => Shown'
<1>1. Typed' => mem' \in [Words -> SUBSET Bits] /\ rd' \in SUBSET Bits
  BY DEF Typed, TypeOK
<1> QED
  BY <1>1, BytesAre DEF Shown

\* What sc.w returns.
LEMMA SmallValues == ValueOf({}) = 0 /\ ValueOf({0}) = 1
<1>1. ValueOf({}) = 0
  BY WidthIs, NumberNone
<1>2. NumberOf({0}, Width) = NumberOf({0}, 1)
  <2>1. /\ 1 \in 0 .. Width /\ Width \in Nat
        /\ \A i \in 1 .. Width - 1 : i \notin {0}
    BY WidthIs
  <2> QED
    BY <2>1, NumberShort
<1>3. NumberOf({0}, 0 + 1) = NumberOf({0}, 0) + Pow2[0]
  BY NumberNext
<1> QED
  BY <1>1, <1>2, <1>3, NumberIs, Pow2Is, WidthIs

\* A step that executes nothing.
LEMMA NothingStep ==
  ASSUME done' = NotDone, UNCHANGED <<mem, rd>>
  PROVE  Abstract!Next
<1> DEFINE d == [done' EXCEPT !.x = ValueOf(@)]
<1>1. d.op = "none"
  BY DEF NotDone
<1>2. Abstract!Nothing(d)
  BY <1>1 DEF Abstract!Nothing
<1> QED
  BY <1>2 DEF Abstract!Next

\* Loads and lr.w read the bytes they name.
LEMMA LoadStep ==
  ASSUME Typed, Typed', NEW i \in Program.insns,
         Load(i) \/ LoadReserved(i)
  PROVE  Abstract!Next
<1> DEFINE d == [Did(i) EXCEPT !.x = ValueOf(@)]
           w == mem[PageOf(i)]
           x == Abstract!Field(Abstract!Cut(ValueOf(w)), i.off, i.size)
<1>0. Executes(i) /\ ~Misplaced(i) /\ done' = Did(i) /\ mem' = mem
  BY DEF Load, LoadReserved, Executes
<1>1. /\ d.op = i.op /\ d.word = PageOf(i) /\ PageOf(i) \in Words
      /\ d.off = i.off /\ d.size = i.size /\ d.signed = i.signed
      /\ i.op # "fetch" => Placed(i.off, i.size)
      /\ i.op \in {"lr", "sc"} \cup AmoOps => i.size = 4 /\ i.off = 0
      /\ i.signed \in BOOLEAN
  BY <1>0, DidIs
<1>2. /\ w \in SUBSET Bits /\ Shown
      /\ BytesOf(mem)[PageOf(i)] = Abstract!Cut(ValueOf(w))
  BY <1>1, TypedShown DEF Shown, BytesOf
<1>3. ValueOf(rd') = IF i.signed THEN Abstract!Extended(x, i.size) ELSE x
  <2>1. CASE Load(i)
    <3>1. Placed(i.off, i.size) /\ rd' = Loaded(w, i.off, i.size, i.signed)
      BY <1>1, <2>1 DEF Load
    <3> HIDE DEF w
    <3> QED
      BY <1>1, <1>2, <3>1, LoadIs
  <2>2. CASE LoadReserved(i)
    <3>1. i.off = 0 /\ i.size = 4 /\ rd' = w
      BY <1>1, <2>2 DEF LoadReserved
    <3> HIDE DEF w
    <3> QED
      BY <1>1, <1>2, <3>1, WholeIs
  <2> QED
    BY <2>1, <2>2
<1>4. i.op \in {"load", "lr"}
  BY DEF Load, LoadReserved
<1> HIDE DEF d
<1>5. Abstract!Load(d)
  BY <1>0, <1>1, <1>2, <1>3, <1>4 DEF Abstract!Load, Shown
<1>6. Abstract!Load([done' EXCEPT !.x = ValueOf(@)])
  BY <1>0, <1>5 DEF d
<1> QED
  BY <1>6 DEF Abstract!Next

\* The bytes a store leaves are those the abstract store leaves.
LEMMA WrittenIs ==
  ASSUME Typed, NEW i \in Program.insns, Executes(i), ~Misplaced(i),
         i.op \in {"store", "sc"},
         mem' = StoreData(PageOf(i), i.off, i.size, i.x)
  PROVE  LET d == [Did(i) EXCEPT !.x = ValueOf(@)]
         IN BytesOf(mem') = [BytesOf(mem) EXCEPT ![d.word] =
                               Abstract!Written(@, d)]
<1> DEFINE d == [Did(i) EXCEPT !.x = ValueOf(@)]
           p == PageOf(i)
           b == BytesOf(mem)
<1>1. /\ d.word = p /\ p \in Words /\ d.off = i.off /\ d.size = i.size
      /\ d.x = ValueOf(i.x) /\ d.withheld = Withheld(p)
      /\ Placed(i.off, i.size) /\ i.x \in SUBSET Bits
  BY DidIs
<1>2. b = [q \in Words |-> b[q]]
  BY DEF BytesOf
<1>3. mem \in [Words -> SUBSET Bits]
  BY TypedShown DEF Shown
<1>4. BytesOf(mem') =
        IF Withheld(p) THEN b
        ELSE [b EXCEPT ![p] =
                [l \in 0 .. 3 |-> IF l \in i.off .. i.off + i.size - 1
                                   THEN Abstract!Cut(ValueOf(i.x))[l - i.off]
                                   ELSE @[l]]]
  <2> HIDE DEF p
  <2>1. mem' = StoreData(p, i.off, i.size, i.x)
    BY DEF p
  <2> QED
    BY <1>1, <1>3, <2>1, StoredBytes
<1> HIDE DEF d, p, b
<1>5. Abstract!Written(b[p], d) =
        IF Withheld(p) THEN b[p]
        ELSE [l \in 0 .. 3 |-> IF l \in i.off .. i.off + i.size - 1
                                THEN Abstract!Cut(ValueOf(i.x))[l - i.off]
                                ELSE b[p][l]]
  BY <1>1 DEF Abstract!Written
<1>6. BytesOf(mem') = [b EXCEPT ![p] = Abstract!Written(b[p], d)]
  <2>1. CASE Withheld(p)
    <3>1. [b EXCEPT ![p] = b[p]] = b
      BY <1>2
    <3> QED
      BY <1>4, <1>5, <2>1, <3>1
  <2>2. CASE ~Withheld(p)
    BY <1>4, <1>5, <2>2
  <2> QED
    BY <2>1, <2>2
<1> QED
  BY <1>1, <1>6 DEF d, b, p

\* A store writes the bytes it names.
LEMMA StoreStep ==
  ASSUME Typed, Typed', NEW i \in Program.insns, Store(i)
  PROVE  Abstract!Next
<1> DEFINE d == [Did(i) EXCEPT !.x = ValueOf(@)]
<1>0. /\ Executes(i) /\ ~Misplaced(i) /\ done' = Did(i) /\ rd' = rd
      /\ i.op = "store" /\ mem' = StoreData(PageOf(i), i.off, i.size, i.x)
  BY DEF Store, Executes
<1>1. d.op = "store"
  BY <1>0, DidIs
<1>2. BytesOf(mem') = [BytesOf(mem) EXCEPT ![d.word] = Abstract!Written(@, d)]
  BY <1>0, WrittenIs
<1>3. Shown /\ Shown'
  BY TypedShown, TypedShownNext
<1> HIDE DEF d
<1>4. Abstract!Store(d)
  BY <1>0, <1>1, <1>2, <1>3 DEF Abstract!Store, Shown
<1>5. Abstract!Store([done' EXCEPT !.x = ValueOf(@)])
  BY <1>0, <1>4 DEF d
<1> QED
  BY <1>5 DEF Abstract!Next

\* sc.w writes its word or nothing.
LEMMA StoreConditionalStep ==
  ASSUME Typed, Typed', NEW i \in Program.insns, StoreConditional(i)
  PROVE  Abstract!Next
<1> DEFINE d == [Did(i) EXCEPT !.x = ValueOf(@)]
<1>0. /\ Executes(i) /\ ~Misplaced(i) /\ done' = Did(i) /\ i.op = "sc"
  BY DEF StoreConditional, Executes
<1>1. d.op = "sc" /\ i.off = 0 /\ i.size = 4
  BY <1>0, DidIs
<1>2. Shown /\ Shown'
  BY TypedShown, TypedShownNext
<1>3. \/ /\ rd' = {}
         /\ mem' = StoreData(PageOf(i), i.off, i.size, i.x)
      \/ rd' = {0} /\ mem' = mem
  BY <1>1 DEF StoreConditional
<1>4. CASE rd' = {} /\ mem' = StoreData(PageOf(i), i.off, i.size, i.x)
  <2>1. BytesOf(mem') = [BytesOf(mem) EXCEPT ![d.word] = Abstract!Written(@, d)]
    BY <1>0, <1>4, WrittenIs
  <2>2. ValueOf(rd') = 0
    BY <1>4, SmallValues
  <2> HIDE DEF d
  <2>3. Abstract!StoreConditional(d)
    BY <1>1, <1>2, <2>1, <2>2 DEF Abstract!StoreConditional, Shown
  <2>4. Abstract!StoreConditional([done' EXCEPT !.x = ValueOf(@)])
    BY <1>0, <2>3 DEF d
  <2> QED
    BY <2>4 DEF Abstract!Next
<1>5. CASE rd' = {0} /\ mem' = mem
  <2>1. ValueOf(rd') = 1
    BY <1>5, SmallValues
  <2> HIDE DEF d
  <2>2. Abstract!StoreConditional(d)
    BY <1>1, <1>5, <2>1 DEF Abstract!StoreConditional
  <2>3. Abstract!StoreConditional([done' EXCEPT !.x = ValueOf(@)])
    BY <1>0, <2>2 DEF d
  <2> QED
    BY <2>3 DEF Abstract!Next
<1> QED
  BY <1>3, <1>4, <1>5

\* An AMO reads its word and writes what arithmetic makes of it.
LEMMA AmoStep ==
  ASSUME Typed, Typed', NEW i \in Program.insns, Amo(i)
  PROVE  Abstract!Next
<1> DEFINE d == [Did(i) EXCEPT !.x = ValueOf(@)]
           p == PageOf(i)
           w == mem[p]
           b == BytesOf(mem)
           y == Modified(i.op, w, i.x)
<1>0. /\ Executes(i) /\ ~Misplaced(i) /\ done' = Did(i) /\ i.op \in AmoOps
      /\ rd' = w /\ mem' = StoreData(p, 0, 4, y)
  BY DEF Amo, Executes
<1>1. /\ d.op = i.op /\ d.word = p /\ p \in Words /\ d.x = ValueOf(i.x)
      /\ d.withheld = Withheld(p) /\ i.x \in SUBSET Bits
  BY <1>0, DidIs
<1>2. Shown /\ Shown'
  BY TypedShown, TypedShownNext
<1>3. mem \in [Words -> SUBSET Bits] /\ w \in SUBSET Bits
  BY <1>1, <1>2 DEF Shown
<1>4. /\ y \in SUBSET Bits
      /\ ValueOf(y) = Abstract!Modified(i.op, ValueOf(w), ValueOf(i.x))
  <2> HIDE DEF w
  <2> QED
    BY <1>0, <1>1, <1>3, BitsOfWords, ModifiedIsArithmetic
<1>5. b[p] = Abstract!Cut(ValueOf(w)) /\ Abstract!Join(b[p]) = ValueOf(w)
  BY <1>1, <1>3, JoinIs DEF BytesOf
<1>6. BytesOf(mem') = IF Withheld(p) THEN b
                      ELSE [b EXCEPT ![p] = Abstract!Cut(ValueOf(y))]
  <2>1. Placed(0, 4)
    BY DEF Placed
  <2> HIDE DEF y, p
  <2>2. BytesOf(mem') =
          IF Withheld(p) THEN b
          ELSE [b EXCEPT ![p] =
                  [l \in 0 .. 3 |-> IF l \in 0 .. 0 + 4 - 1
                                     THEN Abstract!Cut(ValueOf(y))[l - 0]
                                     ELSE @[l]]]
    BY <1>0, <1>1, <1>3, <1>4, <2>1, StoredBytes
  <2>3. [l \in 0 .. 3 |-> IF l \in 0 .. 0 + 4 - 1
                           THEN Abstract!Cut(ValueOf(y))[l - 0]
                           ELSE b[p][l]] = Abstract!Cut(ValueOf(y))
    <3>1. Abstract!Cut(ValueOf(y)) =
            [l \in 0 .. 3 |-> Abstract!Cut(ValueOf(y))[l]]
      BY DEF Abstract!Cut
    <3>2. \A l \in 0 .. 3 : l - 0 = l /\ l \in 0 .. 0 + 4 - 1
      OBVIOUS
    <3> QED
      BY <3>1, <3>2
  <2> HIDE DEF b
  <2> QED
    BY <2>2, <2>3
<1> HIDE DEF d, p, w, b, y
<1>7. BytesOf(mem') =
        IF d.withheld THEN b
        ELSE [b EXCEPT ![d.word] =
                Abstract!Cut(Abstract!Modified(d.op, Abstract!Join(@), d.x))]
  BY <1>1, <1>4, <1>5, <1>6
<1>8. ValueOf(rd') = Abstract!Join(b[d.word])
  BY <1>0, <1>1, <1>5
<1>9. d.op \in Abstract!AmoOps
  BY <1>0, <1>1 DEF AmoOps, Abstract!AmoOps
<1>10. Abstract!Amo(d)
  BY <1>2, <1>7, <1>8, <1>9 DEF Abstract!Amo, Shown, b
<1>11. Abstract!Amo([done' EXCEPT !.x = ValueOf(@)])
  BY <1>0, <1>10 DEF d
<1> QED
  BY <1>11 DEF Abstract!Next

\* A write from outside replaces a word.
LEMMA OutsideStep ==
  ASSUME Typed, Typed', NEW p \in Words, NEW x \in Program.outside,
         WriteFromOutside(p, x)
  PROVE  Abstract!Next
<1> DEFINE o == [NotDone EXCEPT !.op = "outside", !.word = p, !.x = x]
           d == [o EXCEPT !.x = ValueOf(@)]
<1>0. mem' = [mem EXCEPT ![p] = x] /\ done' = o /\ rd' = rd
  BY DEF WriteFromOutside, Between
<1>1. d.op = "outside" /\ d.word = p /\ d.x = ValueOf(x)
  BY DEF NotDone
<1>2. Shown /\ Shown'
  BY TypedShown, TypedShownNext
<1>3. BytesOf(mem') = [BytesOf(mem) EXCEPT ![p] = Abstract!Cut(ValueOf(x))]
  <2>1. \A q \in Words : mem'[q] = IF q = p THEN x ELSE mem[q]
    BY <1>0, <1>2 DEF Shown
  <2> QED
    BY <2>1 DEF BytesOf
<1> HIDE DEF d, o
<1>4. Abstract!WriteFromOutside(d)
  BY <1>0, <1>1, <1>2, <1>3 DEF Abstract!WriteFromOutside, Shown
<1>5. Abstract!WriteFromOutside([done' EXCEPT !.x = ValueOf(@)])
  BY <1>0, <1>4 DEF d
<1> QED
  BY <1>5 DEF Abstract!Next

\* It begins as a memory of bytes,
LEMMA InitBytes == Typed /\ Init => Abstract!Init
<1> SUFFICES ASSUME Typed, Init PROVE Abstract!Init
  OBVIOUS
<1>1. Shown /\ BytesOf(mem) \in [Words -> [0 .. 3 -> Abstract!Byte]]
  BY TypedShown, BytesType DEF Shown
<1>2. ValueOf(rd) = 0
  BY SmallValues DEF Init
<1>3. [done EXCEPT !.x = ValueOf(@)].op = "none"
  BY DEF Init, NotDone
<1> QED
  BY <1>1, <1>2, <1>3 DEF Abstract!Init, Shown

\* and each step is one of its steps, or none.
LEMMA StepBytes ==
  Typed /\ Typed' /\ [Next]_vars => [Abstract!Next]_(Abstract!vars)
<1> SUFFICES ASSUME Typed, Typed', [Next]_vars
             PROVE  Abstract!Next \/ UNCHANGED <<mem, rd, done>>
  BY DEF Abstract!vars
<1>1. CASE Access
  <2>1. PICK i \in Program.insns :
          \/ Fetch(i) \/ Load(i) \/ Store(i) \/ LoadReserved(i)
          \/ StoreConditional(i) \/ Amo(i) \/ Fault(i) \/ Exit(i)
    BY <1>1 DEF Access
  <2>2. CASE Fetch(i) \/ Fault(i) \/ Exit(i)
    BY <2>2, NothingStep DEF Fetch, Fault, Exit
  <2> QED
    BY <2>1, <2>2, LoadStep, StoreStep, StoreConditionalStep, AmoStep
<1>2. ASSUME NEW p \in Words, NEW x \in Program.outside, WriteFromOutside(p, x)
      PROVE  Abstract!Next
  BY <1>2, OutsideStep
<1>3. ASSUME NEW c, Switch(c) PROVE Abstract!Next
  BY <1>3, NothingStep DEF Switch, Between
<1>4. ASSUME NEW t, Remap(t) PROVE Abstract!Next
  BY <1>4, NothingStep DEF Remap, Between
<1>5. ASSUME NEW b, SetDeviceEffects(b) PROVE Abstract!Next
  BY <1>5, NothingStep DEF SetDeviceEffects, Between
<1>6. CASE UNCHANGED vars
  BY <1>6 DEF vars
<1> QED
  BY <1>1, <1>2, <1>3, <1>4, <1>5, <1>6 DEF Next

\* For every width of a byte, every set of windows and every program: loads
\* of each width with or without sign, stores under their strobes, lr.w, sc.w,
\* the nine AMOs and writes from outside do to the words what they would do
\* to a memory of bytes that are numbers.
THEOREM BytesAreAccurate == Spec => ByteAccurate
<1>1. Typed /\ Init => Abstract!Init
  BY InitBytes
<1>2. Typed /\ Typed' /\ [Next]_vars => [Abstract!Next]_(Abstract!vars)
  BY StepBytes
<1> QED
  BY <1>1, <1>2, TypedAlways, PTL DEF Spec, ByteAccurate, Abstract!Spec
=============================================================================
