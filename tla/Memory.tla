------------------------------ MODULE Memory ------------------------------
(***************************************************************************)
(* The memory accesses of the hart: loads and stores of every width, lr.w, *)
(* sc.w and the AMOs, through address translation, on RAM and on the words *)
(* of boot IO, which have no device behind them.  An action is one         *)
(* instruction, from its address to the last thing it writes.              *)
(*                                                                         *)
(* A word is the set of its bits that are 1, and a page holds one word; a  *)
(* byte has ByteBits bits, 8 in the code.  Masks and shifts are those of   *)
(* the code, on sets.  A physical page is a word of memory or outside all  *)
(* windows.  Page tables are entries, not words: storing to one is Remap,  *)
(* and a guest maps no page to a table.  What else the hart does between   *)
(* accesses (traps, returns, CSR writes) is Switch.  The registers are the *)
(* operands of the guest's instructions and rd, where the last result      *)
(* went.  Encodings that are no instruction are left out.                  *)
(*                                                                         *)
(* done and link are history variables: the instruction the last step      *)
(* executed, and the last lr.w no sc.w has followed, with whether a store  *)
(* to the first byte of its word has.                                      *)
(***************************************************************************)
EXTENDS Sv32, Numerals

CONSTANTS
  Ram, Io,     (* the pages of RAM and of boot IO                           *)
  TablePages,  (* the pages that hold page tables                           *)
  Root,        (* the one of the root table                                 *)
  ByteBits,    (* bits of a byte                                            *)
  Guests       (* programs by name: see Guest                               *)

Words  == Ram \cup Io
Bits   == 0 .. 4 * ByteBits - 1
AmoOps == {"swap", "add", "xor", "or", "and", "min", "max", "minu", "maxu"}
Ops    == {"fetch", "load", "store", "lr", "sc"} \cup AmoOps

\* An instruction: where it goes, how wide it is, and its operand.
Insn == [op : Ops, v : Nat, off : 0 .. 3, size : {1, 2, 4},
         signed : BOOLEAN, x : SUBSET Bits]

\* The widths an opcode has.
Wellformed(i) == i.op \notin {"load", "store"} => i.size = 4

Tables == [TablePages -> [0 .. Entries - 1 -> PTE]]

\* What the root points to are tables.
Linked(t) == \A k \in 0 .. Entries - 1 :
               Pointer(t[Root][k]) => Frame(t[Root][k].ppn) \in TablePages

\* A program: its instructions, the contexts it may run in, the page tables
\* it may have, whether it keeps those it starts with, and what others write
\* to its memory.
Guest(g) ==
  /\ g.insns \subseteq {i \in Insn : Wellformed(i)}
  /\ g.contexts \subseteq Context
  /\ (\E c \in g.contexts : Translates(c)) =>
       \A i \in g.insns : i.v \in 0 .. Entries * Entries - 1
  /\ g.tables \subseteq {t \in Tables : Linked(t)}
  /\ g.steady \in BOOLEAN
  /\ g.outside \subseteq SUBSET Bits

ASSUME MemoryAssumption ==
  /\ Words \subseteq 0 .. PhysPages - 1
  /\ Ram \cap Io = {}
  /\ Root \in TablePages
  /\ ByteBits \in Nat \ {0}
  /\ \A g \in DOMAIN Guests : Guest(Guests[g])

VARIABLES
  guest,       (* the name of the program                                   *)
  ctx,         (* privilege, satp mode and the mstatus fields of Context    *)
  tables,      (* the page tables                                           *)
  mem,         (* [Words -> SUBSET Bits]                                    *)
  reserve,     (* state.reserve_valid and state.reserve_addr                *)
  effects,     (* device_effects_enable                                     *)
  is_io,       (* the step touched something that is not RAM                *)
  fault,       (* the page fault of the step, if any                        *)
  rd,          (* the result of the last instruction that has one           *)
  exited,      (* the process has given up                                  *)
  done, link

vars == <<guest, ctx, tables, mem, reserve, effects, is_io, fault, rd,
          exited, done, link>>

Program == Guests[guest]

Done == [op : Ops \cup {"none", "outside"}, word : Words \cup {NoPage},
         off : 0 .. 3, size : {1, 2, 4}, signed : BOOLEAN, x : SUBSET Bits,
         withheld : BOOLEAN]

NotDone == [op |-> "none", word |-> NoPage, off |-> 0, size |-> 4,
            signed |-> FALSE, x |-> {}, withheld |-> FALSE]

TypeOK ==
  /\ guest \in DOMAIN Guests
  /\ ctx \in Context
  /\ tables \in Tables
  /\ mem \in [Words -> SUBSET Bits]
  /\ reserve \in [valid : BOOLEAN, page : Words \cup {NoPage}]
  /\ effects \in BOOLEAN /\ is_io \in BOOLEAN /\ exited \in BOOLEAN
  /\ fault \in Kinds \cup {"none"}
  /\ rd \subseteq Bits
  /\ done \in Done
  /\ link \in [page : Words \cup {NoPage}, first : BOOLEAN]

Init ==
  /\ guest \in DOMAIN Guests
  /\ ctx \in Program.contexts
  /\ tables \in Program.tables
  /\ mem = [p \in Words |-> {}]
  /\ reserve = [valid |-> FALSE, page |-> NoPage]
  /\ effects = TRUE
  /\ is_io = FALSE
  /\ fault = "none"
  /\ rd = {}
  /\ exited = FALSE
  /\ done = NotDone
  /\ link = [page |-> NoPage, first |-> FALSE]
-----------------------------------------------------------------------------
(* Words of bits. *)

Shl(x, n) == {b + n : b \in x} \cap Bits
Shr(x, n) == {b - n : b \in x} \cap Bits

\* a + b: a bit is carried into i from the last place below that makes one,
\* if all between pass it on.
Carry(a, b, i) == \E j \in a \cap b : /\ j < i
                                      /\ (j + 1) .. (i - 1) \subseteq a \cup b
Xor(a, b) == (a \ b) \cup (b \ a)
Sum(a, b) == {i \in Bits : (i \in Xor(a, b)) # Carry(a, b, i)}

\* a < b, the numbers they are: the highest bit they differ in is b's.
ULess(a, b) == \E i \in b \ a : \A j \in Xor(a, b) : j <= i
Flip(a)     == Xor(a, {4 * ByteBits - 1})
Less(a, b)  == ULess(Flip(a), Flip(b))

\* The word an AMO stores, of the word it reads and its operand.
Modified(op, old, x) ==
  CASE op = "swap" -> x
    [] op = "add"  -> Sum(old, x)
    [] op = "xor"  -> Xor(old, x)
    [] op = "or"   -> old \cup x
    [] op = "and"  -> old \cap x
    [] op = "min"  -> IF Less(x, old) THEN x ELSE old
    [] op = "max"  -> IF Less(x, old) THEN old ELSE x
    [] op = "minu" -> IF ULess(old, x) THEN old ELSE x
    [] op = "maxu" -> IF ULess(x, old) THEN old ELSE x

\* What a load makes of the word its address is in.
Loaded(word, off, size, signed) ==
  LET data == Shr(word, off * ByteBits)
      n    == size * ByteBits
  IN (data \cap 0 .. n - 1)
     \cup (IF signed /\ n - 1 \in data THEN n .. 4 * ByteBits - 1 ELSE {})

\* Mutant: the strobe of the register, not of the word.
StrobeUnshifted(off, size) == 0 .. size - 1

\* What a store makes of the word: the bytes of the strobe are replaced.
Strobe(off, size) == {l + off : l \in 0 .. size - 1} \cap 0 .. 3
Mask(strobe)      == {b \in Bits : b \div ByteBits \in strobe}
Merged(word, off, size, x) ==
  LET mask  == Mask(Strobe(off, size))
      wdata == Shl(x \cap 0 .. size * ByteBits - 1, off * ByteBits)
  IN (mask \cap wdata) \cup (word \ mask)
-----------------------------------------------------------------------------
(* Addresses. *)

PageFor(i, kind) == IF Translates(ctx) THEN va2pa(ctx, tables, Root, i.v, kind)
                                       ELSE i.v

Fails(i, kind) == PageFor(i, kind) = NoPage

\* RV32A walks twice, as a load and as a store.
AmoFault(i) ==
  CASE i.op = "lr" -> IF Fails(i, "load") THEN "load" ELSE "none"
    [] i.op = "sc" -> IF Fails(i, "store") THEN "store" ELSE "none"
    [] OTHER -> IF Fails(i, "load") \/ Fails(i, "store") THEN "store"
                                                         ELSE "none"

IsAtomic(i) == i.op \in {"lr", "sc"} \cup AmoOps

FaultOf(i) == IF IsAtomic(i) THEN AmoFault(i)
              ELSE IF Fails(i, i.op) THEN i.op ELSE "none"

\* The page of an access that does not fault: of the second walk, if it
\* succeeded.
PageOf(i) == IF ~IsAtomic(i) THEN PageFor(i, i.op)
             ELSE IF Fails(i, "store") THEN PageFor(i, "load")
             ELSE PageFor(i, "store")

\* Loads and stores decide before they look at the fault, by the virtual
\* address if there is one; RV32A decides after; a fetch never does.
IoFlag(i) ==
  /\ i.op # "fetch"
  /\ IF FaultOf(i) = "none" THEN PageOf(i) \notin Ram
                            ELSE ~IsAtomic(i) /\ i.v \notin Ram

Misplaced(i) == i.op # "fetch" /\ i.off % i.size # 0

\* The instruction i is carried out, on a page the hart has.
Executes(i) ==
  /\ ~exited
  /\ ~Misplaced(i)
  /\ FaultOf(i) = "none"
  /\ PageOf(i) \in Words
  /\ is_io' = IoFlag(i)
  /\ fault' = "none"
  /\ UNCHANGED <<guest, ctx, tables, effects, exited>>

(* store_data(). *)
Withheld(p) == ~effects /\ p \notin Ram

StoreData(p, off, size, x) ==
  IF Withheld(p) THEN mem
  ELSE [mem EXCEPT ![p] = Merged(@, off, size, x)]

Reserved(p, off) == reserve.valid /\ off = 0 /\ reserve.page = p

\* Mutant: any store of the word.
ReleasedByWord(p, off) == IF reserve.valid /\ reserve.page = p
                            THEN [reserve EXCEPT !.valid = FALSE]
                            ELSE reserve

\* A store ends the reservation of exactly its own address.
Released(p, off) == IF Reserved(p, off) THEN [reserve EXCEPT !.valid = FALSE]
                                        ELSE reserve

Stored(p, off) == [link EXCEPT !.first = @ \/ (off = 0 /\ link.page = p)]

Did(i) == [op |-> i.op, word |-> PageOf(i), off |-> i.off, size |-> i.size,
           signed |-> i.signed, x |-> i.x, withheld |-> Withheld(PageOf(i))]
-----------------------------------------------------------------------------
Fetch(i) ==
  /\ i.op = "fetch"
  /\ Executes(i)
  /\ done' = NotDone
  /\ UNCHANGED <<mem, reserve, rd, link>>

Load(i) ==
  /\ i.op = "load"
  /\ Executes(i)
  /\ rd' = Loaded(mem[PageOf(i)], i.off, i.size, i.signed)
  /\ done' = Did(i)
  /\ UNCHANGED <<mem, reserve, link>>

Store(i) ==
  /\ i.op = "store"
  /\ Executes(i)
  /\ mem' = StoreData(PageOf(i), i.off, i.size, i.x)
  /\ reserve' = Released(PageOf(i), i.off)
  /\ link' = Stored(PageOf(i), i.off)
  /\ done' = Did(i)
  /\ UNCHANGED rd

LoadReserved(i) ==
  /\ i.op = "lr"
  /\ Executes(i)
  /\ rd' = mem[PageOf(i)]
  /\ reserve' = [valid |-> TRUE, page |-> PageOf(i)]
  /\ link' = [page |-> PageOf(i), first |-> FALSE]
  /\ done' = Did(i)
  /\ UNCHANGED mem

\* rd is 0 for success.
StoreConditional(i) ==
  /\ i.op = "sc"
  /\ Executes(i)
  /\ IF Reserved(PageOf(i), 0)
       THEN /\ rd' = {}
            /\ mem' = StoreData(PageOf(i), 0, 4, i.x)
       ELSE /\ rd' = {0}
            /\ UNCHANGED mem
  /\ reserve' = [reserve EXCEPT !.valid = FALSE]
  /\ link' = [page |-> NoPage, first |-> FALSE]
  /\ done' = Did(i)

\* The word goes to rd even when its store is withheld.
Amo(i) ==
  /\ i.op \in AmoOps
  /\ Executes(i)
  /\ rd' = mem[PageOf(i)]
  /\ mem' = StoreData(PageOf(i), 0, 4, Modified(i.op, mem[PageOf(i)], i.x))
  /\ reserve' = Released(PageOf(i), 0)
  /\ link' = Stored(PageOf(i), 0)
  /\ done' = Did(i)

\* The access traps; only flags change.
Fault(i) ==
  /\ ~exited
  /\ ~Misplaced(i)
  /\ FaultOf(i) # "none"
  /\ fault' = FaultOf(i)
  /\ is_io' = IoFlag(i)
  /\ done' = NotDone
  /\ UNCHANGED <<guest, ctx, tables, mem, reserve, effects, rd, exited, link>>

\* A misaligned access, or one outside every window, ends the process.
Exit(i) ==
  /\ ~exited
  /\ Misplaced(i) \/ (FaultOf(i) = "none" /\ PageOf(i) \notin Words)
  /\ exited' = TRUE
  /\ done' = NotDone
  /\ UNCHANGED <<guest, ctx, tables, mem, reserve, effects, is_io, fault, rd,
                 link>>

Access == \E i \in Program.insns :
            \/ Fetch(i) \/ Load(i) \/ Store(i) \/ LoadReserved(i)
            \/ StoreConditional(i) \/ Amo(i) \/ Fault(i) \/ Exit(i)

Between == /\ ~exited
           /\ is_io' = FALSE /\ fault' = "none"
           /\ UNCHANGED <<guest, reserve, rd, exited, link>>

\* Traps, returns and CSR writes, none of which end a reservation.
Switch(c) ==
  /\ Between
  /\ ctx' = c
  /\ done' = NotDone
  /\ UNCHANGED <<tables, mem, effects>>

\* The guest has rewritten its page tables.
Remap(t) ==
  /\ Between
  /\ tables' = t
  /\ done' = NotDone
  /\ UNCHANGED <<ctx, mem, effects>>

\* A transfer of the SD controller, a word of it, or a write by the program
\* that embeds the simulator: both go past store_data().
WriteFromOutside(p, x) ==
  /\ Between
  /\ mem' = [mem EXCEPT ![p] = x]
  /\ done' = [NotDone EXCEPT !.op = "outside", !.word = p, !.x = x]
  /\ UNCHANGED <<ctx, tables, effects>>

SetDeviceEffects(b) ==
  /\ Between
  /\ effects' = b
  /\ done' = NotDone
  /\ UNCHANGED <<ctx, tables, mem>>

Next ==
  \/ Access
  \/ ~Program.steady /\ \E c \in Program.contexts : Switch(c)
  \/ ~Program.steady /\ \E t \in Program.tables : Remap(t)
  \/ \E p \in Words, x \in Program.outside : WriteFromOutside(p, x)
  \/ Io # {} /\ \E b \in BOOLEAN : SetDeviceEffects(b)

Spec == Init /\ [][Next]_vars
-----------------------------------------------------------------------------
(* Properties. *)

\* What the access i asks of the page: AMOs and sc.w are stores, lr.w a load.
Need(i) == CASE i.op \in {"fetch", "load", "store"} -> i.op
             [] i.op = "lr" -> "load"
             [] OTHER -> "store"

\* Every access, in every mode and under every page table, is let through
\* exactly when the flags of the page it is mapped to give its privilege the
\* right it needs, goes to that page, and is otherwise reported as a fault of
\* that kind: va2pa() with its refusals one by one, the two walks of RV32A.
AccessesAsGranted ==
  Translates(ctx) =>
    \A i \in Program.insns :
      LET page == Reaches(ctx, tables, Root, i.v, Need(i)) IN
        IF page = NoPage THEN FaultOf(i) = Need(i)
        ELSE FaultOf(i) = "none" /\ PageOf(i) = page

\* sc.w writes, and says so, exactly when the last lr.w was of this very
\* word, under whatever virtual address, no sc.w has come since, and no store
\* or AMO to its first byte: traps, new page tables, stores to the other
\* bytes and writes from outside leave a reservation alone.
ScOutcome ==
  [][done'.op = "sc" =>
       (rd' = {}) = (link.page = done'.word /\ ~link.first)]_vars

\* The same memory as bytes that are numbers.
ValueOf(x) == NumberOf(x, 4 * ByteBits)

Abstract == INSTANCE ByteMemory WITH
  bytes <- [p \in Words |->
              [l \in 0 .. 3 |->
                 ValueOf(Shr(mem[p] \cap Mask({l}), l * ByteBits))]],
  rd    <- ValueOf(rd),
  done  <- [done EXCEPT !.x = ValueOf(@)]

\* Strobes, masks, shifts, sign extension and the AMOs on words do what a
\* memory of bytes and arithmetic on numbers would.
ByteAccurate == Abstract!Spec
=============================================================================
