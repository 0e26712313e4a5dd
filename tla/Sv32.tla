------------------------------- MODULE Sv32 -------------------------------
(***************************************************************************)
(* Address translation: va2pa(), and what it is meant to compute.          *)
(*                                                                         *)
(* A page is its number.  A table is a page of Entries page table entries, *)
(* 1024 in the code; a virtual page v is entry v \div Entries of the root  *)
(* and entry v % Entries of the table that one points to.  An entry holds  *)
(* 22 bits of page number where the simulator's addresses hold 20, so that *)
(* a page number is cut to the PhysPages there are (Frame).                *)
(***************************************************************************)
EXTENDS Integers

CONSTANTS
  Entries,     (* entries of a page table                                   *)
  PhysPages    (* pages of the physical address space                       *)

ASSUME Sv32Assumption ==
  /\ Entries \in Nat \ {0}
  /\ PhysPages \in Nat \ {0}
  /\ PhysPages % Entries = 0

\* Valid, readable, writable, executable, user, accessed, dirty.
Flags == {"V", "R", "W", "X", "U", "A", "D"}
PTE   == [flags : SUBSET Flags, ppn : Nat]

Kinds == {"fetch", "load", "store"}

\* What of the hart decides an access: its mode, the satp mode bit, and the
\* fields of mstatus.
Context == [priv : {0, 1, 3}, paged : BOOLEAN, mpp : 0 .. 3,
            bits : SUBSET {"MXR", "SUM", "MPRV"}]

\* No page: the walk fails.
NoPage == -1
-----------------------------------------------------------------------------
(* The walk of the code. *)

Frame(ppn) == ppn % PhysPages

\* A fetch is never checked with the privilege MPRV lends.
EffectivePriv(c, kind) ==
  IF kind # "fetch" /\ "MPRV" \in c.bits THEN c.mpp ELSE c.priv

Malformed(f) == "V" \notin f \/ ("R" \notin f /\ "W" \in f)

IsLeaf(f) == "R" \in f \/ "X" \in f

MxrLoad(c, f) == "MXR" \in c.bits /\ "X" \in f

Denied(c, f, kind) ==
  \/ kind = "fetch" /\ "X" \notin f
  \/ kind = "load" /\ "R" \notin f /\ ~MxrLoad(c, f)
  \/ kind = "store" /\ "W" \notin f
  \/ EffectivePriv(c, kind) = 0 /\ "U" \notin f
  \/ EffectivePriv(c, kind) = 1 /\ "U" \in f /\ "SUM" \notin c.bits
  \/ "A" \notin f
  \/ kind = "store" /\ "D" \notin f

\* Mutant: a superpage anywhere.
MisalignedNever(e) == FALSE

Misaligned(e) == e.ppn % Entries # 0

SuperpageWalk(c, e, v, kind) ==
  IF Denied(c, e.flags, kind) \/ Misaligned(e) THEN NoPage
  ELSE (Frame(e.ppn) \div Entries) * Entries + (v % Entries)

PageWalk(c, e, kind) ==
  IF Malformed(e.flags) \/ ~IsLeaf(e.flags) \/ Denied(c, e.flags, kind)
    THEN NoPage
    ELSE Frame(e.ppn)

\* tables maps the pages that hold tables to their entries.
va2pa(c, tables, root, v, kind) ==
  LET e == tables[root][v \div Entries] IN
    IF Malformed(e.flags) THEN NoPage
    ELSE IF IsLeaf(e.flags) THEN SuperpageWalk(c, e, v, kind)
    ELSE PageWalk(c, tables[Frame(e.ppn)][v % Entries], kind)

\* The callers translate in the modes below M only, whatever MPRV says.
Translates(c) == c.paged /\ c.priv # 3
-----------------------------------------------------------------------------
(* What the walk is meant to compute, by rights instead of by refusals: the
   accesses an entry grants, and the pages a virtual page may be mapped to. *)

\* Who may use the page: its own side, and the supervisor with SUM the other.
Admits(f, priv, sum) ==
  \/ priv = 0 /\ "U" \in f
  \/ priv = 1 /\ ("U" \notin f \/ sum)
  \/ priv \in {2, 3}

\* What the flags grant; readers of code need MXR, writers find it dirty.
Granted(f, mxr) ==
  IF ~({"V", "A"} \subseteq f) \/ ("W" \in f /\ "R" \notin f) THEN {}
  ELSE {k \in Kinds : \/ k = "fetch" /\ "X" \in f
                      \/ k = "load" /\ ("R" \in f \/ (mxr /\ "X" \in f))
                      \/ k = "store" /\ {"W", "D"} \subseteq f}

\* With MPRV, data is reached as the mode in MPP would reach it.
Rights(c, f) ==
  LET as(k) == IF k # "fetch" /\ "MPRV" \in c.bits THEN c.mpp ELSE c.priv
  IN {k \in Granted(f, "MXR" \in c.bits) :
        Admits(f, as(k), "SUM" \in c.bits)}

Pointer(e) == e.flags \cap {"V", "R", "W", "X"} = {"V"}

Mapped(tables, root, v) ==
  LET e == tables[root][v \div Entries] IN
    IF Pointer(e)
      THEN LET leaf == tables[Frame(e.ppn)][v % Entries] IN
             [flags |-> IF Pointer(leaf) THEN {} ELSE leaf.flags,
              page |-> Frame(leaf.ppn)]
      ELSE [flags |-> IF e.ppn % Entries = 0 THEN e.flags ELSE {},
            page |-> Frame(e.ppn) + (v % Entries)]

Reaches(c, tables, root, v, kind) ==
  LET m == Mapped(tables, root, v) IN
    IF kind \in Rights(c, m.flags) THEN m.page ELSE NoPage
=============================================================================
