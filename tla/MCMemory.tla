----------------------------- MODULE MCMemory -----------------------------
(* Instances of Memory for TLC: two pages of RAM (2, 3), one of boot IO (4)
   and the tables (root 8, leaf 9) of a space of 16 pages, two per table. *)
EXTENDS Memory, TLC

At(op, v)      == [op |-> op, v |-> v, off |-> 0, size |-> 4,
                   signed |-> FALSE, x |-> {}]
With(i, x)     == [i EXCEPT !.x = x]
Part(i, o, n)  == [i EXCEPT !.off = o, !.size = n]
AsSigned(i)    == [i EXCEPT !.signed = TRUE]

Bare == [priv |-> 3, paged |-> FALSE, mpp |-> 0, bits |-> {}]
User == [priv |-> 0, paged |-> TRUE, mpp |-> 0, bits |-> {}]

Entry(flags, ppn) == [flags |-> flags, ppn |-> ppn]
NoEntry == Entry({}, 0)
Pages(e, l0, l1) == 8 :> (0 :> e @@ 1 :> NoEntry) @@ 9 :> (0 :> l0 @@ 1 :> l1)
NoTables == Pages(NoEntry, NoEntry, NoEntry)

\* Every access of virtual page 1, in every context, under every superpage
\* (aligned, misaligned, above the space, nowhere) and every page.
SuperFlags == {f \in SUBSET Flags : Malformed(f) \/ IsLeaf(f)}
Contexts   == {c \in Context : c.priv # 3 /\ c.paged /\ c.mpp \in {0, 3}
                                 /\ (c.mpp = 3 => "MPRV" \in c.bits)}
Pager ==
  [insns    |-> {At(op, 1) : op \in {"fetch", "load", "store", "lr", "sc",
                                     "swap"}},
   contexts |-> Contexts,
   tables   |-> {Pages(Entry(f, 2), NoEntry, NoEntry) :
                   f \in SuperFlags}
                \cup {Pages(Entry({"V", "R", "W", "A", "D"}, n), NoEntry,
                            NoEntry) : n \in {3, 6, 18}}
                \cup {Pages(Entry({"V"}, 9), NoEntry, Entry(f, 3)) :
                        f \in SUBSET Flags},
   steady   |-> TRUE,
   outside  |-> {}]

\* All widths and operations on RAM, and on boot IO.
AllAmos(v, S) == {With(At(op, v), x) : op \in AmoOps, x \in S}
Worker(v, S) ==
  [insns    |-> {Part(At("load", v), o, n) : o \in 0 .. 3, n \in {1, 2, 4}}
                \cup {AsSigned(Part(At("load", v), o, n)) :
                        o \in {0, 1, 2}, n \in {1, 2}}
                \cup {With(Part(At("store", v), o, n), x) :
                        o \in 0 .. 3, n \in {1, 2}, x \in {{}, Bits}}
                \cup {With(At("store", v), x) : x \in S}
                \cup AllAmos(v, S),
   contexts |-> {Bare}, tables |-> {NoTables}, steady |-> TRUE,
   outside  |-> {}]

\* Reservations: two words, two names for one of them, every way to write.
Tables2 == LET e == Entry({"V", "R", "W", "U", "A", "D"}, 2)
               f == Entry({"V", "R", "W", "U", "A", "D"}, 3)
               p == Entry({"V"}, 9)
           IN {Pages(p, e, f), Pages(p, f, f)}
Locker ==
  [insns    |-> UNION {{At("lr", v), With(At("sc", v), {0}),
                        Part(At("store", v), 0, 1), Part(At("store", v), 2, 2),
                        With(At("swap", v), {0})} : v \in {0, 1}},
   contexts |-> {User, [User EXCEPT !.priv = 1]},
   tables   |-> Tables2,
   steady   |-> FALSE,
   outside  |-> {{}}]

AllGuests == [pager |-> Pager, locker |-> Locker,
              worker |-> Worker(2, {{0}, {0, 3}, {1, 2}, Bits}),
              driver |-> Worker(4, {{0, 3}})]
=============================================================================
