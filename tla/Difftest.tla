------------------------------ MODULE Difftest ------------------------------
(***************************************************************************)
(* The comparison with Spike in the loop of exec(), under --diff: when it  *)
(* starts, which steps Spike executes and which are copied to it, and what *)
(* is compared.  Spike is external: a hart that executes what it is told.  *)
(*                                                                         *)
(* Of the two states only where they differ is kept: diff is the set of    *)
(* parts in which Spike's is not the simulator's (the DUT's).  "regs" is   *)
(* all reg_check looks at, the pc, the registers and 21 CSRs; the others   *)
(* are the privilege, memory, fcsr and the reservation of lr.w.  The bits  *)
(* MTIP, MEIP and SEIP of mip are masked and belong to none.               *)
(*                                                                         *)
(* A step of the DUT is an instruction of Kinds, or an interrupt or fetch  *)
(* fault in its place.  A bug makes it get one part wrong, once.  The      *)
(* flags by which the loop chooses are members that outlive a step; one    *)
(* that ends at a fetch fault has not gone through all that renews them.   *)
(*                                                                         *)
(* bugs, odd, last and interrupted are history variables: the parts a bug  *)
(* has spoilt, what the guest has done that Spike is known to see          *)
(* differently, the step just made, and whether the last step that was not *)
(* a fetch fault was an interrupt.                                         *)
(***************************************************************************)
EXTENDS FiniteSets, Integers

CONSTANT MaxBugs   (* bound of the bugs of a behaviour                     *)

ASSUME DifftestAssumption == MaxBugs \in Nat

Parts == {"regs", "prv", "mem", "float", "resv"}

\* Instructions by what they do to the two states.  An access is of RAM, or
\* its name says "io"; "own" is a store to the reserved address, "highfault"
\* an access that faults at an address within RAM's range, "lowfault" one
\* below it, "fetchfault" a fetch that does not translate, "trap" any other
\* exception or return, "mipread" and "mipwrite" CSR instructions on mip or
\* sip, "dma" the store that makes the SD controller write to memory.
Compute  == {"plain", "float", "wfi", "mipread"}
Accesses == {"load", "store", "own", "amo", "lr", "sc"}
IoAccess == {"ioload", "iostore", "ioamo", "iolr", "iosc", "dma"}
Traps    == {"trap", "highfault", "lowfault", "fetchfault", "irq"}
Kinds    == Compute \cup Accesses \cup IoAccess \cup Traps \cup {"mipwrite"}

VARIABLES
  where,      (* state.pc: "boot" before 0x80000000, "entry" on it, "main"  *)
  started,    (* difftest_started                                           *)
  stop,       (* "no", "ended" (sim_end), "failed" (reg_check) or "thrown"  *)
  diff,
  pending,    (* MTIP or SEIP is up in the mip the guest reads              *)
  reserved,   (* state.reserve_valid                                        *)
  waiting,    (* Spike's in_wfi                                             *)
  is_io, force_sync,
  irq,        (* one of the six flags of evaluate_interrupts is up          *)
  bugs, odd, last, interrupted

flags        == <<is_io, force_sync, irq>>
difftestVars == <<where, started, stop, diff, pending, reserved, waiting,
                  flags, bugs, odd, last, interrupted>>

NoStep == [kind |-> "plain", bug |-> {}, checked |-> FALSE]

\* Spike has the image, and its own idea of the rest.
DifftestInit ==
  /\ where = "boot"
  /\ started = FALSE
  /\ stop = "no"
  /\ diff = {"regs", "prv", "mem"}
  /\ pending = FALSE
  /\ reserved = FALSE
  /\ waiting = FALSE
  /\ is_io = FALSE /\ force_sync = FALSE /\ irq = FALSE
  /\ bugs = {} /\ odd = {}
  /\ last = NoStep
  /\ interrupted = FALSE
-----------------------------------------------------------------------------
(* The DUT. *)

\* The parts an instruction writes besides the registers.
Writes(k) ==
  CASE k = "float"                                          -> {"float"}
    [] k \in {"store", "amo", "dma"}                        -> {"mem"}
    [] k \in {"lr", "iolr", "iosc"}                         -> {"resv"}
    [] k \in {"own", "sc"}                                  -> {"mem", "resv"}
    [] k \in Traps                                          -> {"prv"}
    [] OTHER                                                -> {}

\* What its result depends on: its fetch on memory and the privilege.
Reads(k) == {"regs", "prv", "mem"}
            \cup (IF k = "float" THEN {"float"} ELSE {})
            \cup (IF k = "sc" THEN {"resv"} ELSE {})

\* Mutant: AMOs count as device accesses wherever they go.
IsIoAmo(k) == k \in IoAccess \cup {"lowfault", "amo"}

\* What sets is_io.  A load or store looks at its address, untranslated if the
\* translation has failed, before it faults.
IsIo(k) == k \in IoAccess \cup {"lowfault"}

\* What sets force_sync: exception() does, if a flag of an interrupt is up.
ForceSync(k, up) == k = "mipwrite" \/ (k \in Traps /\ up)

\* The interrupts are evaluated once the instruction has been fetched.
IrqAfter(k) == IF k = "fetchfault" THEN irq ELSE k = "irq"

\* Mutant: the two flags are cleared where the instruction is decoded.
FlagKept(flag, k, set) == set \/ (k = "fetchfault" /\ flag)

\* The two flags are cleared before the fetch, whatever comes of it.
FlagAfter(flag, k, set) == set

\* Time passes on every step; the guest acknowledges by a device or mip.
PendingAfter(k) == IF k \in IoAccess \cup {"mipwrite"} THEN BOOLEAN
                                                       ELSE {pending, TRUE}

ReservedAfter(k) ==
  CASE k \in {"lr", "iolr"}        -> TRUE
    [] k \in {"sc", "iosc", "own"} -> FALSE
    [] OTHER                       -> reserved

\* What Spike is known to see otherwise: a reservation it has not made, or
\* not lost by the store, the pending bits it has not got, and all fcsr and
\* lr.w have done before it joins.
Oddity(k) ==
  CASE k = "float" /\ ~started               -> {"early float"}
    [] k \in {"lr", "sc"} /\ ~started        -> {"early lr"}
    [] k \in {"own", "iolr", "iosc"}         -> {"reservation"}
    [] k = "mipread" /\ started /\ pending   -> {"pending"}
    [] OTHER                                 -> {}
-----------------------------------------------------------------------------
(* Spike. *)

\* What sync_state copies, what the copy at the start, and what a DMA's.
Synced      == {"regs", "prv"}
Joined      == {"mem"}
CopiedByDma == {"mem"}

\* The part is wrong, or stays wrong where it is only partly overwritten.
Tainted(k, bug) ==
  LET reached == Writes(k) \cup {"regs"}
  IN  IF Reads(k) \cap diff # {} \/ (k = "mipread" /\ pending)
        THEN reached
        ELSE bug \cup (reached \cap diff)

\* What may differ when both have executed the instruction: all that a bug
\* spoils does, the rest of what is tainted may.  Whether sc.w succeeds shows
\* in its register.  The DUT has lost the reservation of "own", Spike keeps
\* it; a Spike that waits has not moved.
DiffsAfterStep(k, bug) ==
  LET kept == diff \ (Writes(k) \cup {"regs"})
      lost == IF k = "own" THEN {"resv"} ELSE {}
  IN  IF waiting THEN {diff \cup {"regs"}}
      ELSE {kept \cup bug \cup lost \cup t :
              t \in {s \in SUBSET Tainted(k, bug) :
                       k = "sc" /\ "mem" \in s => "regs" \in s}}

\* What differs when only the DUT has, and its registers are copied.
DiffAfterSync(k, bug) ==
  LET alone == Writes(k) \ (IF k = "dma" THEN CopiedByDma ELSE {})
  IN  (diff \cup alone \cup bug) \ Synced

\* Mutant: the wait is left to Spike.
WaitingAfterKept(k) == k = "wfi"

\* clear_waiting_for_interrupt.
WaitingAfter(k) == waiting /\ k # "wfi"
-----------------------------------------------------------------------------
(* An iteration of the loop: a step of the DUT, then what Spike does.      *)

Bugs(k) == IF Cardinality(bugs) < MaxBugs
             THEN {{}} \cup {{p} : p \in Writes(k) \cup {"regs"}} ELSE {{}}

Executes(k, bug) ==
  /\ stop = "no"
  /\ k = "own" => reserved
  /\ bug \in Bugs(k)
  /\ pending' \in PendingAfter(k)
  /\ reserved' = ReservedAfter(k)
  /\ irq' = IrqAfter(k)
  /\ is_io' = FlagAfter(is_io, k, IsIo(k))
  /\ force_sync' = FlagAfter(force_sync, k, ForceSync(k, irq'))
  /\ interrupted' = (k = "irq" \/ (k = "fetchfault" /\ interrupted))
  /\ bugs' = bugs \cup bug
  /\ odd' = odd \cup Oddity(k)

\* sim_end is set by ebreak, or by what a store wrote to the UART: the loop
\* is left at once.
End ==
  \E k \in {"plain", "iostore"} : \E bug \in Bugs(k) :
    /\ Executes(k, bug)
    /\ stop' = "ended"
    /\ last' = [kind |-> k, bug |-> bug, checked |-> FALSE]
    /\ UNCHANGED <<where, started, diff, waiting>>

\* The boot code runs alone, until it gets to 0x80000000.
Boot(k, bug) ==
  /\ ~started
  /\ Executes(k, bug)
  /\ where' \in {"boot", "entry"}
  /\ started' = (where' = "entry")
  /\ diff' = (diff \cup Writes(k) \cup bug)
               \ (IF started' THEN Synced \cup Joined ELSE {})
  /\ last' = [kind |-> k, bug |-> bug, checked |-> FALSE]
  /\ UNCHANGED <<stop, waiting>>

\* A buffer that is not in one RAM window is refused by a throw nobody
\* catches.
ThrowOnDma(bug) ==
  /\ started
  /\ Executes("dma", bug)
  /\ stop' = "thrown"
  /\ diff' = diff \cup {"mem"}
  /\ last' = [kind |-> "dma", bug |-> bug, checked |-> FALSE]
  /\ UNCHANGED <<where, started, waiting>>

Copy(k, bug) ==
  /\ started
  /\ Executes(k, bug)
  /\ is_io' \/ force_sync'
  /\ where' = "main"
  /\ diff' = DiffAfterSync(k, bug)
  /\ last' = [kind |-> k, bug |-> bug, checked |-> FALSE]
  /\ UNCHANGED <<started, stop, waiting>>

Compare(k, bug) ==
  /\ started
  /\ Executes(k, bug)
  /\ ~is_io' /\ ~force_sync'
  /\ where' = "main"
  /\ diff' \in DiffsAfterStep(k, bug)
  /\ waiting' = WaitingAfter(k)
  /\ stop' = IF "regs" \in diff' THEN "failed" ELSE "no"
  /\ last' = [kind |-> k, bug |-> bug, checked |-> TRUE]
  /\ UNCHANGED started

DifftestNext ==
  \/ End
  \/ \E k \in Kinds : \E bug \in Bugs(k) :
       Boot(k, bug) \/ Copy(k, bug) \/ Compare(k, bug)
  \/ \E bug \in Bugs("dma") : ThrowOnDma(bug)

DifftestSpec == DifftestInit /\ [][DifftestNext]_difftestVars
-----------------------------------------------------------------------------
(* Properties. *)

\* The variables hold values of their types.
DifftestTypeOK ==
  /\ where \in {"boot", "entry", "main"}
  /\ started \in BOOLEAN /\ pending \in BOOLEAN /\ reserved \in BOOLEAN
  /\ waiting \in BOOLEAN
  /\ is_io \in BOOLEAN /\ force_sync \in BOOLEAN /\ irq \in BOOLEAN
  /\ interrupted \in BOOLEAN
  /\ stop \in {"no", "ended", "failed", "thrown"}
  /\ diff \subseteq Parts /\ bugs \subseteq Parts
  /\ odd \subseteq {"early float", "early lr", "reservation", "pending"}
  /\ last \in [kind : Kinds, bug : SUBSET Parts, checked : BOOLEAN]

\* A mismatch is never an artefact of the comparison: it is reported only
\* after a bug of the DUT, or after the guest has read a pending bit Spike
\* does not have, lost a reservation Spike keeps, or used fcsr or lr.w before
\* Spike joined.  What is copied, and when, must make up for all Spike has
\* not executed: boot code, device accesses, DMA, interrupts, waits.
NoFalseAlarm == stop = "failed" => bugs # {} \/ odd # {}

\* Spike never runs on a state the comparison does not see to have gone
\* wrong: as long as the DUT is right, memory and privilege agree, and fcsr
\* and the reservation too but for the guest's doings above.
HiddenStateAgrees ==
  started /\ stop = "no" /\ bugs = {} =>
    /\ diff \cap {"regs", "prv", "mem"} = {}
    /\ "float" \in diff => "early float" \in odd
    /\ "resv" \in diff => odd \cap {"early lr", "reservation"} # {}

\* DIFFTEST.md:35 leaves to the DUT the accesses to devices and interrupts;
\* the code also the writes of mip (exec.cpp:1989), faults below RAM's range,
\* and, the flags of an interrupt being still up, fetch faults that follow it.
\* The document's waits of wfi it has Spike execute, and checks.
Owned(step, afterIrq) ==
  \/ step.kind \in IoAccess \cup {"irq", "mipwrite", "lowfault"}
  \/ step.kind = "fetchfault" /\ afterIrq

\* A wrong register is reported on the step that gets it wrong, unless that
\* step is the DUT's own: what an earlier one has left in is_io and force_sync
\* never turns a check into a copy, which would make Spike wrong as well.
BugsAreCaught ==
  [][started /\ "regs" \in last'.bug /\ ~Owned(last', interrupted)
       => stop' \in {"failed", "ended"}]_difftestVars
=============================================================================
