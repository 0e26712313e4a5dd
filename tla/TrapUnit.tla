------------------------------ MODULE TrapUnit ------------------------------
(***************************************************************************)
(* Privilege, status and interrupt CSRs, traps and returns of the          *)
(* functional processor: RISCV, evaluate_interrupts, exception,            *)
(* take_forced_interrupt and RV32CSR of exec.cpp.                          *)
(*                                                                         *)
(* A CSR is the set of its bits that are set, by name.  Bits that have no  *)
(* effect on traps are left out, as are trap values, the handlers' vector  *)
(* offsets and csr_sip, which the processor itself never reads.            *)
(*                                                                         *)
(* mframe, sframe and trap are history variables: what the last trap into  *)
(* each mode saved, until it is used or overwritten by software, and the   *)
(* trap the last step took, with the cause it wrote to mcause or scause    *)
(* (the processor never reads them back).                                  *)
(***************************************************************************)
EXTENDS Integers

CONSTANTS
  PC,           (* program counters                                         *)
  MtvecBase,    (* the machine trap entry                                   *)
  StvecBase,    (* the supervisor trap entry                                *)
  CsrOps,       (* the CSR instructions of the guest: records of CsrOp      *)
  Snapshots     (* the pending bits a caller of take_forced_interrupt gives *)

U == 0
S == 1
M == 3

\* Interrupts: machine and supervisor, software, timer and external.
MIrqs == {"MSI", "MTI", "MEI"}
SIrqs == {"SSI", "STI", "SEI"}
Irqs  == MIrqs \cup SIrqs

\* The bits of mstatus; those in SView (mask 0x800DE133) are also sstatus's.
MppBits == {"MPP0", "MPP1"}
SView   == {"SIE", "SPIE", "SPP", "SUM"}
MStatus == {"MIE", "MPIE"} \cup MppBits \cup SView

\* Exceptions that can be delegated: ecall from U and S, page faults on
\* fetch, load and store.
Ecalls == {"UECALL", "SECALL"}
Faults == {"IPF", "LPF", "SPF"}

Causes == [irq : BOOLEAN, code : Nat]

Csrs == {"mstatus", "sstatus", "mie", "sie", "mip", "sip", "mideleg",
         "medeleg", "mepc", "sepc", "satp"}

\* A CSR instruction: csrrw, csrrs or csrrc, with a register or an immediate
\* operand; zero says that the rs1 field of the instruction is 0.
CsrOp == {op \in [csr : Csrs, form : {"W", "S", "C"}, imm : BOOLEAN,
                  zero : BOOLEAN,
                  operand : SUBSET (MStatus \cup Irqs \cup Ecalls \cup Faults)] :
            op.zero => op.operand = {}}

Frame == [pc : PC, priv : 0 .. 3, ie : BOOLEAN]
NoFrame == [pc |-> MtvecBase, priv |-> -1, ie |-> FALSE]

\* Instructions by what they can do to this state: "load" and "store" are
\* accesses that fault, "badcsr" and "badzfinx" illegal encodings; all that
\* neither trap nor return, CSR instructions included, are "plain".
Insts == {"plain", "ecall", "mret", "sret", "load", "store", "badcsr",
          "badzfinx"}

\* A trap: where it came from, the mode it entered and its cause.
Trap == [kind : {"inst", "fetchfault", "forced"}, level : {U, S, M},
         cause : Causes]
NoTrap == [kind |-> "inst", level |-> U,
           cause |-> [irq |-> FALSE, code |-> 0]]

ASSUME TrapUnitAssumption ==
  /\ MtvecBase \in PC /\ StvecBase \in PC
  /\ CsrOps \subseteq CsrOp
  /\ Snapshots \subseteq SUBSET Irqs

VARIABLES
  privilege, pc,
  mstatus, sstatus, mie, sie, mip, mideleg, medeleg,
  mepc, sepc,
  paging,          (* satp bit 31: address translation is on                *)
  timer_due,       (* mtime >= mtimecmp                                     *)
  interrupt_delivery_enable,
  irq,             (* the members M_software_interrupt .. S_external_...    *)
  inst,            (* Instruction, the last one fetched                     *)
  mframe, sframe, trap

statusVars == <<mstatus, sstatus>>
enableVars == <<mie, sie, mideleg, medeleg>>
frameVars  == <<mepc, sepc, mframe, sframe>>
hartVars   == <<privilege, pc, statusVars, frameVars>>
vars == <<hartVars, enableVars, mip, paging, timer_due,
          interrupt_delivery_enable, irq, inst, trap>>

Init ==
  /\ privilege = M
  /\ pc \in PC
  /\ mstatus = {} /\ sstatus = {}
  /\ mie = {} /\ sie = {} /\ mip = {}
  /\ mideleg = {} /\ medeleg = {}
  /\ mepc = MtvecBase /\ sepc = MtvecBase
  /\ paging = FALSE
  /\ timer_due = FALSE
  /\ interrupt_delivery_enable \in BOOLEAN
  /\ irq = {}
  /\ inst = "plain"
  /\ mframe = NoFrame /\ sframe = NoFrame
  /\ trap = NoTrap

-----------------------------------------------------------------------------
(* Interrupts. *)

\* ref_effective_mip, and RISCV(): nothing is pending without delivery.
EffectiveMip(pending) ==
  IF interrupt_delivery_enable /\ timer_due THEN pending \cup {"MTI"}
  ELSE pending

SOf(m) == CASE m = "MSI" -> "SSI" [] m = "MTI" -> "STI" [] m = "MEI" -> "SEI"

\* Mutants: M takes interrupts with MIE clear; every mode but S is open to
\* supervisor interrupts.
ActiveUnmasked(pending) ==
  LET ready     == pending \cap mie
      s_enabled == privilege = U \/ (privilege = S /\ "SIE" \in mstatus)
  IN  ((ready \cap MIrqs) \ mideleg)
        \cup
      {s \in SIrqs : s_enabled /\ \/ s \in ready
                                  \/ \E m \in MIrqs :
                                       /\ SOf(m) = s
                                       /\ m \in ready /\ m \in mideleg}
ActiveAnywhere(pending) ==
  LET ready     == pending \cap mie
      m_enabled == privilege < M \/ "MIE" \in mstatus
      s_enabled == privilege # S \/ "SIE" \in mstatus
  IN  {m \in MIrqs : m_enabled /\ m \in ready /\ m \notin mideleg}
        \cup
      {s \in SIrqs : s_enabled /\ \/ s \in ready
                                  \/ \E m \in MIrqs :
                                       /\ SOf(m) = s
                                       /\ m \in ready /\ m \in mideleg}

\* evaluate_interrupts: the flags for the given pending bits.  A delegated
\* machine interrupt raises the supervisor flag of its kind.
Active(pending) ==
  LET ready     == pending \cap mie
      m_enabled == privilege < M \/ "MIE" \in mstatus
      s_enabled == /\ privilege < M
                   /\ privilege < S \/ (privilege = S /\ "SIE" \in mstatus)
  IN  {m \in MIrqs : m_enabled /\ m \in ready /\ m \notin mideleg}
        \cup
      {s \in SIrqs : s_enabled /\ \/ s \in ready
                                  \/ \E m \in MIrqs :
                                       /\ SOf(m) = s
                                       /\ m \in ready /\ m \in mideleg}

-----------------------------------------------------------------------------
(* exception(): i is Instruction, f the interrupt flags, flt the page      *)
(* fault or "none", and ill illegal_exception.                             *)

FaultCode(flt) == CASE flt = "IPF" -> 12 [] flt = "LPF" -> 13
                    [] flt = "SPF" -> 15

MTrap(i, f, flt, ill) ==
  \/ f \cap MIrqs # {}
  \/ i = "ecall" /\ \/ privilege = U /\ "UECALL" \notin medeleg
                    \/ privilege = S /\ "SECALL" \notin medeleg
                    \/ privilege = M
  \/ flt # "none" /\ flt \notin medeleg
  \/ ill

STrap(i, f, flt) ==
  \/ f \cap SIrqs # {}
  \/ i = "ecall" /\ \/ privilege = U /\ "UECALL" \in medeleg
                    \/ privilege = S /\ "SECALL" \in medeleg
  \/ flt # "none" /\ flt \in medeleg

MCode(i, f, flt, ill) ==
  IF "MSI" \in f THEN 3
  ELSE IF "MTI" \in f THEN 7
  ELSE IF "MEI" \in f \/ (i = "ecall" /\ privilege = M
                          /\ "UECALL" \notin medeleg) THEN 11
  ELSE IF i = "ecall" /\ privilege = U /\ "UECALL" \notin medeleg THEN 8
  ELSE IF i = "ecall" /\ privilege = S /\ "SECALL" \notin medeleg THEN 9
  ELSE IF flt # "none" /\ flt \notin medeleg THEN FaultCode(flt)
  ELSE IF ill THEN 2 ELSE 0

\* Mutant: the timer is looked at before the external interrupt.
SCodeTimerFirst(i, f, flt) ==
  IF "STI" \in f THEN 5
  ELSE IF "SEI" \in f \/ (i = "ecall" /\ privilege = S /\ "SECALL" \in medeleg)
  THEN 9
  ELSE IF i = "ecall" /\ privilege = U /\ "UECALL" \in medeleg THEN 8
  ELSE IF "SSI" \in f THEN 1
  ELSE IF flt # "none" /\ flt \in medeleg THEN FaultCode(flt) ELSE 0

SCode(i, f, flt) ==
  IF "SEI" \in f \/ (i = "ecall" /\ privilege = S /\ "SECALL" \in medeleg)
  THEN 9
  ELSE IF "STI" \in f THEN 5
  ELSE IF i = "ecall" /\ privilege = U /\ "UECALL" \in medeleg THEN 8
  ELSE IF "SSI" \in f THEN 1
  ELSE IF flt # "none" /\ flt \in medeleg THEN FaultCode(flt) ELSE 0

\* The bits of MPP that encode a privilege, and the privilege MPP encodes.
MppOf(p) == CASE p = 0 -> {} [] p = 1 -> {"MPP0"} [] p = 2 -> {"MPP1"}
              [] OTHER -> MppBits
Mpp == (IF "MPP0" \in mstatus THEN 1 ELSE 0)
     + (IF "MPP1" \in mstatus THEN 2 ELSE 0)
Spp == IF "SPP" \in sstatus THEN S ELSE U

\* "to" is set in b exactly when "from" is.
CopyBit(b, from, to) == IF from \in b THEN b \cup {to} ELSE b \ {to}

Enters(kind, level, irqs, code) ==
  trap' = [kind |-> kind, level |-> level,
           cause |-> [irq |-> irqs # {}, code |-> code]]
NoTrapTaken == trap' = NoTrap

\* Mutants: the supervisor's bits are not merged back, or take the place of
\* all of mstatus.
WriteSstatusOnly(s) == sstatus' = s /\ mstatus' = mstatus
WriteSstatusOver(s) == sstatus' = s /\ mstatus' = s

\* The supervisor view is copied from a machine-level write ...
WriteMstatus(m) == /\ mstatus' = m
                   /\ sstatus' = m \cap SView

\* ... and a supervisor-level write is merged into mstatus.
WriteSstatus(s) == /\ sstatus' = s
                   /\ mstatus' = (mstatus \ SView) \cup (s \cap SView)

EnterM(i, f, flt, ill, kind) ==
  /\ mepc' = pc
  /\ WriteMstatus(CopyBit((mstatus \ MppBits) \cup MppOf(privilege),
                          "MIE", "MPIE") \ {"MIE"})
  /\ privilege' = M
  /\ pc' = MtvecBase
  /\ mframe' = [pc |-> pc, priv |-> privilege, ie |-> "MIE" \in mstatus]
  /\ Enters(kind, M, f \cap MIrqs, MCode(i, f, flt, ill))
  /\ UNCHANGED <<sepc, sframe>>

EnterS(i, f, flt, kind) ==
  /\ sepc' = pc
  /\ WriteSstatus(
       CopyBit(IF privilege = S THEN sstatus \cup {"SPP"}
                                ELSE sstatus \ {"SPP"},
               "SIE", "SPIE") \ {"SIE"})
  /\ privilege' = S
  /\ pc' = StvecBase
  /\ sframe' = [pc |-> pc, priv |-> privilege, ie |-> "SIE" \in sstatus]
  /\ Enters(kind, S, f \cap SIrqs, SCode(i, f, flt))
  /\ UNCHANGED <<mepc, mframe>>

\* Mutant: MPP is cleared before it is read.
MretClearsFirst ==
  /\ privilege' = U
  /\ WriteMstatus((CopyBit(mstatus, "MPIE", "MIE") \cup {"MPIE"}) \ MppBits)
  /\ pc' = mepc
  /\ mframe' = NoFrame
  /\ NoTrapTaken
  /\ UNCHANGED <<mepc, sepc, sframe>>

\* MPP is whatever was written: the reserved 2 becomes the privilege.
Mret ==
  /\ privilege' = Mpp
  /\ WriteMstatus((CopyBit(mstatus, "MPIE", "MIE") \cup {"MPIE"}) \ MppBits)
  /\ pc' = mepc
  /\ mframe' = NoFrame
  /\ NoTrapTaken
  /\ UNCHANGED <<mepc, sepc, sframe>>

Sret ==
  /\ privilege' = Spp
  /\ WriteSstatus((CopyBit(sstatus, "SPIE", "SIE") \cup {"SPIE"}) \ {"SPP"})
  /\ pc' = sepc
  /\ sframe' = NoFrame
  /\ NoTrapTaken
  /\ UNCHANGED <<mepc, sepc, mframe>>

\* Neither a trap nor a return: pc + 4.  An ecall at privilege 2 ends here.
FallThrough ==
  /\ pc' \in PC
  /\ NoTrapTaken
  /\ UNCHANGED <<privilege, statusVars, frameVars>>

Exception(i, f, flt, ill, kind) ==
  IF MTrap(i, f, flt, ill) THEN EnterM(i, f, flt, ill, kind)
  ELSE IF STrap(i, f, flt) THEN EnterS(i, f, flt, kind)
  ELSE IF i = "mret" THEN Mret
  ELSE IF i = "sret" THEN Sret
  ELSE FallThrough

-----------------------------------------------------------------------------
(* RISCV(): one action per way through it. *)

\* The timer only advances; a store to mtimecmp is a plain instruction.
TimePasses == timer_due' \in {timer_due, TRUE}

\* The fetch faults before Instruction and the interrupt flags are renewed:
\* exception() sees those of the step before.
FetchFault ==
  /\ paging /\ privilege # M
  /\ Exception(inst, irq, "IPF", FALSE, "fetchfault")
  /\ TimePasses
  /\ UNCHANGED <<enableVars, mip, paging, interrupt_delivery_enable, irq,
                 inst>>

\* A fetched instruction: the flags are evaluated before it executes.
Fetched(i) ==
  /\ inst' = i
  /\ irq' = Active(IF interrupt_delivery_enable THEN EffectiveMip(mip) ELSE {})
  /\ UNCHANGED interrupt_delivery_enable

\* An interrupt is taken instead of the instruction, or it is an ecall or a
\* return, or both: exception() sorts them out.
TrapOrReturn(i) ==
  /\ Fetched(i)
  /\ irq' # {} \/ i \in {"ecall", "mret", "sret"}
  /\ Exception(i, irq', "none", FALSE, "inst")
  /\ TimePasses
  /\ UNCHANGED <<enableVars, mip, paging>>

Undisturbed(i) == Fetched(i) /\ irq' = {}

\* A plain instruction.  Stores reach mtimecmp and the devices that drive
\* SEIP through the interrupt controller (refresh_external_interrupt).
Plain ==
  /\ Undisturbed("plain")
  /\ pc' \in PC
  /\ \/ TimePasses /\ UNCHANGED mip
     \/ /\ timer_due' \in BOOLEAN
        /\ mip' \in {mip \cup {"SEI"}, mip \ {"SEI"}}
  /\ NoTrapTaken
  /\ UNCHANGED <<privilege, statusVars, frameVars, enableVars, paging>>

\* load and store: RV32IM and RV32A find the page fault and trap.
MemoryFault(i) ==
  /\ i \in {"load", "store"}
  /\ paging /\ privilege # M
  /\ Undisturbed(i)
  /\ Exception(i, {}, IF i = "load" THEN "LPF" ELSE "SPF", FALSE, "inst")
  /\ TimePasses
  /\ UNCHANGED <<enableVars, mip, paging>>

\* An unknown CSR or SYSTEM instruction.
IllegalSystem ==
  /\ Undisturbed("badcsr")
  /\ Exception("badcsr", {}, "none", TRUE, "inst")
  /\ TimePasses
  /\ UNCHANGED <<enableVars, mip, paging>>

\* RV32Zfinx flags an illegal encoding, and returns: no trap, same pc.
IllegalZfinx ==
  /\ Undisturbed("badzfinx")
  /\ NoTrapTaken
  /\ TimePasses
  /\ UNCHANGED <<hartVars, enableVars, mip, paging>>

-----------------------------------------------------------------------------
(* RV32CSR.  The privilege of the hart is not looked at.                   *)

CsrResult(op, old) == CASE op.form = "W" -> op.operand
                        [] op.form = "S" -> old \cup op.operand
                        [] op.form = "C" -> old \ op.operand

\* "we": funct3 = 1, which is csrrw and not csrrwi, or a nonzero rs1 field.
WriteEnabled(op) == (op.form = "W" /\ ~op.imm) \/ ~op.zero

\* The bits of old that are writable are replaced by those of new.
Merge(old, new, writable) == (old \ writable) \cup (new \cap writable)

\* What mip and sip read: the timer's bit is synthesized.
SipWritable == IF privilege = M THEN SIrqs ELSE {"SSI"}

WriteStatus(op) ==
  \/ /\ op.csr = "mstatus"
     /\ WriteMstatus(CsrResult(op, mstatus) \cap MStatus)
     /\ mframe' = NoFrame
     /\ sframe' = NoFrame
  \/ /\ op.csr = "sstatus"
     /\ mstatus' = Merge(mstatus, CsrResult(op, sstatus), SView)
     /\ sstatus' = mstatus' \cap SView
     /\ sframe' = NoFrame
     /\ UNCHANGED mframe

WriteEnables(op) ==
  \/ /\ op.csr = "mie"
     /\ mie' = CsrResult(op, mie) \cap Irqs
     /\ sie' = mie' \cap SIrqs
     /\ UNCHANGED <<mideleg, medeleg>>
  \/ /\ op.csr = "sie"
     /\ mie' = Merge(mie, CsrResult(op, sie), SIrqs)
     /\ sie' = mie' \cap SIrqs
     /\ UNCHANGED <<mideleg, medeleg>>
  \/ /\ op.csr = "mideleg"
     /\ mideleg' = CsrResult(op, mideleg) \cap Irqs
     /\ UNCHANGED <<mie, sie, medeleg>>
  \/ /\ op.csr = "medeleg"
     /\ medeleg' = CsrResult(op, medeleg) \cap (Ecalls \cup Faults)
     /\ UNCHANGED <<mie, sie, mideleg>>

WritePending(op) ==
  \/ /\ op.csr = "mip"
     /\ mip' = Merge(mip, CsrResult(op, EffectiveMip(mip)), SIrqs)
  \/ /\ op.csr = "sip"
     /\ mip' = Merge(mip, CsrResult(op, EffectiveMip(mip) \cap SIrqs),
                     SipWritable)

\* Addresses are not tracked bit by bit: any value is written.
WriteEpc(op) ==
  \/ /\ op.csr = "mepc" /\ mepc' \in PC /\ mframe' = NoFrame
     /\ UNCHANGED <<sepc, sframe>>
  \/ /\ op.csr = "sepc" /\ sepc' \in PC /\ sframe' = NoFrame
     /\ UNCHANGED <<mepc, mframe>>

CsrInstruction(op) ==
  /\ Undisturbed("plain")
  /\ pc' \in PC
  /\ NoTrapTaken
  /\ TimePasses
  /\ UNCHANGED privilege
  /\ \/ /\ ~WriteEnabled(op)
        /\ UNCHANGED <<statusVars, frameVars, enableVars, mip, paging>>
     \/ /\ WriteEnabled(op) /\ WriteStatus(op)
        /\ UNCHANGED <<mepc, sepc, enableVars, mip, paging>>
     \/ /\ WriteEnabled(op) /\ WriteEnables(op)
        /\ UNCHANGED <<statusVars, frameVars, mip, paging>>
     \/ /\ WriteEnabled(op) /\ WritePending(op)
        /\ UNCHANGED <<statusVars, frameVars, enableVars, paging>>
     \/ /\ WriteEnabled(op) /\ WriteEpc(op)
        /\ UNCHANGED <<statusVars, enableVars, mip, paging>>
     \/ /\ WriteEnabled(op) /\ op.csr = "satp" /\ paging' \in BOOLEAN
        /\ UNCHANGED <<statusVars, frameVars, enableVars, mip>>

-----------------------------------------------------------------------------
(* The calls of a co-simulation (refcpu_api.cpp). *)

\* The candidate take_forced_interrupt selects, in its order.
Priority == <<"MSI", "MTI", "MEI", "SEI", "STI", "SSI">>
Codes    == <<3, 7, 11, 9, 5, 1>>
Selects(f, k) == /\ Priority[k] \in f
                 /\ \A j \in 1 .. k - 1 : Priority[j] \notin f

LevelOf(k) == IF k <= 3 THEN M ELSE S

\* take_forced_interrupt with a cause and target that are selected: the
\* interrupt is taken in front of the next instruction, and the flags are
\* evaluated again, with nothing pending.
ForceInterrupt(snapshot, k) ==
  LET f == Active(snapshot)
  IN  /\ mip' = (mip \ Irqs) \cup snapshot
      /\ Selects(f, k)
      /\ Exception("plain", f, "none", FALSE, "forced")
      /\ inst' = "plain"
      /\ irq' = {}
      /\ UNCHANGED <<enableVars, paging, timer_due, interrupt_delivery_enable>>

\* With any other cause or target it is refused, but the pending bits and
\* the flags have changed.
RefuseInterrupt(snapshot) ==
  /\ mip' = (mip \ Irqs) \cup snapshot
  /\ irq' = Active(snapshot)
  /\ NoTrapTaken
  /\ UNCHANGED <<hartVars, enableVars, paging, timer_due,
                 interrupt_delivery_enable, inst>>

SetInterruptDelivery ==
  /\ interrupt_delivery_enable' = ~interrupt_delivery_enable
  /\ NoTrapTaken
  /\ UNCHANGED <<hartVars, enableVars, mip, paging, timer_due, irq, inst>>

Step == \/ FetchFault \/ IllegalSystem \/ IllegalZfinx
        \/ \E i \in Insts : TrapOrReturn(i) \/ MemoryFault(i)
        \/ Plain
        \/ \E op \in CsrOps : CsrInstruction(op)

Call == \/ SetInterruptDelivery
        \/ \E snapshot \in Snapshots :
             \/ RefuseInterrupt(snapshot)
             \/ \E k \in 1 .. 6 : ForceInterrupt(snapshot, k)

Next == Step \/ Call

Spec == Init /\ [][Next]_vars

-----------------------------------------------------------------------------
(* Properties. *)

TypeOK ==
  /\ privilege \in 0 .. 3
  /\ pc \in PC /\ mepc \in PC /\ sepc \in PC
  /\ mstatus \subseteq MStatus /\ sstatus \subseteq SView
  /\ mie \subseteq Irqs /\ sie \subseteq SIrqs /\ mip \subseteq Irqs
  /\ mideleg \subseteq Irqs /\ medeleg \subseteq Ecalls \cup Faults
  /\ trap \in Trap
  /\ paging \in BOOLEAN /\ timer_due \in BOOLEAN
  /\ interrupt_delivery_enable \in BOOLEAN
  /\ irq \subseteq Irqs
  /\ inst \in Insts
  /\ mframe \in Frame \cup {NoFrame} /\ sframe \in Frame \cup {NoFrame}

\* The supervisor CSRs are views of the machine ones, though traps and
\* returns keep two copies and update either first ("shadow" in exception
\* and RV32CSR).
ShadowsAgree == /\ sstatus = mstatus \cap SView
                /\ sie = mie \cap SIrqs

MFrameIntact == /\ mepc = mframe.pc
                /\ Mpp = mframe.priv
                /\ "MPIE" \in mstatus <=> mframe.ie

SFrameIntact == /\ sepc = sframe.pc
                /\ Spp = sframe.priv
                /\ "SPIE" \in sstatus <=> sframe.ie

\* Privilege 2, which only an mret to a reserved MPP reaches (exec.cpp:2016,
\* 1554), has no encoding in SPP: a trap into S saves it as U.
FitsSpp(frame) == frame.priv # 2

\* What a trap saved stays until it is returned from or software rewrites
\* it: traps and returns of the other mode, and supervisor writes to
\* sstatus, never disturb the machine frame, nor the other way round.
FramesIntact == /\ mframe # NoFrame => MFrameIntact
                /\ sframe # NoFrame /\ FitsSpp(sframe) => SFrameIntact

\* The hart goes on where the frame was saved, in its mode, with its
\* interrupt enable.
Resumes(frame, enabled) == /\ pc' = frame.pc
                           /\ privilege' = frame.priv
                           /\ enabled <=> frame.ie

\* However traps nest, a return resumes what its trap interrupted, and the
\* hart leaves U, S and M (include/ref.h:80) only by an mret whose MPP the
\* guest itself rewrote, or back to a trapped privilege 2: no trap, no sret
\* and no return from a frame of U, S or M ends there.
ReturnsToOrigin ==
  [][ /\ inst' = "mret" /\ mframe # NoFrame /\ mframe' = NoFrame
           => Resumes(mframe, "MIE" \in mstatus')
      /\ inst' = "sret" /\ sframe # NoFrame /\ sframe' = NoFrame
           /\ FitsSpp(sframe) => Resumes(sframe, "SIE" \in sstatus')
      /\ privilege' = 2 /\ privilege # 2
           => inst' = "mret" /\ (mframe = NoFrame \/ mframe.priv = 2) ]_vars

Trapped == trap'.level # U

\* A trap never lowers the privilege, whichever flags and delegation bits
\* are set when it is taken (exception), but from the reserved 2 to S.
TrapNeverDescends ==
  [][ Trapped => \/ privilege' >= privilege
                 \/ privilege = 2 /\ privilege' = S ]_vars

IrqCodeOf(x) == Codes[CHOOSE k \in 1 .. 6 : Priority[k] = x]

\* The pending bits that count for the step: the caller's, or the hart's.
Pending == IF trap'.kind = "forced" THEN mip'
           ELSE IF interrupt_delivery_enable THEN EffectiveMip(mip) ELSE {}

\* The mode an interrupt belongs to, and whether that mode lets it in now.
HomeOf(x)   == IF x \in SIrqs \cup mideleg THEN S ELSE M
Open(level) == \/ privilege < level
               \/ /\ privilege = level
                  /\ IF level = M THEN "MIE" \in mstatus
                                  ELSE "SIE" \in sstatus

\* A delegated machine interrupt is reported as the supervisor's.
ReportedAs(x, level) == IF level = S /\ x \in MIrqs THEN SOf(x) ELSE x

\* The exception of the instruction, or of its fetch.
Exceptions ==
  IF trap'.kind = "fetchfault" THEN {12}
  ELSE CASE inst' = "ecall"  -> {8 + privilege}
         [] inst' = "load"   -> {13}
         [] inst' = "store"  -> {15}
         [] inst' = "badcsr" -> {2}
         [] OTHER            -> {}

\* The cause written is that of a pending and enabled interrupt of the mode
\* entered, or of the exception of the instruction.
CauseIsReal ==
  LET cause == trap'.cause
      level == trap'.level
  IN  IF cause.irq
      THEN /\ Open(level)
           /\ \E x \in Pending \cap mie :
                /\ HomeOf(x) = level
                /\ cause.code = IrqCodeOf(ReportedAs(x, level))
      ELSE cause.code \in Exceptions

\* The steps that misreport: a fetch fault behind an interrupt or ecall that
\* is still latched (exec.cpp:1722), an ecall delivered to S together with an
\* interrupt (exec.cpp:1480), and an ecall of M while ecalls of U are
\* delegated (exec.cpp:1417).
StaleFetchFault == /\ trap'.kind = "fetchfault"
                   /\ irq # {} \/ inst = "ecall"
EcallWithIrq == /\ trap'.kind = "inst" /\ inst' = "ecall"
                /\ irq' \cap SIrqs # {}
MachineEcall == /\ trap'.kind = "inst" /\ inst' = "ecall"
                /\ privilege = M

\* Every other trap reports a cause that is real and belongs to its mode:
\* no masked interrupt is delivered, no stale one, none to the wrong mode.
CausesAreReal ==
  [][ Trapped /\ ~StaleFetchFault /\ ~EcallWithIrq
      /\ ~(MachineEcall /\ "UECALL" \in medeleg) => CauseIsReal ]_vars

\* A forced interrupt that is accepted is the one asked for: exception()
\* computes again, with its own priorities, what the candidates selected.
ForcedAsAsked ==
  [][ trap'.kind = "forced" =>
        \E k \in 1 .. 6 :
          /\ Selects(Active(mip'), k)
          /\ privilege' = LevelOf(k)
          /\ trap'.level = LevelOf(k)
          /\ trap'.cause = [irq |-> TRUE, code |-> Codes[k]] ]_vars
=============================================================================
