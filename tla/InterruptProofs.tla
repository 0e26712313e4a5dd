--------------------------- MODULE InterruptProofs ---------------------------
(***************************************************************************)
(* Proofs about interrupts, from the devices that ask for them to the hart *)
(* that takes them.                                                        *)
(*                                                                         *)
(* TrapUnit: Inv is inductive, because the two copies of the status bits   *)
(* must agree for a trap into one mode to leave the frame of the other     *)
(* alone, since traps into M copy mstatus over sstatus and traps into S    *)
(* merge sstatus into mstatus.                                             *)
(*                                                                         *)
(* Devices: each interrupt reaches the controller, and the controller's    *)
(* output reaches SEIP.  DevicesInv is inductive: the parts need only the  *)
(* types of the others.                                                    *)
(***************************************************************************)
EXTENDS TrapUnit, Devices, TLAPS

HartOK ==
  /\ privilege \in 0 .. 3
  /\ pc \in PC /\ mepc \in PC /\ sepc \in PC
  /\ mstatus \subseteq MStatus /\ sstatus = mstatus \cap SView
  /\ mframe \in Frame \cup {NoFrame} /\ sframe \in Frame \cup {NoFrame}
  /\ trap \in Trap
  /\ FramesIntact

EnablesOK ==
  /\ mie \subseteq Irqs /\ sie = mie \cap SIrqs
  /\ mideleg \subseteq Irqs /\ medeleg \subseteq Ecalls \cup Faults

PendingOK ==
  /\ mip \subseteq Irqs
  /\ paging \in BOOLEAN /\ timer_due \in BOOLEAN
  /\ interrupt_delivery_enable \in BOOLEAN
  /\ irq \subseteq Irqs
  /\ inst \in Insts

Inv == HartOK /\ EnablesOK /\ PendingOK

\* What TrapNeverDescends and ReturnsToOrigin say of one step, the latter of
\* a step whose instruction is i.
NoDescent == Trapped => \/ privilege' >= privilege
                        \/ privilege = 2 /\ privilege' = S
ReturnsRight(i) ==
  /\ i = "mret" /\ mframe # NoFrame /\ mframe' = NoFrame
       => Resumes(mframe, "MIE" \in mstatus')
  /\ i = "sret" /\ sframe # NoFrame /\ sframe' = NoFrame /\ FitsSpp(sframe)
       => Resumes(sframe, "SIE" \in sstatus')
  /\ privilege' = 2 /\ privilege # 2
       => i = "mret" /\ (mframe = NoFrame \/ mframe.priv = 2)

-----------------------------------------------------------------------------
(* Operators. *)

\* MPP encodes every privilege in two bits and decodes it again.
LEMMA MppRoundTrip ==
  ASSUME NEW p \in 0 .. 3
  PROVE  /\ MppOf(p) \subseteq MppBits
         /\ (IF "MPP0" \in MppOf(p) THEN 1 ELSE 0)
              + (IF "MPP1" \in MppOf(p) THEN 2 ELSE 0) = p
<1>1. p = 0 \/ p = 1 \/ p = 2 \/ p = 3
  OBVIOUS
<1> QED
  BY <1>1 DEF MppOf, MppBits

\* Only interrupts become flags, and those of S only below M.
LEMMA ActiveType ==
  ASSUME NEW pending
  PROVE  /\ Active(pending) \subseteq Irqs
         /\ privilege \in 0 .. 3 /\ Active(pending) \cap SIrqs # {}
              => privilege \in {U, S}
<1>1. MIrqs \cap SIrqs = {}
  BY DEF MIrqs, SIrqs
<1> QED
  BY <1>1 DEF Active, Irqs, U, S, M

\* The pending bits the processor sees are interrupts.
LEMMA EffectiveMipType ==
  ASSUME NEW pending \in SUBSET Irqs
  PROVE  EffectiveMip(pending) \in SUBSET Irqs
BY DEF EffectiveMip, Irqs, MIrqs

\* The codes are natural numbers.
LEMMA CodesAreNat ==
  ASSUME NEW i, NEW f, NEW flt \in Faults \cup {"none"}, NEW ill
  PROVE  MCode(i, f, flt, ill) \in Nat /\ SCode(i, f, flt) \in Nat
<1>1. flt # "none" => FaultCode(flt) \in Nat
  BY DEF Faults, FaultCode
<1>2. MCode(i, f, flt, ill) \in Nat
  BY <1>1 DEF MCode
<1>3. SCode(i, f, flt) \in Nat
  BY <1>1 DEF SCode
<1> QED
  BY <1>2, <1>3

-----------------------------------------------------------------------------
(* Traps and returns. *)

\* The trap record a trap writes is one.
LEMMA EntersType ==
  ASSUME NEW kind \in {"inst", "fetchfault", "forced"},
         NEW level \in {U, S, M}, NEW irqs, NEW code \in Nat,
         Enters(kind, level, irqs, code)
  PROVE  trap' \in Trap
BY DEF Enters, Trap, Causes

\* A trap into M saves its frame and leaves the supervisor bits alone.
LEMMA EnterMOK ==
  ASSUME HartOK, NEW i, NEW f, NEW flt \in Faults \cup {"none"}, NEW ill,
         NEW kind \in {"inst", "fetchfault", "forced"},
         EnterM(i, f, flt, ill, kind)
  PROVE  HartOK' /\ privilege' = M
<1> DEFINE base == (mstatus \ MppBits) \cup MppOf(privilege)
           ie   == "MIE" \in mstatus
<1>1. /\ mepc' = pc /\ sepc' = sepc /\ sframe' = sframe
      /\ privilege' = M /\ pc' = MtvecBase
      /\ mframe' = [pc |-> pc, priv |-> privilege, ie |-> ie]
      /\ mstatus' = CopyBit(base, "MIE", "MPIE") \ {"MIE"}
      /\ sstatus' = mstatus' \cap SView
  BY DEF EnterM, WriteMstatus
<1>2. trap' \in Trap
  BY CodesAreNat, EntersType DEF EnterM, U, S, M
<1>3. MtvecBase \in PC
  BY TrapUnitAssumption
<1>4. /\ MppOf(privilege) \subseteq MppBits
      /\ (IF "MPP0" \in MppOf(privilege) THEN 1 ELSE 0)
           + (IF "MPP1" \in MppOf(privilege) THEN 2 ELSE 0) = privilege
  BY MppRoundTrip DEF HartOK
<1>5. base \subseteq MStatus
  BY <1>4 DEF MStatus, HartOK
<1>6. mstatus' \subseteq MStatus
  BY <1>1, <1>5 DEF CopyBit, MStatus
<1>7. sstatus' = sstatus
  BY <1>1, <1>4 DEF HartOK, CopyBit, SView, MppBits
<1>8. /\ "MPP0" \in mstatus' <=> "MPP0" \in MppOf(privilege)
      /\ "MPP1" \in mstatus' <=> "MPP1" \in MppOf(privilege)
      /\ "MPIE" \in mstatus' <=> ie
  BY <1>1, <1>4 DEF CopyBit, MppBits
<1>9. Mpp' = privilege
  BY <1>4, <1>8 DEF Mpp
<1>10. ie \in BOOLEAN
  OBVIOUS
<1>11. mframe' \in Frame /\ MFrameIntact'
  <2> HIDE DEF ie
  <2>1. /\ mframe'.pc = pc /\ mframe'.priv = privilege /\ mframe'.ie = ie
        /\ mframe' \in Frame
    BY <1>1, <1>10 DEF Frame, HartOK
  <2> QED
    BY <1>1, <1>8, <1>9, <2>1 DEF MFrameIntact
<1>12. FramesIntact'
  <2>1. sepc' = sepc /\ sframe' = sframe
    BY <1>1
  <2>2. SFrameIntact => SFrameIntact'
    BY <2>1, <1>7 DEF SFrameIntact, Spp
  <2> QED
    BY <1>11, <2>1, <2>2 DEF HartOK, FramesIntact, FitsSpp
<1>13. /\ privilege' = M /\ pc' = MtvecBase /\ mepc' = pc /\ sepc' = sepc
       /\ sframe' = sframe /\ sstatus' = mstatus' \cap SView
  BY <1>1
<1> QED
  BY <1>2, <1>3, <1>6, <1>11, <1>12, <1>13 DEF HartOK, M

\* A trap into S saves its frame and leaves the machine bits alone.
LEMMA EnterSOK ==
  ASSUME HartOK, NEW i, NEW f, NEW flt \in Faults \cup {"none"},
         NEW kind \in {"inst", "fetchfault", "forced"},
         privilege # M,
         EnterS(i, f, flt, kind)
  PROVE  HartOK' /\ privilege' = S
<1> DEFINE base == IF privilege = S THEN sstatus \cup {"SPP"}
                                    ELSE sstatus \ {"SPP"}
           ie   == "SIE" \in sstatus
<1>1. /\ sepc' = pc /\ mepc' = mepc /\ mframe' = mframe
      /\ privilege' = S /\ pc' = StvecBase
      /\ sframe' = [pc |-> pc, priv |-> privilege, ie |-> ie]
      /\ sstatus' = CopyBit(base, "SIE", "SPIE") \ {"SIE"}
      /\ mstatus' = (mstatus \ SView) \cup (sstatus' \cap SView)
  BY DEF EnterS, WriteSstatus
<1>2. trap' \in Trap
  BY CodesAreNat, EntersType DEF EnterS, U, S, M
<1>3. StvecBase \in PC
  BY TrapUnitAssumption
<1>4. sstatus' \subseteq SView
  BY <1>1 DEF HartOK, CopyBit, SView
<1>5. mstatus' \subseteq MStatus /\ sstatus' = mstatus' \cap SView
  BY <1>1, <1>4 DEF HartOK, MStatus
<1>6. /\ "SPP" \in sstatus' <=> privilege = S
      /\ "SPIE" \in sstatus' <=> ie
  BY <1>1 DEF CopyBit
<1>7. /\ "MPP0" \in mstatus' <=> "MPP0" \in mstatus
      /\ "MPP1" \in mstatus' <=> "MPP1" \in mstatus
      /\ "MPIE" \in mstatus' <=> "MPIE" \in mstatus
  BY <1>1 DEF SView
<1>8. Mpp' = Mpp
  BY <1>7 DEF Mpp
<1>9. ie \in BOOLEAN
  OBVIOUS
<1>10. sframe' \in Frame /\ (FitsSpp(sframe') => SFrameIntact')
  <2> HIDE DEF ie
  <2>1. /\ sframe'.pc = pc /\ sframe'.priv = privilege /\ sframe'.ie = ie
        /\ sframe' \in Frame
    BY <1>1, <1>9 DEF Frame, HartOK
  <2>2. privilege # 2 => Spp' = privilege
    BY <1>6 DEF HartOK, Spp, U, S, M
  <2> QED
    BY <1>1, <1>6, <2>1, <2>2 DEF SFrameIntact, FitsSpp
<1>11. FramesIntact'
  BY <1>1, <1>7, <1>8, <1>10 DEF HartOK, FramesIntact, MFrameIntact, FitsSpp
<1> QED
  BY <1>1, <1>2, <1>3, <1>5, <1>10, <1>11 DEF HartOK, S

\* A return from M uses its frame up, and resumes it.
LEMMA MretOK ==
  ASSUME HartOK, Mret
  PROVE  HartOK' /\ trap' = NoTrap /\ ReturnsRight("mret")
<1>1. /\ mepc' = mepc /\ sepc' = sepc /\ sframe' = sframe
      /\ privilege' = Mpp /\ pc' = mepc
      /\ mframe' = NoFrame /\ trap' = NoTrap
      /\ mstatus' = (CopyBit(mstatus, "MPIE", "MIE") \cup {"MPIE"}) \ MppBits
      /\ sstatus' = mstatus' \cap SView
  BY DEF Mret, WriteMstatus, NoTrapTaken
<1>2. mstatus' \subseteq MStatus
  BY <1>1 DEF HartOK, CopyBit, MStatus
<1>3. sstatus' = sstatus
  BY <1>1 DEF HartOK, CopyBit, SView, MppBits
<1>4. privilege' \in 0 .. 3
  BY <1>1 DEF Mpp
<1>5. FramesIntact'
  BY <1>1, <1>3 DEF HartOK, FramesIntact, SFrameIntact, Spp, FitsSpp
<1>6. trap' \in Trap
  BY <1>1 DEF NoTrap, Trap, Causes
<1>7. ReturnsRight("mret")
  <2>1. "MIE" \in mstatus' <=> "MPIE" \in mstatus
    BY <1>1 DEF CopyBit, MppBits
  <2>2. mframe # NoFrame => MFrameIntact
    BY DEF HartOK, FramesIntact
  <2>3. sframe' = sframe /\ "mret" # "sret"
    BY <1>1
  <2> QED
    BY <1>1, <2>1, <2>2, <2>3 DEF ReturnsRight, Resumes, MFrameIntact
<1> QED
  BY <1>1, <1>2, <1>4, <1>5, <1>6, <1>7 DEF HartOK

\* A return from S uses its frame up, and resumes it.
LEMMA SretOK ==
  ASSUME HartOK, Sret
  PROVE  HartOK' /\ trap' = NoTrap /\ ReturnsRight("sret")
<1>1. /\ mepc' = mepc /\ sepc' = sepc /\ mframe' = mframe
      /\ privilege' = Spp /\ pc' = sepc
      /\ sframe' = NoFrame /\ trap' = NoTrap
      /\ sstatus' = (CopyBit(sstatus, "SPIE", "SIE") \cup {"SPIE"}) \ {"SPP"}
      /\ mstatus' = (mstatus \ SView) \cup (sstatus' \cap SView)
  BY DEF Sret, WriteSstatus, NoTrapTaken
<1>2. sstatus' \subseteq SView
  BY <1>1 DEF HartOK, CopyBit, SView
<1>3. mstatus' \subseteq MStatus /\ sstatus' = mstatus' \cap SView
  BY <1>1, <1>2 DEF HartOK, MStatus
<1>4. /\ "MPP0" \in mstatus' <=> "MPP0" \in mstatus
      /\ "MPP1" \in mstatus' <=> "MPP1" \in mstatus
      /\ "MPIE" \in mstatus' <=> "MPIE" \in mstatus
  BY <1>1 DEF SView
<1>5. Mpp' = Mpp
  BY <1>4 DEF Mpp
<1>6. FramesIntact'
  BY <1>1, <1>4, <1>5 DEF HartOK, FramesIntact, MFrameIntact
<1>7. trap' \in Trap /\ privilege' \in 0 .. 3 /\ privilege' # 2
  BY <1>1 DEF NoTrap, Trap, Causes, Spp, U, S
<1>8. ReturnsRight("sret")
  <2>1. "SIE" \in sstatus' <=> "SPIE" \in sstatus
    BY <1>1 DEF CopyBit
  <2>2. sframe # NoFrame /\ FitsSpp(sframe) => SFrameIntact
    BY DEF HartOK, FramesIntact
  <2>3. mframe' = mframe /\ "mret" # "sret"
    BY <1>1
  <2> QED
    BY <1>1, <1>7, <2>1, <2>2, <2>3 DEF ReturnsRight, Resumes, SFrameIntact
<1> QED
  BY <1>1, <1>3, <1>6, <1>7, <1>8 DEF HartOK

\* Nothing that HartOK speaks of but the pc changes.
LEMMA FallThroughOK ==
  ASSUME HartOK, pc' \in PC, NoTrapTaken,
         UNCHANGED <<privilege, statusVars, frameVars>>
  PROVE  HartOK' /\ trap' = NoTrap
<1>1. trap' = NoTrap /\ NoTrap \in Trap
  BY DEF NoTrapTaken, NoTrap, Trap, Causes
<1> QED
  BY <1>1 DEF HartOK, statusVars, frameVars, FramesIntact, FitsSpp,
              MFrameIntact, SFrameIntact, Mpp, Spp

\* A step that gives no frame up and keeps the privilege returns nowhere.
LEMMA NoReturn ==
  ASSUME NEW i, UNCHANGED privilege,
         UNCHANGED <<mframe, sframe>> \/ i \notin {"mret", "sret"}
  PROVE  ReturnsRight(i)
BY DEF ReturnsRight

\* The frame a trap saves is a frame.
LEMMA SavedFrame ==
  ASSUME HartOK, NEW i, NEW f, NEW flt, NEW ill, NEW kind,
         EnterM(i, f, flt, ill, kind) \/ EnterS(i, f, flt, kind)
  PROVE  /\ mframe' # NoFrame \/ mframe' = mframe
         /\ sframe' # NoFrame \/ sframe' = sframe
         /\ privilege' # 2
<1>1. /\ mframe'.priv = privilege \/ mframe' = mframe
      /\ sframe'.priv = privilege \/ sframe' = sframe
      /\ privilege' # 2
  BY DEF EnterM, EnterS, S, M
<1>2. privilege # -1 /\ NoFrame.priv = -1
  BY DEF HartOK, NoFrame
<1> QED
  BY <1>1, <1>2

\* A trap below M, or into M: what exception() does keeps HartOK, only
\* raises the privilege when it traps, and returns where it should.
LEMMA ExceptionOK ==
  ASSUME HartOK, NEW i, NEW f, NEW flt \in Faults \cup {"none"}, NEW ill,
         NEW kind \in {"inst", "fetchfault", "forced"},
         f \cap SIrqs # {} => privilege # M,
         flt # "none" => privilege # M,
         Exception(i, f, flt, ill, kind)
  PROVE  HartOK' /\ NoDescent /\ ReturnsRight(i)
<1>1. CASE EnterM(i, f, flt, ill, kind)
  <2>1. HartOK' /\ privilege' = M
    BY <1>1, EnterMOK
  <2>2. NoDescent
    BY <2>1 DEF NoDescent, HartOK, M
  <2>3. ReturnsRight(i)
    BY <1>1, SavedFrame DEF ReturnsRight
  <2> QED
    BY <2>1, <2>2, <2>3
<1>2. CASE STrap(i, f, flt) /\ EnterS(i, f, flt, kind)
  <2>1. privilege # M
    BY <1>2 DEF STrap, U, S, M
  <2>2. HartOK' /\ privilege' = S
    BY <1>2, <2>1, EnterSOK
  <2>3. NoDescent
    BY <2>1, <2>2 DEF NoDescent, HartOK, S, M
  <2>4. ReturnsRight(i)
    BY <1>2, SavedFrame DEF ReturnsRight
  <2> QED
    BY <2>2, <2>3, <2>4
<1>3. CASE i = "mret" /\ Mret
  BY <1>3, MretOK DEF NoDescent, Trapped, NoTrap
<1>4. CASE i = "sret" /\ Sret
  BY <1>4, SretOK DEF NoDescent, Trapped, NoTrap
<1>5. CASE FallThrough
  <2>1. HartOK' /\ trap' = NoTrap
    BY <1>5, FallThroughOK DEF FallThrough
  <2>2. ReturnsRight(i)
    BY <1>5, NoReturn DEF FallThrough, frameVars
  <2> QED
    BY <2>1, <2>2 DEF NoDescent, Trapped, NoTrap
<1> QED
  BY <1>1, <1>2, <1>3, <1>4, <1>5 DEF Exception

-----------------------------------------------------------------------------
(* Steps. *)

\* The hart part is a function of the variables it names.
LEMMA HartUnchanged ==
  ASSUME HartOK, UNCHANGED <<hartVars, trap>>
  PROVE  HartOK'
BY DEF HartOK, hartVars, statusVars, frameVars, FramesIntact, FitsSpp,
       MFrameIntact, SFrameIntact, Mpp, Spp

\* The flags of a fetched instruction.
LEMMA FetchedOK ==
  ASSUME Inv, NEW i \in Insts, Fetched(i)
  PROVE  /\ irq' \subseteq Irqs /\ inst' = i
         /\ interrupt_delivery_enable' = interrupt_delivery_enable
         /\ irq' \cap SIrqs # {} => privilege # M
BY ActiveType DEF Fetched, Inv, HartOK, U, S, M

\* The processor part when the CSRs are left alone.
LEMMA RestUnchanged ==
  ASSUME Inv, TimePasses, UNCHANGED <<enableVars, mip, paging>>
  PROVE  /\ EnablesOK'
         /\ mip' \subseteq Irqs /\ paging' \in BOOLEAN
         /\ timer_due' \in BOOLEAN
BY DEF Inv, EnablesOK, PendingOK, TimePasses, enableVars

\* The instructions and events that go through exception(), one by one.
LEMMA TrapSteps ==
  ASSUME Inv, FetchFault \/ IllegalSystem
              \/ \E i \in Insts : TrapOrReturn(i) \/ MemoryFault(i)
  PROVE  Inv' /\ NoDescent /\ ReturnsRight(inst')
<1>1. CASE FetchFault
  <2>1. inst \in Insts /\ privilege # M
    BY <1>1 DEF FetchFault, Inv, PendingOK
  <2>2. HartOK' /\ NoDescent /\ ReturnsRight(inst)
    BY <1>1, <2>1, ExceptionOK DEF FetchFault, Inv, Faults
  <2> QED
    BY <1>1, <2>2, RestUnchanged DEF FetchFault, Inv, PendingOK
<1>2. CASE IllegalSystem
  <2>1. HartOK' /\ NoDescent /\ ReturnsRight("badcsr")
    BY <1>2, ExceptionOK DEF IllegalSystem, Inv, Faults
  <2>2. "badcsr" \in Insts
    BY DEF Insts
  <2>3. irq' \subseteq Irqs /\ inst' = "badcsr"
        /\ interrupt_delivery_enable' = interrupt_delivery_enable
    BY <1>2, <2>2, FetchedOK DEF IllegalSystem, Undisturbed
  <2> QED
    BY <1>2, <2>1, <2>2, <2>3, RestUnchanged DEF IllegalSystem, Inv, PendingOK
<1>3. ASSUME NEW i \in Insts, TrapOrReturn(i)
      PROVE  Inv' /\ NoDescent /\ ReturnsRight(inst')
  <2>1. /\ irq' \subseteq Irqs /\ inst' = i
        /\ interrupt_delivery_enable' = interrupt_delivery_enable
        /\ irq' \cap SIrqs # {} => privilege # M
    BY <1>3, FetchedOK DEF TrapOrReturn
  <2>2. PICK f : f = irq'
    OBVIOUS
  <2>3. Exception(i, f, "none", FALSE, "inst")
    BY <1>3, <2>2 DEF TrapOrReturn
  <2>4. HartOK' /\ NoDescent /\ ReturnsRight(i)
    BY <2>1, <2>2, <2>3, ExceptionOK DEF Inv
  <2> QED
    BY <1>3, <2>1, <2>4, RestUnchanged DEF TrapOrReturn, Inv, PendingOK
<1>4. ASSUME NEW i \in Insts, MemoryFault(i)
      PROVE  Inv' /\ NoDescent /\ ReturnsRight(inst')
  <2>1. PICK flt \in {"LPF", "SPF"} : Exception(i, {}, flt, FALSE, "inst")
    BY <1>4 DEF MemoryFault
  <2>2. privilege # M
    BY <1>4 DEF MemoryFault
  <2>3. HartOK' /\ NoDescent /\ ReturnsRight(i)
    BY <2>1, <2>2, ExceptionOK DEF Inv, Faults
  <2>4. irq' \subseteq Irqs /\ inst' = i
        /\ interrupt_delivery_enable' = interrupt_delivery_enable
    BY <1>4, FetchedOK DEF MemoryFault, Undisturbed
  <2> QED
    BY <1>4, <2>3, <2>4, RestUnchanged DEF MemoryFault, Inv, PendingOK
<1> QED
  BY <1>1, <1>2, <1>3, <1>4

\* A step that takes no trap raises nothing.
LEMMA NoTrapOK ==
  ASSUME NoTrapTaken
  PROVE  trap' = NoTrap /\ trap' \in Trap /\ ~Trapped /\ NoDescent
BY DEF NoTrapTaken, NoTrap, Trap, Causes, Trapped, NoDescent

\* Instructions that neither trap nor touch a CSR that matters here.
LEMMA QuietSteps ==
  ASSUME Inv, Plain \/ IllegalZfinx
  PROVE  Inv' /\ NoDescent /\ ReturnsRight(inst')
<1>1. CASE Plain
  <2>1. irq' \subseteq Irqs /\ inst' = "plain" /\ "plain" \in Insts
        /\ interrupt_delivery_enable' = interrupt_delivery_enable
    BY <1>1, FetchedOK DEF Plain, Undisturbed, Insts
  <2>2. HartOK' /\ NoDescent /\ ReturnsRight(inst')
    BY <1>1, FallThroughOK, NoTrapOK, NoReturn DEF Plain, Inv, frameVars
  <2>3. EnablesOK' /\ paging' \in BOOLEAN
    BY <1>1 DEF Plain, Inv, EnablesOK, PendingOK, enableVars
  <2>4. mip' \subseteq Irqs /\ timer_due' \in BOOLEAN
    BY <1>1 DEF Plain, TimePasses, Inv, PendingOK, Irqs, SIrqs
  <2> QED
    BY <2>1, <2>2, <2>3, <2>4 DEF Inv, PendingOK
<1>2. CASE IllegalZfinx
  <2>1. irq' \subseteq Irqs /\ inst' = "badzfinx" /\ "badzfinx" \in Insts
        /\ interrupt_delivery_enable' = interrupt_delivery_enable
    BY <1>2, FetchedOK DEF IllegalZfinx, Undisturbed, Insts
  <2>2. HartOK' /\ NoDescent /\ ReturnsRight(inst')
    BY <1>2, FallThroughOK, NoTrapOK, NoReturn
       DEF IllegalZfinx, Inv, HartOK, hartVars, frameVars
  <2> QED
    BY <1>2, <2>1, <2>2, RestUnchanged DEF IllegalZfinx, Inv, PendingOK
<1> QED
  BY <1>1, <1>2

\* Writes to mstatus and sstatus: the views agree, frames are given up only
\* where the write can reach them.
LEMMA WriteStatusOK ==
  ASSUME HartOK, NEW op, WriteStatus(op), pc' \in PC, NoTrapTaken,
         UNCHANGED <<privilege, mepc, sepc>>
  PROVE  HartOK'
<1>1. trap' \in Trap
  BY NoTrapOK
<1>2. CASE op.csr = "mstatus"
  <2>1. /\ mstatus' \subseteq MStatus /\ sstatus' = mstatus' \cap SView
        /\ mframe' = NoFrame /\ sframe' = NoFrame
    BY <1>2 DEF WriteStatus, WriteMstatus
  <2> QED
    BY <1>1, <2>1 DEF HartOK, FramesIntact
<1>3. CASE op.csr = "sstatus"
  <2>1. /\ mstatus' = Merge(mstatus, CsrResult(op, sstatus), SView)
        /\ sstatus' = mstatus' \cap SView
        /\ sframe' = NoFrame /\ mframe' = mframe
    BY <1>3 DEF WriteStatus
  <2>2. mstatus' \subseteq MStatus
    BY <2>1 DEF HartOK, Merge, MStatus
  <2>3. /\ "MPP0" \in mstatus' <=> "MPP0" \in mstatus
        /\ "MPP1" \in mstatus' <=> "MPP1" \in mstatus
        /\ "MPIE" \in mstatus' <=> "MPIE" \in mstatus
    BY <2>1 DEF Merge, SView
  <2>4. Mpp' = Mpp
    BY <2>3 DEF Mpp
  <2> QED
    BY <1>1, <2>1, <2>2, <2>3, <2>4
       DEF HartOK, FramesIntact, MFrameIntact
<1> QED
  BY <1>2, <1>3 DEF WriteStatus

\* Writes to the enable and delegation CSRs.
LEMMA WriteEnablesOK ==
  ASSUME EnablesOK, NEW op, WriteEnables(op)
  PROVE  EnablesOK'
BY DEF EnablesOK, WriteEnables, Merge, Irqs

\* Writes to mip and sip: only interrupts become pending.
LEMMA WritePendingOK ==
  ASSUME mip \subseteq Irqs, NEW op, WritePending(op)
  PROVE  mip' \subseteq Irqs
BY DEF WritePending, Merge, SipWritable, Irqs, SIrqs

\* Writes to mepc and sepc give the frame up.
LEMMA WriteEpcOK ==
  ASSUME HartOK, NEW op, WriteEpc(op), pc' \in PC, NoTrapTaken,
         UNCHANGED <<privilege, statusVars>>
  PROVE  HartOK'
<1>1. trap' \in Trap
  BY NoTrapOK
<1>2. privilege' = privilege /\ mstatus' = mstatus /\ sstatus' = sstatus
  BY DEF statusVars
<1>3. CASE op.csr = "mepc"
  BY <1>1, <1>2, <1>3
     DEF WriteEpc, HartOK, FramesIntact, SFrameIntact, FitsSpp, Spp
<1>4. CASE op.csr = "sepc"
  BY <1>1, <1>2, <1>4
     DEF WriteEpc, HartOK, FramesIntact, MFrameIntact, Mpp
<1> QED
  BY <1>3, <1>4 DEF WriteEpc

\* CSR instructions, one disjunct per group of registers.
LEMMA CsrSteps ==
  ASSUME Inv, NEW op, CsrInstruction(op)
  PROVE  Inv' /\ NoDescent /\ ReturnsRight(inst')
<1>1. /\ irq' \subseteq Irqs /\ inst' = "plain" /\ "plain" \in Insts
      /\ interrupt_delivery_enable' = interrupt_delivery_enable
  BY FetchedOK DEF CsrInstruction, Undisturbed, Insts
<1>2. /\ pc' \in PC /\ NoTrapTaken /\ NoDescent /\ UNCHANGED privilege
      /\ timer_due' \in BOOLEAN
  BY NoTrapOK DEF CsrInstruction, TimePasses, Inv, PendingOK
<1>3. EnablesOK /\ UNCHANGED enableVars => EnablesOK'
  BY DEF EnablesOK, enableVars
<1>4. UNCHANGED <<statusVars, frameVars>> => HartOK'
  BY <1>2, FallThroughOK DEF Inv
<1>5. HartOK'
  <2>1. CASE WriteStatus(op) /\ UNCHANGED <<mepc, sepc>>
    BY <1>2, <2>1, WriteStatusOK DEF Inv
  <2>2. CASE WriteEpc(op) /\ UNCHANGED statusVars
    BY <1>2, <2>2, WriteEpcOK DEF Inv
  <2> QED
    BY <1>4, <2>1, <2>2 DEF CsrInstruction
<1>6. EnablesOK'
  BY <1>3, WriteEnablesOK DEF CsrInstruction, Inv
<1>7. mip' \subseteq Irqs /\ paging' \in BOOLEAN
  BY WritePendingOK DEF CsrInstruction, Inv, PendingOK
<1>8. ReturnsRight(inst')
  BY <1>1, <1>2, NoReturn
<1> QED
  BY <1>1, <1>2, <1>5, <1>6, <1>7, <1>8 DEF Inv, PendingOK

\* The calls of a co-simulation.
LEMMA CallSteps ==
  ASSUME Inv, Call
  PROVE  Inv' /\ NoDescent /\ ReturnsRight(inst')
<1>1. CASE SetInterruptDelivery
  <2>1. HartOK' /\ NoDescent /\ ReturnsRight(inst')
    BY <1>1, FallThroughOK, NoTrapOK, NoReturn
       DEF SetInterruptDelivery, Inv, HartOK, hartVars, frameVars
  <2> QED
    BY <1>1, <2>1
       DEF SetInterruptDelivery, Inv, EnablesOK, PendingOK, enableVars
<1>2. ASSUME NEW snapshot \in Snapshots,
             RefuseInterrupt(snapshot) \/ \E k \in 1 .. 6 :
                                            ForceInterrupt(snapshot, k)
      PROVE  Inv' /\ NoDescent /\ ReturnsRight(inst')
  <2>1. mip' \subseteq Irqs
    BY <1>2, TrapUnitAssumption DEF RefuseInterrupt, ForceInterrupt, Inv,
                                    PendingOK
  <2>2. EnablesOK'
    BY <1>2 DEF RefuseInterrupt, ForceInterrupt, Inv, EnablesOK, enableVars
  <2>3. CASE RefuseInterrupt(snapshot)
    <3>1. HartOK' /\ NoDescent /\ ReturnsRight(inst')
      BY <2>3, FallThroughOK, NoTrapOK, NoReturn
         DEF RefuseInterrupt, Inv, HartOK, hartVars, frameVars
    <3> QED
      BY <2>1, <2>2, <2>3, <3>1, ActiveType DEF RefuseInterrupt, Inv, PendingOK
  <2>4. ASSUME NEW k \in 1 .. 6, ForceInterrupt(snapshot, k)
        PROVE  Inv' /\ NoDescent /\ ReturnsRight(inst')
    <3>1. Exception("plain", Active(snapshot), "none", FALSE, "forced")
      BY <2>4 DEF ForceInterrupt
    <3>2. Active(snapshot) \cap SIrqs # {} => privilege # M
      BY ActiveType DEF Inv, HartOK, U, S, M
    <3>3. HartOK' /\ NoDescent /\ ReturnsRight("plain")
      BY <3>1, <3>2, ExceptionOK DEF Inv
    <3> QED
      BY <2>1, <2>2, <2>4, <3>3 DEF ForceInterrupt, Inv, PendingOK, Insts
  <2> QED
    BY <1>2, <2>3, <2>4
<1> QED
  BY <1>1, <1>2 DEF Call

-----------------------------------------------------------------------------
(* Theorems. *)

LEMMA InitOK == Init => Inv
<1> SUFFICES ASSUME Init PROVE Inv
  OBVIOUS
<1>1. EnablesOK /\ PendingOK
  BY DEF Init, EnablesOK, PendingOK, Insts
<1>2. NoTrap \in Trap
  BY DEF NoTrap, Trap, Causes
<1>3. FramesIntact
  BY DEF Init, FramesIntact
<1> QED
  BY <1>1, <1>2, <1>3, TrapUnitAssumption DEF Init, Inv, HartOK, M

LEMMA StepOK ==
  ASSUME Inv, Next
  PROVE  Inv' /\ NoDescent /\ ReturnsRight(inst')
BY TrapSteps, QuietSteps, CsrSteps, CallSteps DEF Next, Step

LEMMA Inductive == Inv /\ [Next]_vars => Inv'
<1>1. Inv /\ UNCHANGED vars => Inv'
  BY HartUnchanged DEF vars, Inv, EnablesOK, PendingOK, enableVars, hartVars
<1> QED
  BY <1>1, StepOK

\* The CSRs hold bits they have, the privilege and the frames are well formed.
THEOREM TypeCorrect == Spec => []TypeOK
<1>1. Inv => TypeOK
  BY DEF Inv, HartOK, EnablesOK, PendingOK, TypeOK
<1> QED
  BY <1>1, InitOK, Inductive, PTL DEF Spec

\* The supervisor CSRs are views of the machine ones, however the guest, the
\* traps and the caller interleave.
THEOREM Shadows == Spec => []ShadowsAgree
<1>1. Inv => ShadowsAgree
  BY DEF Inv, HartOK, EnablesOK, ShadowsAgree
<1> QED
  BY <1>1, InitOK, Inductive, PTL DEF Spec

\* What a trap saved is there when it is returned from, whatever the other
\* mode does meanwhile.
THEOREM Frames == Spec => []FramesIntact
<1>1. Inv => FramesIntact
  BY DEF Inv, HartOK
<1> QED
  BY <1>1, InitOK, Inductive, PTL DEF Spec

\* A return resumes what its trap interrupted, and the reserved privilege is
\* entered only through an MPP that the guest wrote.
THEOREM ReturnsHome == Spec => ReturnsToOrigin
<1>1. Inv /\ [Next]_vars => [ReturnsRight(inst')]_vars
  BY StepOK
<1>2. ReturnsRight(inst') =>
        /\ inst' = "mret" /\ mframe # NoFrame /\ mframe' = NoFrame
             => Resumes(mframe, "MIE" \in mstatus')
        /\ inst' = "sret" /\ sframe # NoFrame /\ sframe' = NoFrame
             /\ FitsSpp(sframe) => Resumes(sframe, "SIE" \in sstatus')
        /\ privilege' = 2 /\ privilege # 2
             => inst' = "mret" /\ (mframe = NoFrame \/ mframe.priv = 2)
  BY DEF ReturnsRight
<1> QED
  BY <1>1, <1>2, InitOK, Inductive, PTL DEF Spec, ReturnsToOrigin

\* No trap lowers the privilege, but one from the reserved 2 into S.
THEOREM NeverDescends == Spec => TrapNeverDescends
<1>1. Inv /\ [Next]_vars => [NoDescent]_vars
  BY StepOK
<1>2. NoDescent <=> (Trapped => \/ privilege' >= privilege
                                \/ privilege = 2 /\ privilege' = S)
  BY DEF NoDescent
<1> QED
  BY <1>1, <1>2, InitOK, Inductive, PTL DEF Spec, TrapNeverDescends

-----------------------------------------------------------------------------
(* Causes.  The flags a step acts on are those of Active, evaluated in that  *)
(* step, unless it is a fetch fault; an interrupt flag says that its mode    *)
(* lets it in and that an interrupt of that mode is pending and enabled.     *)

\* Six interrupts, in the order of Priority and with the codes of Codes.
LEMMA PriorityTable ==
  /\ Priority[1] = "MSI" /\ Priority[2] = "MTI" /\ Priority[3] = "MEI"
  /\ Priority[4] = "SEI" /\ Priority[5] = "STI" /\ Priority[6] = "SSI"
  /\ Codes[1] = 3 /\ Codes[2] = 7 /\ Codes[3] = 11
  /\ Codes[4] = 9 /\ Codes[5] = 5 /\ Codes[6] = 1
BY DEF Priority, Codes

\* The code of an interrupt is that of its place in Priority.
LEMMA IrqCodes == \A k \in 1 .. 6 : IrqCodeOf(Priority[k]) = Codes[k]
<1> TAKE k \in 1 .. 6
<1> DEFINE c == CHOOSE j \in 1 .. 6 : Priority[j] = Priority[k]
<1>1. c \in 1 .. 6 /\ Priority[c] = Priority[k]
  OBVIOUS
<1> HIDE DEF c
<1>2. c = k
  <2>1. /\ c = 1 \/ c = 2 \/ c = 3 \/ c = 4 \/ c = 5 \/ c = 6
        /\ k = 1 \/ k = 2 \/ k = 3 \/ k = 4 \/ k = 5 \/ k = 6
    BY <1>1
  <2> QED
    BY <1>1, <2>1, PriorityTable
<1> QED
  BY <1>2 DEF IrqCodeOf, c

\* What a raised machine flag says.
LEMMA MachineFlag ==
  ASSUME HartOK, NEW pending, NEW x \in Active(pending) \cap MIrqs
  PROVE  /\ x \in pending \cap mie /\ Open(M)
         /\ HomeOf(x) = M /\ ReportedAs(x, M) = x
<1>1. MIrqs \cap SIrqs = {}
  BY DEF MIrqs, SIrqs
<1>2. x \in pending \cap mie /\ x \notin mideleg /\ x \notin SIrqs
  BY <1>1 DEF Active
<1>3. privilege < M \/ "MIE" \in mstatus
  BY <1>1 DEF Active
<1> QED
  BY <1>2, <1>3 DEF HartOK, Open, HomeOf, ReportedAs, S, M

\* What a raised supervisor flag says: it stands for itself, or for the
\* delegated machine interrupt of its kind.
LEMMA SupervisorFlag ==
  ASSUME HartOK, NEW pending, NEW s \in Active(pending) \cap SIrqs
  PROVE  /\ Open(S)
         /\ \E x \in pending \cap mie : HomeOf(x) = S /\ ReportedAs(x, S) = s
<1>1. MIrqs \cap SIrqs = {}
  BY DEF MIrqs, SIrqs
<1>2. privilege < S \/ (privilege = S /\ "SIE" \in mstatus)
  BY <1>1 DEF Active
<1>3. Open(S)
  BY <1>2 DEF HartOK, Open, SView, S, M
<1>4. \/ s \in pending \cap mie
      \/ \E m \in MIrqs : SOf(m) = s /\ m \in pending \cap mie /\ m \in mideleg
  BY <1>1 DEF Active
<1> QED
  BY <1>1, <1>3, <1>4 DEF HomeOf, ReportedAs

\* The cause of an interrupt taken into M is the machine flag that comes
\* first.
LEMMA MachineIrqCode ==
  ASSUME NEW f, NEW i, NEW flt, NEW ill, f \cap MIrqs # {}
  PROVE  \E k \in 1 .. 3 : Selects(f, k) /\ MCode(i, f, flt, ill) = Codes[k]
<1>1. "MSI" \in f \/ "MTI" \in f \/ "MEI" \in f
  BY DEF MIrqs
<1>2. CASE "MSI" \in f
  BY <1>2, PriorityTable DEF Selects, MCode
<1>3. CASE "MSI" \notin f /\ "MTI" \in f
  <2>1. \A j \in 1 .. 2 - 1 : j = 1
    OBVIOUS
  <2> QED
    BY <1>3, <2>1, PriorityTable DEF Selects, MCode
<1>4. CASE "MSI" \notin f /\ "MTI" \notin f /\ "MEI" \in f
  <2>1. \A j \in 1 .. 3 - 1 : j = 1 \/ j = 2
    OBVIOUS
  <2> QED
    BY <1>4, <2>1, PriorityTable DEF Selects, MCode
<1> QED
  BY <1>1, <1>2, <1>3, <1>4

\* The cause of an interrupt taken into S is the supervisor flag that comes
\* first, unless the instruction is an ecall.
LEMMA SupervisorIrqCode ==
  ASSUME NEW f, NEW i, NEW flt, f \cap MIrqs = {}, f \cap SIrqs # {},
         i # "ecall"
  PROVE  \E k \in 4 .. 6 : Selects(f, k) /\ SCode(i, f, flt) = Codes[k]
<1>1. "SEI" \in f \/ "STI" \in f \/ "SSI" \in f
  BY DEF SIrqs
<1>2. "MSI" \notin f /\ "MTI" \notin f /\ "MEI" \notin f
  BY DEF MIrqs
<1>3. CASE "SEI" \in f
  <2>1. \A j \in 1 .. 4 - 1 : j = 1 \/ j = 2 \/ j = 3
    OBVIOUS
  <2> QED
    BY <1>2, <1>3, <2>1, PriorityTable DEF Selects, SCode
<1>4. CASE "SEI" \notin f /\ "STI" \in f
  <2>1. \A j \in 1 .. 5 - 1 : j = 1 \/ j = 2 \/ j = 3 \/ j = 4
    OBVIOUS
  <2> QED
    BY <1>2, <1>4, <2>1, PriorityTable DEF Selects, SCode
<1>5. CASE "SEI" \notin f /\ "STI" \notin f /\ "SSI" \in f
  <2>1. \A j \in 1 .. 6 - 1 : j = 1 \/ j = 2 \/ j = 3 \/ j = 4 \/ j = 5
    OBVIOUS
  <2> QED
    BY <1>2, <1>5, <2>1, PriorityTable DEF Selects, SCode
<1> QED
  BY <1>1, <1>3, <1>4, <1>5

\* A selected machine flag is one of M's, a selected supervisor flag one of
\* S's.
LEMMA SelectedFlag ==
  ASSUME NEW f, NEW k \in 1 .. 6, Selects(f, k)
  PROVE  /\ Priority[k] \in f
         /\ k \in 1 .. 3 => Priority[k] \in MIrqs
         /\ k \in 4 .. 6 => Priority[k] \in SIrqs /\ f \cap MIrqs = {}
<1>1. k = 1 \/ k = 2 \/ k = 3 \/ k = 4 \/ k = 5 \/ k = 6
  OBVIOUS
<1>2. k \in 4 .. 6 =>
        Priority[1] \notin f /\ Priority[2] \notin f /\ Priority[3] \notin f
  BY DEF Selects
<1> QED
  BY <1>1, <1>2, PriorityTable DEF Selects, MIrqs, SIrqs

\* exception() takes the flag that comes first, into the mode it belongs to;
\* an ecall gives way to machine flags only.
LEMMA IrqTaken ==
  ASSUME NEW f \in SUBSET Irqs, f # {}, NEW i, NEW kind,
         i = "ecall" => f \cap MIrqs # {},
         Exception(i, f, "none", FALSE, kind)
  PROVE  \E k \in 1 .. 6 :
           /\ Selects(f, k)
           /\ privilege' = LevelOf(k)
           /\ trap' = [kind |-> kind, level |-> LevelOf(k),
                       cause |-> [irq |-> TRUE, code |-> Codes[k]]]
<1>1. CASE f \cap MIrqs # {}
  <2>1. EnterM(i, f, "none", FALSE, kind)
    BY <1>1 DEF Exception, MTrap
  <2>2. PICK k \in 1 .. 3 : Selects(f, k) /\ MCode(i, f, "none", FALSE) = Codes[k]
    BY <1>1, MachineIrqCode
  <2>3. LevelOf(k) = M
    BY DEF LevelOf
  <2>4. /\ privilege' = M
        /\ trap' = [kind |-> kind, level |-> M,
                    cause |-> [irq |-> TRUE,
                               code |-> MCode(i, f, "none", FALSE)]]
    <3>1. (f \cap MIrqs # {}) = TRUE
      BY <1>1
    <3> QED
      BY <2>1, <3>1 DEF EnterM, Enters
  <2>5. k \in 1 .. 6
    OBVIOUS
  <2> QED
    BY <2>2, <2>3, <2>4, <2>5
<1>2. CASE f \cap MIrqs = {}
  <2>1. f \cap SIrqs # {} /\ i # "ecall"
    BY <1>2 DEF Irqs
  <2>2. EnterS(i, f, "none", kind)
    BY <1>2, <2>1 DEF Exception, MTrap, STrap
  <2>3. PICK k \in 4 .. 6 : Selects(f, k) /\ SCode(i, f, "none") = Codes[k]
    BY <1>2, <2>1, SupervisorIrqCode
  <2>4. LevelOf(k) = S
    BY DEF LevelOf
  <2>5. /\ privilege' = S
        /\ trap' = [kind |-> kind, level |-> S,
                    cause |-> [irq |-> TRUE, code |-> SCode(i, f, "none")]]
    <3>1. (f \cap SIrqs # {}) = TRUE
      BY <2>1
    <3> QED
      BY <2>2, <3>1 DEF EnterS, Enters
  <2>6. k \in 1 .. 6
    OBVIOUS
  <2> QED
    BY <2>3, <2>4, <2>5, <2>6
<1> QED
  BY <1>1, <1>2

\* The interrupt taken is open, pending and enabled, and reported as its own.
LEMMA IrqIsReal ==
  ASSUME HartOK, NEW pending, NEW k \in 1 .. 6, Selects(Active(pending), k)
  PROVE  /\ Open(LevelOf(k))
         /\ \E x \in pending \cap mie :
              /\ HomeOf(x) = LevelOf(k)
              /\ Codes[k] = IrqCodeOf(ReportedAs(x, LevelOf(k)))
<1>1. Priority[k] \in Active(pending) /\ IrqCodeOf(Priority[k]) = Codes[k]
  BY SelectedFlag, IrqCodes
<1>2. CASE k \in 1 .. 3
  <2>1. LevelOf(k) = M
    BY <1>2 DEF LevelOf
  <2> QED
    BY <1>1, <1>2, <2>1, SelectedFlag, MachineFlag
<1>3. CASE k \in 4 .. 6
  <2>1. LevelOf(k) = S
    BY <1>3 DEF LevelOf
  <2> QED
    BY <1>1, <1>3, <2>1, SelectedFlag, SupervisorFlag
<1> QED
  BY <1>2, <1>3

\* An interrupt taken by a fetched or forced instruction has a real cause.
LEMMA IrqCause ==
  ASSUME HartOK, NEW f, NEW i, NEW kind \in {"inst", "forced"}, f # {},
         f = Active(IF kind = "forced" THEN mip'
                    ELSE IF interrupt_delivery_enable THEN EffectiveMip(mip)
                    ELSE {}),
         i = "ecall" => f \cap MIrqs # {},
         Exception(i, f, "none", FALSE, kind)
  PROVE  CauseIsReal
<1>1. PICK k \in 1 .. 6 :
        /\ Selects(f, k)
        /\ trap' = [kind |-> kind, level |-> LevelOf(k),
                    cause |-> [irq |-> TRUE, code |-> Codes[k]]]
  BY ActiveType, IrqTaken, ZenonT(60)
<1>2. /\ trap'.kind = kind /\ trap'.level = LevelOf(k)
      /\ trap'.cause.irq = TRUE /\ trap'.cause.code = Codes[k]
  BY <1>1
<1>3. f = Active(Pending)
  BY <1>2 DEF Pending
<1> QED
  BY <1>1, <1>2, <1>3, IrqIsReal DEF CauseIsReal

\* With no interrupt flag, a trap reports the exception it was raised for.
LEMMA ExceptionCause ==
  ASSUME NEW i, NEW flt \in Faults \cup {"none"}, NEW ill \in BOOLEAN, NEW kind,
         Exception(i, {}, flt, ill, kind), Trapped,
         i = "ecall" => /\ flt = "none"
                        /\ ~(privilege = M /\ "UECALL" \in medeleg),
         ill => flt = "none" /\ i # "ecall"
  PROVE  /\ trap'.kind = kind
         /\ trap'.cause.irq = FALSE
         /\ trap'.cause.code = IF i = "ecall" THEN 8 + privilege
                               ELSE IF ill THEN 2 ELSE FaultCode(flt)
         /\ i = "ecall" \/ ill \/ flt # "none"
<1>1. MTrap(i, {}, flt, ill) \/ STrap(i, {}, flt)
  BY DEF Exception, Mret, Sret, FallThrough, NoTrapTaken, NoTrap, Trapped
<1>2. CASE MTrap(i, {}, flt, ill)
  <2>1. trap' = [kind |-> kind, level |-> M,
                 cause |-> [irq |-> FALSE, code |-> MCode(i, {}, flt, ill)]]
    <3>1. EnterM(i, {}, flt, ill, kind)
      BY <1>2 DEF Exception
    <3>2. ({} \cap MIrqs # {}) = FALSE
      OBVIOUS
    <3> QED
      BY <3>1, <3>2 DEF EnterM, Enters
  <2>2. MCode(i, {}, flt, ill) = IF i = "ecall" THEN 8 + privilege
                                 ELSE IF ill THEN 2 ELSE FaultCode(flt)
    BY <1>2 DEF MTrap, MCode, U, S, M
  <2> QED
    BY <1>2, <2>1, <2>2 DEF MTrap
<1>3. CASE ~MTrap(i, {}, flt, ill) /\ STrap(i, {}, flt)
  <2>1. trap' = [kind |-> kind, level |-> S,
                 cause |-> [irq |-> FALSE, code |-> SCode(i, {}, flt)]]
    <3>1. EnterS(i, {}, flt, kind)
      BY <1>3 DEF Exception
    <3>2. ({} \cap SIrqs # {}) = FALSE
      OBVIOUS
    <3> QED
      BY <3>1, <3>2 DEF EnterS, Enters
  <2>2. SCode(i, {}, flt) = IF i = "ecall" THEN 8 + privilege
                            ELSE IF ill THEN 2 ELSE FaultCode(flt)
    BY <1>3 DEF STrap, MTrap, SCode, U, S, M
  <2> QED
    BY <1>3, <2>1, <2>2 DEF STrap, MTrap
<1> QED
  BY <1>1, <1>2, <1>3

\* exception() marks its traps with the kind of step it is called for.
LEMMA ExceptionKind ==
  ASSUME NEW i, NEW f, NEW flt, NEW ill, NEW kind, Exception(i, f, flt, ill, kind)
  PROVE  trap' = NoTrap \/ trap'.kind = kind
BY DEF Exception, EnterM, EnterS, Enters, Mret, Sret, FallThrough, NoTrapTaken

\* The instructions that go through exception().
LEMMA StepCauses ==
  ASSUME Inv, Trapped, ~StaleFetchFault, ~EcallWithIrq,
         ~(MachineEcall /\ "UECALL" \in medeleg),
         FetchFault \/ IllegalSystem
           \/ \E i \in Insts : TrapOrReturn(i) \/ MemoryFault(i)
  PROVE  CauseIsReal
<1> USE DEF FaultCode
<1>0. trap' # NoTrap
  BY DEF Trapped, NoTrap
<1>1. CASE FetchFault
  <2>1. Exception(inst, irq, "IPF", FALSE, "fetchfault")
    BY <1>1 DEF FetchFault
  <2>2. trap'.kind = "fetchfault"
    BY <1>0, <2>1, ExceptionKind
  <2>3. irq = {} /\ inst # "ecall"
    BY <2>2 DEF StaleFetchFault
  <2>4. trap'.cause.irq = FALSE /\ trap'.cause.code = 12
    <3>1. Exception(inst, {}, "IPF", FALSE, "fetchfault")
      BY <2>1, <2>3
    <3> QED
      BY <2>3, <3>1, ExceptionCause DEF Faults
  <2> QED
    BY <2>2, <2>4 DEF CauseIsReal, Exceptions
<1>2. CASE IllegalSystem
  <2>1. Exception("badcsr", {}, "none", TRUE, "inst") /\ inst' = "badcsr"
    BY <1>2 DEF IllegalSystem, Undisturbed, Fetched
  <2>2. /\ trap'.kind = "inst" /\ trap'.cause.irq = FALSE
        /\ trap'.cause.code = 2
    <3>1. TRUE \in BOOLEAN /\ "none" \in Faults \cup {"none"} /\ "badcsr" # "ecall"
      OBVIOUS
    <3>2. /\ trap'.kind = "inst"
          /\ trap'.cause.irq = FALSE
          /\ trap'.cause.code = IF "badcsr" = "ecall" THEN 8 + privilege
                                ELSE IF TRUE THEN 2 ELSE FaultCode("none")
      BY <2>1, <3>1, ExceptionCause, Zenon
    <3> QED
      BY <3>2
  <2> QED
    BY <2>1, <2>2 DEF CauseIsReal, Exceptions
<1>3. ASSUME NEW i \in Insts, TrapOrReturn(i)
      PROVE  CauseIsReal
  <2>1. PICK f : f = irq'
    OBVIOUS
  <2>2. /\ Exception(i, f, "none", FALSE, "inst") /\ inst' = i
        /\ f = Active(IF interrupt_delivery_enable THEN EffectiveMip(mip)
                      ELSE {})
    BY <1>3, <2>1 DEF TrapOrReturn, Fetched
  <2>3. trap'.kind = "inst"
    BY <1>0, <2>2, ExceptionKind
  <2>4. i = "ecall" => f \cap SIrqs = {}
    BY <2>1, <2>2, <2>3 DEF EcallWithIrq
  <2>5. CASE f = {}
    <3>1. Exception(i, {}, "none", FALSE, "inst")
      BY <2>2, <2>5
    <3>2. i = "ecall" => ~(privilege = M /\ "UECALL" \in medeleg)
      BY <2>2, <2>3 DEF MachineEcall
    <3>3. /\ trap'.cause.irq = FALSE /\ i = "ecall"
          /\ trap'.cause.code = 8 + privilege
      BY <3>1, <3>2, ExceptionCause
    <3> QED
      BY <2>2, <2>3, <3>3 DEF CauseIsReal, Exceptions
  <2>6. CASE f # {}
    <3>1. f \subseteq Irqs
      BY <2>2, ActiveType
    <3>2. i = "ecall" => f \cap MIrqs # {}
      BY <2>4, <2>6, <3>1 DEF Irqs
    <3> QED
      BY <2>2, <2>6, <3>2, IrqCause DEF Inv
  <2> QED
    BY <2>5, <2>6
<1>4. ASSUME NEW i \in Insts, MemoryFault(i)
      PROVE  CauseIsReal
  <2>1. PICK flt \in {"LPF", "SPF"} :
          /\ Exception(i, {}, flt, FALSE, "inst")
          /\ flt = "LPF" => i = "load"
          /\ flt = "SPF" => i = "store"
          /\ inst' = i
    BY <1>4 DEF MemoryFault, Undisturbed, Fetched
  <2>2. /\ trap'.kind = "inst" /\ trap'.cause.irq = FALSE
        /\ trap'.cause.code = IF flt = "LPF" THEN 13 ELSE 15
    BY <2>1, ExceptionCause DEF Faults
  <2> QED
    BY <2>1, <2>2 DEF CauseIsReal, Exceptions
<1> QED
  BY <1>1, <1>2, <1>3, <1>4

\* A forced interrupt acts on the flags of the caller's snapshot.
LEMMA ForcedStep ==
  ASSUME Inv, NEW snapshot \in Snapshots, NEW n \in 1 .. 6,
         ForceInterrupt(snapshot, n)
  PROVE  /\ mip' = snapshot /\ Active(snapshot) # {}
         /\ Exception("plain", Active(snapshot), "none", FALSE, "forced")
<1>1. mip' = snapshot
  BY TrapUnitAssumption DEF ForceInterrupt, Inv, PendingOK
<1>2. Priority[n] \in Active(snapshot)
  BY DEF ForceInterrupt, Selects
<1> QED
  BY <1>1, <1>2 DEF ForceInterrupt

\* The cause of every trap a step takes is real, but for the three kinds of
\* step that misreport.
LEMMA CausesStep ==
  ASSUME Inv, Next, Trapped, ~StaleFetchFault, ~EcallWithIrq,
         ~(MachineEcall /\ "UECALL" \in medeleg)
  PROVE  CauseIsReal
<1>1. CASE Step
  <2>1. Plain \/ IllegalZfinx \/ (\E op \in CsrOps : CsrInstruction(op))
          => ~Trapped
    BY NoTrapOK DEF Plain, IllegalZfinx, CsrInstruction
  <2> QED
    BY <1>1, <2>1, StepCauses DEF Step
<1>2. ASSUME NEW snapshot \in Snapshots, NEW n \in 1 .. 6,
             ForceInterrupt(snapshot, n)
      PROVE  CauseIsReal
  <2>1. PICK f : f = Active(snapshot)
    OBVIOUS
  <2>2. /\ mip' = snapshot /\ f # {}
        /\ Exception("plain", f, "none", FALSE, "forced")
    BY <1>2, <2>1, ForcedStep
  <2> QED
    BY <2>1, <2>2, IrqCause DEF Inv
<1>3. ~NoTrapTaken
  BY NoTrapOK
<1> QED
  BY <1>1, <1>2, <1>3 DEF Next, Call, RefuseInterrupt, SetInterruptDelivery

\* Only ForceInterrupt takes forced traps.
LEMMA ForcedOnlyByForce ==
  ASSUME Inv, Next, trap'.kind = "forced"
  PROVE  \E snapshot \in Snapshots, n \in 1 .. 6 : ForceInterrupt(snapshot, n)
<1>1. ~NoTrapTaken /\ trap' # NoTrap
  BY DEF NoTrapTaken, NoTrap
<1>2. ~FetchFault
  BY <1>1, ExceptionKind DEF FetchFault
<1>3. ~IllegalSystem
  BY <1>1, ExceptionKind DEF IllegalSystem
<1>4. \A i \in Insts : ~TrapOrReturn(i)
  <2> SUFFICES ASSUME NEW i \in Insts, TrapOrReturn(i) PROVE FALSE
    OBVIOUS
  <2>1. PICK f : f = irq'
    OBVIOUS
  <2>2. Exception(i, f, "none", FALSE, "inst")
    BY <2>1 DEF TrapOrReturn
  <2> QED
    BY <1>1, <2>2, ExceptionKind
<1>5. \A i \in Insts : ~MemoryFault(i)
  BY <1>1, ExceptionKind DEF MemoryFault
<1> QED
  BY <1>1, <1>2, <1>3, <1>4, <1>5
     DEF Next, Step, Call, Plain, IllegalZfinx, CsrInstruction,
         RefuseInterrupt, SetInterruptDelivery

\* Every trap reports a cause that is real and belongs to the mode entered,
\* but for the steps StaleFetchFault, EcallWithIrq and the ecall of M name
\* (exception, evaluate_interrupts).
THEOREM RealCauses == Spec => CausesAreReal
<1>1. Inv /\ [Next]_vars =>
        [Trapped /\ ~StaleFetchFault /\ ~EcallWithIrq
         /\ ~(MachineEcall /\ "UECALL" \in medeleg) => CauseIsReal]_vars
  BY CausesStep
<1> QED
  BY <1>1, InitOK, Inductive, PTL DEF Spec, CausesAreReal

\* A forced interrupt is the candidate take_forced_interrupt selected, with
\* its mode and its cause, though exception() decides again.
THEOREM ForcedIsAsked == Spec => ForcedAsAsked
<1> DEFINE Asked == \E k \in 1 .. 6 :
                      /\ Selects(Active(mip'), k)
                      /\ privilege' = LevelOf(k)
                      /\ trap'.level = LevelOf(k)
                      /\ trap'.cause = [irq |-> TRUE, code |-> Codes[k]]
<1>1. ASSUME Inv, Next, trap'.kind = "forced" PROVE Asked
  <2>1. PICK snapshot \in Snapshots, n \in 1 .. 6 : ForceInterrupt(snapshot, n)
    BY <1>1, ForcedOnlyByForce
  <2>2. PICK f : f = Active(snapshot)
    OBVIOUS
  <2>3. /\ mip' = snapshot /\ f # {} /\ f \in SUBSET Irqs
        /\ Exception("plain", f, "none", FALSE, "forced")
    BY <1>1, <2>1, <2>2, ForcedStep, ActiveType
  <2>4. PICK k \in 1 .. 6 :
          /\ Selects(f, k)
          /\ privilege' = LevelOf(k)
          /\ trap' = [kind |-> "forced", level |-> LevelOf(k),
                      cause |-> [irq |-> TRUE, code |-> Codes[k]]]
    BY <2>3, IrqTaken
  <2> QED
    BY <2>2, <2>3, <2>4
<1>2. Inv /\ [Next]_vars => [trap'.kind = "forced" => Asked]_vars
  BY <1>1
<1> QED
  BY <1>2, InitOK, Inductive, PTL DEF Spec, ForcedAsAsked

-----------------------------------------------------------------------------
(* The devices. *)

DevicesInv == DevicesTypeOK /\ LinesFollow /\ SeipIsOutput /\ IirIsLevel

\* The names of the lines and of the bits are different.
LEMMA LineNames ==
  /\ Lines = {"uart", "cmd", "dat"} /\ SdLines = {"cmd", "dat"}
  /\ MerBits = {"ME", "HIE"}
  /\ SdLines \subseteq Lines /\ "uart" \in Lines \ SdLines
BY DEF Lines, SdLines, MerBits

\* Driving lines makes their bits agree with the levels they are driven to,
\* leaves the others as they are, and leaves SEIP right.
LEMMA DriveIsRight ==
  ASSUME DevicesTypeOK, SeipIsOutput,
         NEW up \in SUBSET Lines, NEW down \in SUBSET Lines,
         Drive(up, down)
  PROVE  /\ isr' \subseteq Lines /\ ier' = ier /\ mer' = mer
         /\ acked' \subseteq Lines
         /\ seip' \in BOOLEAN /\ overridden' \in BOOLEAN
         /\ \A d \in Lines \ (up \cup down) : /\ d \in isr' <=> d \in isr
                                              /\ d \in acked' <=> d \in acked
         /\ \A d \in up : d \in isr'
         /\ \A d \in down \ up : d \notin isr'
         /\ SeipIsOutput'
<1>1. CASE up \cup down = {}
  BY <1>1 DEF Drive, DevicesTypeOK, SeipIsOutput
<1>2. CASE up \cup down # {}
  BY <1>2 DEF Drive, Refresh, Output, DevicesTypeOK, SeipIsOutput, MerBits
<1>3. QED BY <1>1, <1>2

LEMMA DevicesStart == ASSUME DevicesInit PROVE DevicesInv
BY DEF DevicesInit, DevicesInv, DevicesTypeOK, LinesFollow, SeipIsOutput,
   IirIsLevel, Level, Lines, SdLines, MerBits, Command, NoCommand

\* Stores to the interrupt controller.
LEMMA StoreIntcInv ==
  ASSUME DevicesInv, NEW reg \in {"ISR", "IER", "IAR", "SIE", "CIE"},
         NEW word \in SUBSET Lines, StoreIntc(reg, word)
  PROVE  DevicesInv'
<1>1. /\ isr' \subseteq isr /\ ier' \subseteq Lines /\ UNCHANGED mer
      /\ acked' = acked \cup (isr \ isr')
      /\ UNCHANGED <<uartVars, sdVars, exited, silent>>
  BY DEF StoreIntc, DevicesInv, DevicesTypeOK
<1>2. DevicesTypeOK'
  BY <1>1 DEF StoreIntc, Refresh, Output, DevicesInv, DevicesTypeOK,
     uartVars, sdVars
<1>3. LinesFollow'
  BY <1>1 DEF DevicesInv, LinesFollow, Level, uartVars, sdVars
<1>4. SeipIsOutput'
  BY DEF StoreIntc, Refresh, Output, SeipIsOutput, MerBits
<1>5. IirIsLevel'
  BY <1>1 DEF DevicesInv, IirIsLevel, Level, uartVars, sdVars
<1>6. QED BY <1>2, <1>3, <1>4, <1>5 DEF DevicesInv

LEMMA StoreMerInv ==
  ASSUME DevicesInv, NEW word \in SUBSET MerBits, StoreMer(word)
  PROVE  DevicesInv'
<1>1. DevicesTypeOK'
  BY DEF StoreMer, Refresh, Output, DevicesInv, DevicesTypeOK, uartVars,
     sdVars
<1>2. LinesFollow'
  BY DEF StoreMer, DevicesInv, LinesFollow, Level, uartVars, sdVars
<1>3. SeipIsOutput'
  BY DEF StoreMer, Refresh, Output, SeipIsOutput, MerBits
<1>4. IirIsLevel'
  BY DEF StoreMer, DevicesInv, IirIsLevel, Level, uartVars, sdVars
<1>5. QED BY <1>1, <1>2, <1>3, <1>4 DEF DevicesInv

LEMMA WriteSeipInv ==
  ASSUME DevicesInv, NEW bit \in BOOLEAN, WriteSeip(bit)
  PROVE  DevicesInv'
BY DEF WriteSeip, DevicesInv, DevicesTypeOK, LinesFollow, SeipIsOutput,
   IirIsLevel, Level, uartVars, sdVars

\* A store to the UART: with a refresh the line follows the level; without
\* one, either the level is as before or the line is silent.
LEMMA StoreUartInv ==
  ASSUME DevicesInv, NEW s \in UartStore, StoreUart(s)
  PROVE  DevicesInv'
<1> DEFINE written == s.first .. s.first + s.size - 1
<1> DEFINE level == thri' /\ thre'
<1>1. /\ thri' \in BOOLEAN /\ thre' \in BOOLEAN /\ dlab' \in BOOLEAN
      /\ UNCHANGED <<sdVars, exited>>
  BY DEF StoreUart, DevicesInv, DevicesTypeOK, UartStore
<1>2. CASE Refreshes(s.first, dlab')
  <2>1. /\ iir' = IirAfter(level)
        /\ DriveLine("uart", level)
        /\ silent' = silent \ {"uart"}
    BY <1>2 DEF StoreUart
  <2>2. PICK up \in SUBSET {"uart"}, down \in SUBSET {"uart"} :
          /\ up = IF level THEN {"uart"} ELSE {}
          /\ down = IF level THEN {} ELSE {"uart"}
          /\ Drive(up, down)
    BY <2>1 DEF DriveLine
  <2>3. up \in SUBSET Lines /\ down \in SUBSET Lines
    BY <2>2, LineNames
  <2>4. /\ isr' \subseteq Lines /\ ier' = ier /\ mer' = mer
        /\ acked' \subseteq Lines
        /\ seip' \in BOOLEAN /\ overridden' \in BOOLEAN
        /\ \A d \in Lines \ (up \cup down) : /\ d \in isr' <=> d \in isr
                                             /\ d \in acked' <=> d \in acked
        /\ \A d \in up : d \in isr'
        /\ \A d \in down \ up : d \notin isr'
        /\ SeipIsOutput'
    BY <2>2, <2>3, DriveIsRight DEF DevicesInv
  <2>5. DevicesTypeOK'
    BY <1>1, <2>1, <2>4 DEF DevicesInv, DevicesTypeOK, sdVars, IirAfter
  <2>6. LinesFollow'
    <3>1. "uart" \in isr' <=> level
      BY <2>2, <2>4
    <3>2. \A d \in SdLines \ (acked' \cup silent') : d \in isr' <=> Level(d)'
      BY <2>2, <2>4, <1>1, <2>1, LineNames DEF DevicesInv, LinesFollow,
         Level, sdVars
    <3>3. QED BY <3>1, <3>2, LineNames DEF LinesFollow, Level
  <2>7. IirIsLevel'
    BY <1>1, <2>1 DEF IirIsLevel, IirAfter, Level
  <2>8. QED BY <2>4, <2>5, <2>6, <2>7 DEF DevicesInv
<1>3. CASE ~Refreshes(s.first, dlab')
  <2>1. /\ iir' = IF 2 \in written THEN "stored" ELSE iir
        /\ silent' = IF written \cap {1, 5} # {}
                     THEN silent \cup {"uart"} ELSE silent
        /\ UNCHANGED intcVars
    BY <1>3 DEF StoreUart
  <2>2. DevicesTypeOK'
    BY <1>1, <2>1, LineNames DEF DevicesInv, DevicesTypeOK, sdVars,
       intcVars
  <2>3. CASE written \cap {1, 5} # {}
    <3>1. silent' = silent \cup {"uart"}
      BY <2>1, <2>3
    <3>2. LinesFollow'
      BY <3>1, <1>1, <2>1, LineNames DEF DevicesInv, LinesFollow, Level,
         sdVars, intcVars
    <3>3. IirIsLevel' /\ SeipIsOutput'
      BY <3>1, <2>1 DEF DevicesInv, IirIsLevel, SeipIsOutput, intcVars
    <3>4. QED BY <2>2, <3>2, <3>3 DEF DevicesInv
  <2>4. CASE written \cap {1, 5} = {}
    <3>1. 1 \notin written /\ 5 \notin written
      BY <2>4
    <3>2. 2 \notin written
      <4>1. s.first \in 0 .. 7 /\ s.size \in {1, 2, 4} /\ s.first # 2
            /\ s.first % s.size = 0
        BY <1>3 DEF UartStore, Refreshes
      <4>2. CASE s.size = 1
        BY <4>1, <4>2
      <4>3. CASE s.size = 2
        BY <4>1, <4>3, <3>1
      <4>4. CASE s.size = 4
        BY <4>1, <4>4, <3>1
      <4>5. QED BY <4>1, <4>2, <4>3, <4>4
    <3>3. thri' = thri /\ thre' = thre
      BY <1>3, <3>1 DEF StoreUart, Refreshes
    <3>4. silent' = silent /\ iir' = iir
      BY <2>1, <2>4, <3>2
    <3>5. QED
      BY <1>1, <2>1, <2>2, <3>3, <3>4 DEF DevicesInv, LinesFollow,
         SeipIsOutput, IirIsLevel, Level, sdVars, intcVars
  <2>5. QED BY <2>3, <2>4
<1>4. QED BY <1>2, <1>3

\* A step of the SD controller that drives the lines of up and down, and is
\* silent about those it says; the rest is as before.
LEMMA SdDrive ==
  ASSUME DevicesInv,
         NEW up \in SUBSET SdLines, NEW down \in SUBSET SdLines,
         up \cap down = {}, Drive(up, down),
         status' \in [SdLines -> BOOLEAN], enable' \in [SdLines -> BOOLEAN],
         command' \in Command, silent' \subseteq Lines,
         UNCHANGED <<uartVars, exited>>,
         "uart" \in silent => "uart" \in silent',
         "uart" \in silent' => "uart" \in silent,
         \A d \in up : status'[d] /\ enable'[d],
         \A d \in down : ~(status'[d] /\ enable'[d]),
         \A d \in SdLines \ (up \cup down \cup silent') :
           \/ d \notin isr /\ ~(status'[d] /\ enable'[d])
           \/ d \notin silent /\ status'[d] = status[d]
              /\ enable'[d] = enable[d]
  PROVE  DevicesInv'
<1>1. up \in SUBSET Lines /\ down \in SUBSET Lines
  BY LineNames
<1>2. /\ isr' \subseteq Lines /\ ier' = ier /\ mer' = mer
      /\ acked' \subseteq Lines
      /\ seip' \in BOOLEAN /\ overridden' \in BOOLEAN
      /\ \A d \in Lines \ (up \cup down) : /\ d \in isr' <=> d \in isr
                                           /\ d \in acked' <=> d \in acked
      /\ \A d \in up : d \in isr'
      /\ \A d \in down \ up : d \notin isr'
      /\ SeipIsOutput'
  BY <1>1, DriveIsRight DEF DevicesInv
<1>3. DevicesTypeOK'
  BY <1>2 DEF DevicesInv, DevicesTypeOK, uartVars
<1>4. LinesFollow'
  <2>1. "uart" \notin acked' \cup silent' => ("uart" \in isr' <=> Level("uart")')
    BY <1>2, LineNames DEF DevicesInv, LinesFollow, Level, uartVars
  <2>2. ASSUME NEW d \in SdLines, d \notin acked' \cup silent'
        PROVE  d \in isr' <=> Level(d)'
    <3>1. CASE d \in up \cup down
      BY <1>2, <2>2, <3>1, LineNames DEF Level
    <3>2. CASE d \notin up \cup down
      BY <1>2, <2>2, <3>2, LineNames DEF DevicesInv, LinesFollow, Level
    <3>3. QED BY <3>1, <3>2
  <2>3. QED BY <2>1, <2>2, LineNames DEF LinesFollow
<1>5. IirIsLevel'
  BY DEF DevicesInv, IirIsLevel, Level, uartVars
<1>6. QED BY <1>2, <1>3, <1>4, <1>5 DEF DevicesInv

LEMMA ResetSdInv == ASSUME DevicesInv, ResetSd PROVE DevicesInv'
<1>1. DevicesTypeOK'
  BY LineNames DEF ResetSd, DevicesInv, DevicesTypeOK, Command, NoCommand,
     uartVars, intcVars
<1>2. LinesFollow'
  BY LineNames DEF ResetSd, DevicesInv, DevicesTypeOK, LinesFollow, Level,
     uartVars, intcVars
<1>3. SeipIsOutput' /\ IirIsLevel'
  BY LineNames DEF ResetSd, DevicesInv, SeipIsOutput, IirIsLevel, Level,
     uartVars, intcVars
<1>4. QED BY <1>1, <1>2, <1>3 DEF DevicesInv

LEMMA ClearStatusInv ==
  ASSUME DevicesInv, NEW d \in SdLines, ClearStatus(d) PROVE DevicesInv'
<1>1. {} \in SUBSET SdLines /\ {d} \in SUBSET SdLines
  OBVIOUS
<1>2. /\ status' \in [SdLines -> BOOLEAN] /\ ~status'[d]
      /\ \A e \in SdLines \ {d} : status'[e] = status[e]
      /\ enable' = enable /\ command' = command
      /\ silent' = silent \ {d} /\ Drive({}, {d})
      /\ UNCHANGED <<uartVars, exited>>
  BY DEF ClearStatus, DevicesInv, DevicesTypeOK
<1>3. silent \subseteq Lines /\ d # "uart"
      /\ enable' \in [SdLines -> BOOLEAN] /\ command' \in Command
  BY <1>2, LineNames DEF DevicesInv, DevicesTypeOK
<1>4. QED BY <1>1, <1>2, <1>3, SdDrive

LEMMA StoreEnableInv ==
  ASSUME DevicesInv, NEW d \in SdLines, NEW on \in BOOLEAN, StoreEnable(d, on)
  PROVE  DevicesInv'
<1>1. /\ enable' \in [SdLines -> BOOLEAN] /\ enable'[d] = on
      /\ \A e \in SdLines \ {d} : enable'[e] = enable[e]
      /\ status' = status /\ command' = command
      /\ UNCHANGED <<uartVars, exited>>
  BY DEF StoreEnable, DevicesInv, DevicesTypeOK
<1>2. silent \subseteq Lines /\ d # "uart" /\ d \in Lines
      /\ status' \in [SdLines -> BOOLEAN] /\ command' \in Command
  BY <1>1, LineNames DEF DevicesInv, DevicesTypeOK
<1>3. CASE on /\ ~status[d]
  <2>1. UNCHANGED <<intcVars, silent>>
    BY <1>3 DEF StoreEnable
  <2>2. \A e \in Lines : Level(e)' <=> Level(e)
    BY <1>1, <1>3, LineNames DEF Level, uartVars
  <2>3. QED
    BY <1>1, <1>2, <2>1, <2>2, LineNames DEF DevicesInv, DevicesTypeOK,
       LinesFollow, SeipIsOutput, IirIsLevel, uartVars, intcVars
<1>4. CASE on /\ status[d]
  <2>1. Drive({d}, {}) /\ silent' = silent \ {d}
    BY <1>4 DEF StoreEnable, DriveLine
  <2>2. {d} \in SUBSET SdLines /\ {} \in SUBSET SdLines
        /\ {d} \cap {} = {} /\ d \notin silent' /\ silent' \subseteq Lines
        /\ ("uart" \in silent' <=> "uart" \in silent)
    BY <1>2, <2>1
  <2>3. \A e \in SdLines \ ({d} \cup {} \cup silent') :
          e \notin silent /\ status'[e] = status[e] /\ enable'[e] = enable[e]
    BY <1>1, <2>1
  <2>4. status'[d] /\ enable'[d]
    BY <1>1, <1>4
  <2>5. QED BY <1>1, <1>2, <2>1, <2>2, <2>3, <2>4, SdDrive
<1>5. CASE ~on
  <2>1. Drive({}, {d}) /\ silent' = silent \ {d}
    BY <1>5 DEF StoreEnable, DriveLine
  <2>2. {d} \in SUBSET SdLines /\ {} \in SUBSET SdLines
        /\ {} \cap {d} = {} /\ d \notin silent' /\ silent' \subseteq Lines
        /\ ("uart" \in silent' <=> "uart" \in silent)
    BY <1>2, <2>1
  <2>3. \A e \in SdLines \ ({} \cup {d} \cup silent') :
          e \notin silent /\ status'[e] = status[e] /\ enable'[e] = enable[e]
    BY <1>1, <2>1
  <2>4. ~(status'[d] /\ enable'[d])
    BY <1>1, <1>5
  <2>5. QED BY <1>1, <1>2, <2>1, <2>2, <2>3, <2>4, SdDrive
<1>6. QED BY <1>3, <1>4, <1>5

LEMMA ExecuteInv == ASSUME DevicesInv, Execute PROVE DevicesInv'
<1> DEFINE done == Completes(command)
<1> DEFINE up == RaisedBy(done)
<1>1. done \in [SdLines -> BOOLEAN]
  BY DEF Completes, DevicesInv, DevicesTypeOK, Command
<1>2. up \in SUBSET SdLines /\ \A d \in SdLines : d \in up <=> done[d] /\ enable[d]
  BY DEF RaisedBy
<1>3. /\ status' = done /\ enable' = enable /\ command' = command
      /\ Drive(up, {})
      /\ silent' = (silent \cup (isr \cap SdLines)) \ up
      /\ UNCHANGED <<uartVars, exited>>
  BY DEF Execute
<1>4. /\ silent' \subseteq Lines
      /\ enable' \in [SdLines -> BOOLEAN] /\ command' \in Command
      /\ "uart" \in silent' <=> "uart" \in silent
  BY <1>2, <1>3, LineNames DEF DevicesInv, DevicesTypeOK
<1>5. \A d \in SdLines \ (up \cup {} \cup silent') :
        d \notin isr /\ ~(status'[d] /\ enable'[d])
  BY <1>2, <1>3
<1> HIDE DEF done, up
<1>6. QED BY <1>1, <1>2, <1>3, <1>4, <1>5, SdDrive

LEMMA DevicesStep ==
  ASSUME DevicesInv, [DevicesNext]_devicesVars
  PROVE  DevicesInv'
<1> USE DevicesAssumption
<1>1. ASSUME NEW s \in UartStores, StoreUart(s) PROVE DevicesInv'
  BY <1>1, StoreUartInv
<1>2. ASSUME NEW reg \in {"ISR", "IER", "IAR", "SIE", "CIE"},
             NEW word \in LineWords, StoreIntc(reg, word)
      PROVE  DevicesInv'
  BY <1>2, StoreIntcInv
<1>3. ASSUME NEW word \in MerWords, StoreMer(word) PROVE DevicesInv'
  BY <1>3, StoreMerInv
<1>4. ASSUME NEW c \in Commands, StoreCommand(c) PROVE DevicesInv'
  BY <1>4 DEF StoreCommand, DevicesInv, DevicesTypeOK, LinesFollow,
     SeipIsOutput, IirIsLevel, Level, uartVars, intcVars
<1>5. CASE ReadBeyondCard
  BY <1>5 DEF ReadBeyondCard, DevicesInv, DevicesTypeOK, LinesFollow,
     SeipIsOutput, IirIsLevel, Level, uartVars, sdVars, intcVars
<1>6. CASE SdStore
  BY <1>4, <1>5, <1>6, ResetSdInv, ClearStatusInv, StoreEnableInv,
     ExecuteInv DEF SdStore
<1>7. CASE GuestStore
  BY <1>1, <1>2, <1>3, <1>6, <1>7 DEF GuestStore
<1>8. CASE UNCHANGED devicesVars
  BY <1>8 DEF devicesVars, DevicesInv, DevicesTypeOK, LinesFollow,
     SeipIsOutput, IirIsLevel, Level, uartVars, sdVars, intcVars
<1>9. QED BY <1>7, <1>8, WriteSeipInv DEF DevicesNext

THEOREM DevicesInvariance == DevicesSpec => []DevicesInv
BY DevicesStart, DevicesStep, PTL DEF DevicesSpec

-----------------------------------------------------------------------------
\* Every variable always has its type.
THEOREM DevicesTypeCorrect == DevicesSpec => []DevicesTypeOK
BY DevicesInvariance, PTL DEF DevicesInv

\* An interrupt of a device is up in the controller exactly while the device
\* asks for it, apart from the lines the guest detached.
THEOREM NoLostInterrupt == DevicesSpec => []LinesFollow
BY DevicesInvariance, PTL DEF DevicesInv

\* SEIP is the controller's output unless the guest wrote it.
THEOREM OutputReachesHart == DevicesSpec => []SeipIsOutput
BY DevicesInvariance, PTL DEF DevicesInv

\* IIR and the UART's line never disagree.
THEOREM IirAgrees == DevicesSpec => []IirIsLevel
BY DevicesInvariance, PTL DEF DevicesInv
=============================================================================
