---------------------------- MODULE MCTrapUnit -----------------------------
(* Instances of TrapUnit for TLC: the CSR instructions of the guests. *)
EXTENDS TrapUnit

Reg(csr, form, operand) ==
  [csr |-> csr, form |-> form, imm |-> FALSE, zero |-> FALSE,
   operand |-> operand]

Imm(csr, form, operand) ==
  [csr |-> csr, form |-> form, imm |-> TRUE, zero |-> operand = {},
   operand |-> operand]

\* A guest that enables, delegates, masks and raises interrupts.
InterruptOps ==
  {Imm("mstatus", "S", {"MIE"}), Imm("sstatus", "S", {"SIE"}),
   Reg("mie", "W", {"MTI", "SEI"}), Imm("sie", "W", {}),
   Reg("mstatus", "S", {"MPP1"}),
   Reg("sip", "C", {"SEI"}), Reg("mideleg", "W", {"MTI"}),
   Reg("medeleg", "W", {"UECALL", "SECALL", "LPF"}),
   Reg("satp", "W", {})}

\* A guest that translates addresses and handles faults and system calls.
PagingOps ==
  {Reg("mstatus", "W", {"MPP0", "SIE"}), Reg("mstatus", "W", {"MPP1"}),
   Reg("sstatus", "W", {"SPP"}),
   Reg("satp", "W", {"UECALL"}), Reg("mie", "W", {"SEI"}),
   Reg("medeleg", "W", {"UECALL", "SECALL", "IPF", "LPF"})}

SomeSnapshots == {{"MTI"}, {"MTI", "SEI"}}
NoSnapshots == {}
=============================================================================
