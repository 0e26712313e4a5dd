------------------------------ MODULE Devices ------------------------------
(***************************************************************************)
(* The devices a guest reaches by stores, and the wire from them to the    *)
(* hart: the UART, the SD controller (OCSDC), the interrupt controller     *)
(* (XPS INTC) and the bit SEIP of mip, in the standalone simulator, where  *)
(* device effects are on.  A store is one call of store_data().            *)
(*                                                                         *)
(* A register is what of it decides an interrupt: one bit of IER, LSR and  *)
(* LCR, zero or not for the status and enable words of the SD controller,  *)
(* the three wired lines of the controller's words.  A store smaller than  *)
(* a word is merged with the word it reads back, so that any value reaches *)
(* the register.  Characters, responses and the bytes of a transfer are    *)
(* left out, and a transfer's buffer is in memory.                         *)
(*                                                                         *)
(* acked, silent and overridden are history variables: the lines whose bit *)
(* the guest cleared in the controller while it was up, the lines whose    *)
(* device changed behind the controller's back, both until the device      *)
(* drives the line again; and whether the guest has written SEIP itself    *)
(* since the controller last drove it.                                     *)
(***************************************************************************)
EXTENDS Integers

CONSTANTS
  UartStores,  (* the stores of the guest to the UART                       *)
  LineWords,   (* what the guest writes to the controller's line registers  *)
  MerWords,    (* what it writes to the master enable register              *)
  Commands     (* the SD commands it issues; none if it has no SD driver    *)

Lines   == {"uart", "cmd", "dat"}
SdLines == {"cmd", "dat"}

\* The two bits of MER that must both be set.
MerBits == {"ME", "HIE"}

\* A command: opcode 0 answers without being asked to.
Command == [op0 : BOOLEAN, resp : BOOLEAN, data : {"none", "read", "write"}]
NoCommand == [op0 |-> TRUE, resp |-> FALSE, data |-> "none"]

\* A store of the guest to the UART: the first byte it writes, how many, and
\* the bits that matter of the bytes.
UartStore == {s \in [first : 0 .. 7, size : {1, 2, 4},
                     bits : [{1, 3, 5} -> BOOLEAN]] : s.first % s.size = 0}

ASSUME DevicesAssumption ==
  /\ UartStores \subseteq UartStore
  /\ LineWords \subseteq SUBSET Lines
  /\ MerWords \subseteq SUBSET MerBits
  /\ Commands \subseteq Command

VARIABLES
  thri,         (* UART IER bit 1: interrupt when the transmitter is empty  *)
  thre,         (* UART LSR bit 5: the transmitter is empty                 *)
  dlab,         (* UART LCR bit 7: offset 1 is the divisor latch            *)
  iir,          (* UART IIR: "none", "thre", or what a wide store left      *)
  status,       (* SD interrupt status words 0x34, 0x3c: [SdLines->BOOLEAN] *)
  enable,       (* SD interrupt enable words 0x38, 0x40                     *)
  command,      (* SD command word 0x04                                     *)
  isr, ier, mer,
  seip,
  exited,       (* the simulator has given up: a read without a card image  *)
  acked, silent, overridden

uartVars == <<thri, thre, dlab, iir>>
sdVars   == <<status, enable, command>>
intcVars == <<isr, ier, mer, seip, acked, overridden>>
devicesVars == <<uartVars, sdVars, intcVars, exited, silent>>

\* init(): the last word it stores to the UART leaves THRE set.
DevicesInit ==
  /\ thri = FALSE /\ thre = TRUE /\ dlab = FALSE /\ iir = "none"
  /\ status = [d \in SdLines |-> FALSE]
  /\ enable = [d \in SdLines |-> FALSE]
  /\ command = NoCommand
  /\ isr = {} /\ ier = {} /\ mer = {}
  /\ seip = FALSE
  /\ exited = FALSE
  /\ acked = {} /\ silent = {} /\ overridden = FALSE

-----------------------------------------------------------------------------
(* The interrupt controller. *)

\* Mutant: the enables are not looked at.
OutputUnmasked(i, e, m) == m = MerBits /\ i # {}

\* What refresh_external_interrupt drives SEIP with.
Output(i, e, m) == m = MerBits /\ i \cap e # {}

\* Mutant: SEIP is raised and never taken back.
RefreshUpOnly ==
  /\ seip' = (seip \/ Output(isr', ier', mer'))
  /\ overridden' = FALSE

Refresh ==
  /\ seip' = Output(isr', ier', mer')
  /\ overridden' = FALSE

\* xps_intc_set_irq_level, for the lines a device raises and lowers; SEIP is
\* refreshed when there is one.
Drive(up, down) ==
  /\ isr' = (isr \ down) \cup up
  /\ acked' = acked \ (up \cup down)
  /\ UNCHANGED <<ier, mer>>
  /\ IF up \cup down = {} THEN UNCHANGED <<seip, overridden>> ELSE Refresh

DriveLine(d, level) == IF level THEN Drive({d}, {}) ELSE Drive({}, {d})

\* xps_intc_write_reg.  ISR and IAR clear what is written.
StoreIntc(reg, word) ==
  /\ isr' = IF reg \in {"ISR", "IAR"} THEN isr \ word ELSE isr
  /\ ier' = CASE reg = "IER" -> word
              [] reg = "SIE" -> ier \cup word
              [] reg = "CIE" -> ier \ word
              [] OTHER -> ier
  /\ acked' = acked \cup (isr \ isr')
  /\ UNCHANGED mer
  /\ Refresh
  /\ UNCHANGED <<uartVars, sdVars, exited, silent>>

StoreMer(word) ==
  /\ mer' = word
  /\ UNCHANGED <<isr, ier, acked>>
  /\ Refresh
  /\ UNCHANGED <<uartVars, sdVars, exited, silent>>

\* A CSR write to mip or sip reaches SEIP directly.
WriteSeip(bit) ==
  /\ seip' = bit
  /\ overridden' = TRUE
  /\ UNCHANGED <<uartVars, sdVars, isr, ier, mer, acked, exited, silent>>

-----------------------------------------------------------------------------
(* The UART: bytes 0 (data), 1 (IER or divisor latch), 2 (IIR), 3 (LCR), 5 *)
(* (LSR).  store_data() first stores the word with the bytes written, then *)
(* acts on the first of them.                                              *)

\* Mutants: a data byte does not refresh; an IER byte refreshes only when it
\* is written through the divisor latch.
RefreshesNotOnData(first, latch) == (first = 1 /\ ~latch) \/ first = 2
RefreshesSwapped(first, latch) ==
  \/ first = 0 /\ ~latch
  \/ first = 1 /\ latch
  \/ first = 2

Refreshes(first, latch) == (first \in {0, 1} /\ ~latch) \/ first = 2

IirAfter(level) == IF level THEN "thre" ELSE "none"

StoreUart(s) ==
  LET first   == s.first
      bits    == s.bits
      written == first .. first + s.size - 1
  IN  /\ thri' = IF 1 \in written THEN bits[1] ELSE thri
      /\ dlab' = IF 3 \in written THEN bits[3] ELSE dlab
      /\ thre' = IF first = 0 /\ ~dlab' THEN TRUE
                 ELSE IF 5 \in written THEN bits[5] ELSE thre
      /\ IF Refreshes(first, dlab')
         THEN /\ iir' = IirAfter(thri' /\ thre')
              /\ DriveLine("uart", thri' /\ thre')
              /\ silent' = silent \ {"uart"}
         ELSE /\ iir' = IF 2 \in written THEN "stored" ELSE iir
              /\ silent' = IF written \cap {1, 5} # {}
                           THEN silent \cup {"uart"} ELSE silent
              /\ UNCHANGED intcVars
      /\ UNCHANGED <<sdVars, exited>>

-----------------------------------------------------------------------------
(* The SD controller: ocsdc_write_reg and ocsdc_execute_command. *)

\* 0x28, bit 0: everything is cleared, the lines are left as they are.
ResetSd ==
  /\ status' = [d \in SdLines |-> FALSE]
  /\ enable' = [d \in SdLines |-> FALSE]
  /\ command' = NoCommand
  /\ silent' = silent \cup (isr \cap SdLines)
  /\ UNCHANGED <<uartVars, intcVars, exited>>

\* 0x34, 0x3c: any store clears the status.
ClearStatus(d) ==
  /\ status' = [status EXCEPT ![d] = FALSE]
  /\ Drive({}, {d})
  /\ silent' = silent \ {d}
  /\ UNCHANGED <<uartVars, enable, command, exited>>

\* Mutant: disabling an interrupt leaves its line up.
StoreEnableUpOnly(d, on) ==
  /\ enable' = [enable EXCEPT ![d] = on]
  /\ IF on /\ status[d]
     THEN Drive({d}, {}) /\ silent' = silent \ {d}
     ELSE UNCHANGED <<intcVars, silent>>
  /\ UNCHANGED <<uartVars, status, command, exited>>

\* 0x38, 0x40: an enable stored while the status is zero drives nothing.
StoreEnable(d, on) ==
  /\ enable' = [enable EXCEPT ![d] = on]
  /\ IF on /\ ~status[d] THEN UNCHANGED <<intcVars, silent>>
     ELSE DriveLine(d, on) /\ silent' = silent \ {d}
  /\ UNCHANGED <<uartVars, status, command, exited>>

\* 0x04
StoreCommand(c) ==
  /\ command' = c
  /\ UNCHANGED <<uartVars, status, enable, intcVars, exited, silent>>

\* What a command sets the status words to.
Completes(c) == [d \in SdLines |-> IF d = "cmd" THEN c.resp \/ c.op0
                                   ELSE c.data # "none"]

\* Mutant: a line is raised whenever its enable is set.
RaisedByEnabled(done) == {d \in SdLines : enable[d]}

RaisedBy(done) == {d \in SdLines : done[d] /\ enable[d]}

\* 0x00: the argument starts the command.  Its statuses are cleared first, and
\* the lines they had raised stay up.
Execute ==
  LET done == Completes(command)
  IN  /\ status' = done
      /\ Drive(RaisedBy(done), {})
      /\ silent' = (silent \cup (isr \cap SdLines)) \ RaisedBy(done)
      /\ UNCHANGED <<uartVars, enable, command, exited>>

\* A read without a card image, or beyond its end, ends the simulator.
ReadBeyondCard ==
  /\ command.data = "read"
  /\ exited' = TRUE
  /\ UNCHANGED <<uartVars, sdVars, intcVars, silent>>

-----------------------------------------------------------------------------
SdStore ==
  \/ ResetSd
  \/ \E d \in SdLines : ClearStatus(d)
  \/ \E d \in SdLines, on \in BOOLEAN : StoreEnable(d, on)
  \/ \E c \in Commands : StoreCommand(c)
  \/ Execute
  \/ ReadBeyondCard

GuestStore ==
  \/ \E s \in UartStores : StoreUart(s)
  \/ \E reg \in {"ISR", "IER", "IAR", "SIE", "CIE"}, word \in LineWords :
       StoreIntc(reg, word)
  \/ \E word \in MerWords : StoreMer(word)
  \/ Commands # {} /\ SdStore

DevicesNext == ~exited /\ (GuestStore \/ \E bit \in BOOLEAN : WriteSeip(bit))

DevicesSpec == DevicesInit /\ [][DevicesNext]_devicesVars

-----------------------------------------------------------------------------
(* Properties. *)

\* The variables hold values of their types.
DevicesTypeOK ==
  /\ thri \in BOOLEAN /\ thre \in BOOLEAN /\ dlab \in BOOLEAN
  /\ iir \in {"none", "thre", "stored"}
  /\ status \in [SdLines -> BOOLEAN]
  /\ enable \in [SdLines -> BOOLEAN]
  /\ command \in Command
  /\ isr \subseteq Lines /\ ier \subseteq Lines /\ mer \subseteq MerBits
  /\ seip \in BOOLEAN /\ exited \in BOOLEAN /\ overridden \in BOOLEAN
  /\ acked \subseteq Lines /\ silent \subseteq Lines

\* What a device asks for.
Level(d) == IF d = "uart" THEN thri /\ thre ELSE status[d] /\ enable[d]

\* An interrupt of a device is neither lost nor repeated on its way to the
\* controller: the bit of a line is set exactly when its device asks for the
\* interrupt, except for lines the guest acknowledged while they were up, and
\* lines whose device was changed by an operation that does not tell the
\* controller (a wide or divisor-latch store to the UART, a new command or a
\* reset of an SD controller with an interrupt up).  This is about every
\* call of xps_intc_set_irq_level, on every path of store_data.
LinesFollow ==
  \A d \in Lines \ (acked \cup silent) : d \in isr <=> Level(d)

\* The hart sees the controller's output: SEIP is set exactly when the
\* controller is on and an enabled line is up, unless the guest has written
\* the bit itself since.  Every way to change the controller must end in
\* refresh_external_interrupt.
SeipIsOutput ==
  ~overridden => (seip <=> mer = {"ME", "HIE"} /\ isr \cap ier # {})

\* A guest that polls IIR instead of taking the interrupt sees the same
\* condition, also after the controller's bit was acknowledged: IIR tells of
\* an empty transmitter exactly when the interrupt is asked for.
IirIsLevel ==
  "uart" \notin silent => /\ iir # "stored"
                         /\ iir = "thre" <=> Level("uart")
=============================================================================
