------------------------------- MODULE RefApi -------------------------------
(***************************************************************************)
(* The embedding API, librefcpu.a: the refcpu_* calls a host makes on its  *)
(* contexts of the reference CPU, in between their steps.  Kept are the    *)
(* parts that outlive a call: the timer, whose two registers all contexts  *)
(* of the process share; the io_words behind them; MTIP; and the value the *)
(* host gives for the next read of a CSR.                                  *)
(*                                                                         *)
(* A timer register is one word, counted modulo T for 2^64.  The host makes*)
(* the calls of one of Hosts, in any order and as often as it likes.       *)
(*                                                                         *)
(* set, snap, same and left are history variables.                         *)
(***************************************************************************)
EXTENDS Integers

CONSTANTS
  Contexts,
  T,
  Values, Times,   (* bounds: the words the host writes, the times it sets  *)
  Hosts            (* sets of Calls                                         *)

Calls == {"init", "destroy", "effects", "delivery", "both", "sim_time",
          "store", "guest_store", "set_io_word", "copy_io_word",
          "clear_io_words", "sync", "get_state", "set_state",
          "next_csr_read", "forced", "csr"}

ASSUME RefApiAssumption ==
  /\ "none" \notin Contexts
  /\ T \in Nat \ {0}
  /\ Values \subseteq 0 .. T - 1 /\ Times \subseteq 0 .. T - 1
  /\ \A h \in Hosts : h \subseteq Calls

Word == 0 .. T - 1
Regs == {"time", "cmp"}
Csrs == {"x", "y"}

VARIABLES
  host,
  offset, cmp,   (* g_ref_timer_offset, g_ref_timer_cmp                     *)
  live,          (* the contexts there are                                  *)
  effects,       (* those with device_effects_enable ...                    *)
  delivery,      (* ... and with interrupt_delivery_enable                  *)
  simTime,       (* sim_time of each: the host alone moves it               *)
  words,         (* io_words of the timer's registers; 0 also for none      *)
  mtip,          (* contexts with MTIP in csr[csr_mip]                      *)
  armed,         (* external_csr_read: a CSR or "none"                      *)
  set,           (* who set a register of the timer last, to what and when  *)
  snap,          (* what the host got of a context, the last time           *)
  same,          (* the parts of it that a context was given, and still has *)
  left           (* reads of a given value the host may still see           *)

timer    == <<offset, cmp>>
contexts == <<live, effects, delivery>>
history  == <<set, snap, same>>
vars == <<host, timer, contexts, simTime, words, mtip, armed, history, left>>

\* ~0
Ones  == T - 1
NotSet == [by |-> "none", value |-> 0, at |-> 0]
ZeroWords == [r \in Regs |-> 0]

Init ==
  /\ host \in Hosts
  /\ offset = 0 /\ cmp = Ones
  /\ live = {} /\ effects = {} /\ delivery = {}
  /\ simTime = [c \in Contexts |-> 0]
  /\ words = [c \in Contexts |-> ZeroWords]
  /\ mtip = {}
  /\ armed = [c \in Contexts |-> "none"]
  /\ set = [r \in Regs |-> NotSet]
  /\ snap = [words |-> ZeroWords, simTime |-> 0, mtip |-> FALSE, on |-> FALSE]
  /\ same = [c \in Contexts |-> {}]
  /\ left = [c \in Contexts |-> 0]

-----------------------------------------------------------------------------
(* The timer.                                                              *)

\* ref_timer_now
Now(c) == (simTime[c] + offset) % T

\* Mutant: the value itself is kept.
OffsetPlain(value, now) == value
\* ref_write_timer_value
Offset(value, now) == (value - now) % T

\* MTIP is made up while the timer is due, if both switches are on.
Synthesizes(c) == c \in effects /\ c \in delivery
VisibleMtip(c) == c \in mtip \/ (Synthesizes(c) /\ Now(c) >= cmp)

\* Mutant: what the words hold.
IoWordBehind(c, r) == words[c][r]
\* checkpoint_mmio_read_word: the registers, not what is behind them.
IoWord(c, r) == IF r = "time" THEN Now(c) ELSE cmp

\* History: c sets the registers to these values, at the time now.
Sets(c, values, now) ==
  set' = [r \in Regs |-> IF r \in DOMAIN values
                         THEN [by |-> c, value |-> values[r], at |-> now]
                         ELSE set[r]]

\* History: c has no longer, or has, a part of the snapshot.
Loses(c, part) == same' = [same EXCEPT ![c] = @ \ {part}]
Gains(c, part) == same' = [same EXCEPT ![c] = @ \cup {part}]

-----------------------------------------------------------------------------
(* Contexts and their switches.                                            *)

\* refcpu_init: both switches are off, and init() resets the timer of all.
RefcpuInit(c) ==
  /\ "init" \in host /\ c \notin live
  /\ live' = live \cup {c}
  /\ effects' = effects \ {c} /\ delivery' = delivery \ {c}
  /\ mtip' = mtip \ {c}
  /\ simTime' = [simTime EXCEPT ![c] = 0]
  /\ words' = [words EXCEPT ![c] = ZeroWords]
  /\ armed' = [armed EXCEPT ![c] = "none"]
  /\ left' = [left EXCEPT ![c] = 0]
  /\ offset' = 0 /\ cmp' = Ones
  /\ Sets(c, [time |-> 0, cmp |-> Ones], 0)
  /\ same' = [same EXCEPT ![c] = {}]
  /\ UNCHANGED <<host, snap>>

Destroy(c) ==
  /\ "destroy" \in host
  /\ live' = live \ {c}
  /\ UNCHANGED <<host, timer, effects, delivery, simTime, words, mtip, armed,
                 history, left>>

\* refcpu_set_device_effects, refcpu_set_interrupt_delivery, or one and then
\* the other.
Switch(c, some, on) == IF on THEN some \cup {c} ELSE some \ {c}

Switches(c, on) ==
  /\ \/ /\ "effects" \in host
        /\ effects' = Switch(c, effects, on) /\ UNCHANGED delivery
     \/ /\ "delivery" \in host
        /\ delivery' = Switch(c, delivery, on) /\ UNCHANGED effects
     \/ /\ "both" \in host
        /\ effects' = Switch(c, effects, on)
        /\ delivery' = Switch(c, delivery, on)
  /\ UNCHANGED <<host, timer, live, simTime, words, mtip, armed, history,
                 left>>

SetSimTime(c, t) ==
  /\ "sim_time" \in host
  /\ simTime' = [simTime EXCEPT ![c] = t]
  /\ Loses(c, "timer")
  /\ UNCHANGED <<host, timer, contexts, words, mtip, armed, set, snap, left>>

-----------------------------------------------------------------------------
(* The timer's registers and the words behind them.                        *)

\* store_word to a register, under device effects.
StoreTimer(c, r, value) ==
  /\ offset' = IF r = "time" THEN Offset(value, simTime[c]) ELSE offset
  /\ cmp' = IF r = "cmp" THEN value ELSE cmp
  /\ Sets(c, [x \in {r} |-> value], simTime[c])
  /\ Loses(c, "timer")
  /\ UNCHANGED words

\* Without them refcpu_store_word changes the word, and store_data nothing.
StoreWord(c, r, value) ==
  /\ \/ /\ c \in effects /\ host \cap {"store", "guest_store"} # {}
        /\ StoreTimer(c, r, value)
     \/ /\ c \notin effects /\ "store" \in host
        /\ words' = [words EXCEPT ![c][r] = value]
        /\ UNCHANGED <<timer, set, same>>
  /\ UNCHANGED <<host, contexts, simTime, mtip, armed, snap, left>>

SetIoWord(c, r, value) ==
  /\ "set_io_word" \in host
  /\ words' = [words EXCEPT ![c][r] = value]
  /\ UNCHANGED <<host, timer, contexts, simTime, mtip, armed, history, left>>

CopyIoWord(c, r) ==
  /\ "copy_io_word" \in host
  /\ words' = [words EXCEPT ![c][r] = snap.words[r]]
  /\ UNCHANGED <<host, timer, contexts, simTime, mtip, armed, history, left>>

ClearIoWords(c) ==
  /\ "clear_io_words" \in host
  /\ words' = [words EXCEPT ![c] = ZeroWords]
  /\ UNCHANGED <<host, timer, contexts, simTime, mtip, armed, history, left>>

\* refcpu_sync_mmio_devices_from_backing: both registers, from the words.
Sync(c) ==
  /\ "sync" \in host
  /\ offset' = Offset(words[c]["time"], simTime[c])
  /\ cmp' = words[c]["cmp"]
  /\ Sets(c, words[c], simTime[c])
  /\ IF words[c] = snap.words /\ simTime[c] = snap.simTime
     THEN Gains(c, "timer") ELSE Loses(c, "timer")
  /\ UNCHANGED <<host, contexts, simTime, words, mtip, armed, snap, left>>

-----------------------------------------------------------------------------
(* The state of the CPU.                                                   *)

\* refcpu_get_state and refcpu_get_io_word of both registers.
GetState(c) ==
  /\ "get_state" \in host
  /\ snap' = [words |-> [r \in Regs |-> IoWord(c, r)], simTime |-> simTime[c],
              mtip |-> VisibleMtip(c), on |-> Synthesizes(c)]
  /\ same' = [d \in Contexts |-> {}]
  /\ UNCHANGED <<host, timer, contexts, simTime, words, mtip, armed, set,
                 left>>

\* refcpu_set_state: the MTIP that was visible is now in the CSR, and a value
\* given for the next read is taken back.
SetState(c) ==
  /\ "set_state" \in host
  /\ mtip' = Switch(c, mtip, snap.mtip)
  /\ armed' = [armed EXCEPT ![c] = "none"]
  /\ left' = [left EXCEPT ![c] = 0]
  /\ Gains(c, "state")
  /\ UNCHANGED <<host, timer, contexts, simTime, words, set, snap>>

\* refcpu_take_forced_interrupt: the pending bits are the host's, whether
\* the interrupt is then taken or not.
TakeForcedInterrupt(c, pending) ==
  /\ "forced" \in host
  /\ mtip' = Switch(c, mtip, pending)
  /\ Loses(c, "state")
  /\ UNCHANGED <<host, timer, contexts, simTime, words, armed, set, snap,
                 left>>

SetNextCsrRead(c, x) ==
  /\ "next_csr_read" \in host
  /\ armed' = [armed EXCEPT ![c] = x]
  /\ left' = [left EXCEPT ![c] = 1]
  /\ UNCHANGED <<host, timer, contexts, simTime, words, mtip, history>>

\* Mutant: the value given is not used up.
ArmedAfterReadKept(c, x) == armed[c]
\* An access to the CSR uses the value up; others leave it.
ArmedAfterRead(c, x) == IF armed[c] = x THEN "none" ELSE armed[c]

\* A step of the guest that reads or writes CSR x.
AccessCsr(c, x) ==
  /\ "csr" \in host
  /\ armed' = [armed EXCEPT ![c] = ArmedAfterRead(c, x)]
  /\ left' = [left EXCEPT ![c] = IF armed[c] = x THEN @ - 1 ELSE @]
  /\ UNCHANGED <<host, timer, contexts, simTime, words, mtip, history>>

-----------------------------------------------------------------------------
Next ==
  \/ \E c \in Contexts : RefcpuInit(c)
  \/ \E c \in live :
       \/ Destroy(c)
       \/ \E b \in BOOLEAN : Switches(c, b) \/ TakeForcedInterrupt(c, b)
       \/ \E t \in Times : SetSimTime(c, t)
       \/ \E r \in Regs, v \in Values :
            StoreWord(c, r, v) \/ SetIoWord(c, r, v)
       \/ \E r \in Regs : CopyIoWord(c, r)
       \/ ClearIoWords(c) \/ Sync(c)
       \/ GetState(c) \/ SetState(c)
       \/ \E x \in Csrs : SetNextCsrRead(c, x) \/ AccessCsr(c, x)

Spec == Init /\ [][Next]_vars

-----------------------------------------------------------------------------
(* Properties.                                                             *)

\* Every variable has its type.
TypeOK ==
  /\ host \in Hosts
  /\ offset \in Word /\ cmp \in Word
  /\ live \subseteq Contexts /\ effects \subseteq Contexts
  /\ delivery \subseteq Contexts /\ mtip \subseteq Contexts
  /\ simTime \in [Contexts -> Word]
  /\ words \in [Contexts -> [Regs -> Word]]
  /\ armed \in [Contexts -> Csrs \cup {"none"}]
  /\ set \in [Regs -> [by : Contexts \cup {"none"}, value : Word, at : Word]]
  /\ snap \in [words : [Regs -> Word], simTime : Word, mtip : BOOLEAN,
               on : BOOLEAN]
  /\ same \in [Contexts -> SUBSET {"state", "timer"}]
  /\ left \in [Contexts -> -1 .. 1]

\* Until another context sets a register of the timer, the one that has set
\* it reads its own: the value it wrote, plus the time the host has let pass
\* since, over all changes of the clock and the switches (exec.cpp:345, :479,
\* :1079).
TimerIsOwn ==
  \A c \in live :
    /\ set["time"].by = c =>
         Now(c) = (set["time"].value + simTime[c] - set["time"].at) % T
    /\ set["cmp"].by = c => cmp = set["cmp"].value

\* A context that was given the state, the sim_time and the two words another
\* one showed, and was then synchronised, shows the same timer and the same
\* MTIP as that did, if no other has set the timer since
\* (refcpu_api.cpp:103, exec.cpp:1070).
CloneIsFaithful ==
  \A c \in live :
    same[c] = {"state", "timer"} /\ (\A r \in Regs : set[r].by = c) =>
      /\ \A r \in Regs : IoWord(c, r) = snap.words[r]
      /\ (Synthesizes(c) => snap.on) => VisibleMtip(c) = snap.mtip

\* The host never sees a value it has given for a CSR twice, nor after it has
\* set another state (refcpu_api.cpp:108, :237).
GivenOnce == \A c \in Contexts : left[c] >= 0
=============================================================================
