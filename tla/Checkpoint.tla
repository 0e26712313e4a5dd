----------------------------- MODULE Checkpoint -----------------------------
(***************************************************************************)
(* Checkpoint files: save_checkpoint and restore_checkpoint of             *)
(* simpoint.cpp, the timer they carry across processes, and what can       *)
(* happen to a file on the way: a kill or a full disk in the middle of a   *)
(* save, a file of an older format or of another build.                    *)
(*                                                                         *)
(* The simulator's state is cut into the components a checkpoint is made   *)
(* of.  The content of a component is which one it is and a generation,    *)
(* that the guest's progress advances: bytes read at the wrong place show  *)
(* the wrong component, stale ones the wrong generation.  The file is the  *)
(* sequence of the sections in it.  The timer's words are half as wide as  *)
(* its registers, which count modulo Half * Half.                          *)
(*                                                                         *)
(* snap and restored are history variables: the state the file was saved   *)
(* from; whether the process has just restored it and done nothing since.  *)
(***************************************************************************)
EXTENDS Integers, Sequences

CONSTANTS
  Half,        (* the number of values of half a timer register             *)
  MaxGen,      (* bound of the generations                                  *)
  MaxTime,     (* bound of sim_time in a process                            *)
  OtherBuilds  (* builds whose files may be found                           *)

\* What a file holds, privilege being part of its header; and what it does
\* not: fcsr, and the bit SEIP of mip, generation 0 of which is the output of
\* the interrupt controller and the others what the guest has put there.
Devs  == <<"boot", "uart", "intc", "timer", "ocsdc">>
Saved == {"privilege", "state", "interval", "ram", "sdram",
          "boot", "uart", "intc", "ocsdc"}
Unsaved == {"fcsr", "seip"}
Components == Saved \cup Unsaved

\* A build of the simulator, as far as its files show it: the format, and
\* the sections whose size differs from this build's.
Build == [version : 1 .. 4, differs : SUBSET {"ram", "sdram", "ocsdc"}]
ThisBuild == [version |-> 3, differs |-> {}]

Content == [of : Components \cup {"sdram_size", "timer"}, gen : Nat]
Initial(c) == [of |-> c, gen |-> 0]

\* memset to zero, which is also how calloc leaves the memories.
Zeroed == Initial("sdram")

\* What is read where the file has something else.
Garbage == [of |-> "garbage", gen |-> 0]

ASSUME CheckpointAssumption ==
  /\ Half \in Nat \ {0} /\ MaxGen \in Nat
  /\ MaxTime \in 0 .. Half * Half - 1
  /\ OtherBuilds \subseteq Build

VARIABLES
  proc,      (* "down", "fresh" after init(), "running" or "saving"         *)
  live,      (* [Components -> Content]                                     *)
  sim_time, timer_offset, timer_cmp,
  file,      (* the build that wrote it and its sections, or NoFile         *)
  snap, restored

timerVars == <<sim_time, timer_offset, timer_cmp>>
vars == <<proc, live, timerVars, file, snap, restored>>

NoFile == [build |-> ThisBuild, there |-> FALSE, sections |-> <<>>]

Range64 == Half * Half

\* ref_timer_now
TimerNow == (sim_time + timer_offset) % Range64

\* The two words a guest reads and writes of a register.
Lo(value) == value % Half
Hi(value) == value \div Half
Join(lo, hi) == lo + Half * hi

\* init() of a new process: the timer starts with sim_time, never due.
Initialised ==
  /\ live' = [c \in Components |-> Initial(c)]
  /\ sim_time' = 0
  /\ timer_offset' = 0
  /\ timer_cmp' = Range64 - 1

Init ==
  /\ proc = "down"
  /\ live = [c \in Components |-> Initial(c)]
  /\ sim_time = 0 /\ timer_offset = 0 /\ timer_cmp = Range64 - 1
  /\ file = NoFile
  /\ snap = [live |-> live, time |-> 0, cmp |-> timer_cmp]
  /\ restored = FALSE

-----------------------------------------------------------------------------
(* The file. *)

\* The sections a build writes, in order; version 3 added SDRAM.
Order(build) ==
  IF build.version >= 3
  THEN <<"header", "sdram_size", "state", "interval", "ram", "sdram">> \o Devs
  ELSE <<"header", "state", "interval", "ram">> \o Devs

\* Mutant: the device words are written from the backing store, which has no
\* time in it.
TimerWordsBacking == [of |-> "timer", gen |-> 0, time |-> 0, cmp |-> 0]

\* checkpoint_mmio_read_word: the timer's words are its current values.
TimerWords == [of |-> "timer", gen |-> 0, time |-> TimerNow, cmp |-> timer_cmp]

SectionOf(s) ==
  CASE s = "header"     -> live["privilege"]
    [] s = "sdram_size" -> Initial("sdram_size")
    [] s = "timer"      -> TimerWords
    [] OTHER            -> live[s]

Whole(f) == f.there /\ Len(f.sections) = Len(Order(f.build))

\* What restore_checkpoint gets when it reads a section: the one at that
\* place, provided all up to it have the size it expects.
Read(f, s) ==
  LET order == Order(f.build)
      i     == CHOOSE n \in DOMAIN order : order[n] = s
  IN  IF /\ i <= Len(f.sections)
         /\ \A j \in 1 .. i : order[j] \notin f.build.differs
      THEN f.sections[i] ELSE Garbage

\* Mutants: a short read is not an error; the size of SDRAM is not compared.
AcceptsShort(f) ==
  /\ f.there
  /\ f.build.version \in {2, 3}
  /\ f.build.differs = {}
AcceptsAnySdram(f) ==
  /\ Whole(f)
  /\ f.build.version \in {2, 3}
  /\ f.build.differs \subseteq {"sdram"}

\* The file is whole, of version 2 or 3, and its memories and device ranges
\* are of this build's sizes: else the process exits.
Accepts(f) ==
  /\ Whole(f)
  /\ f.build.version \in {2, 3}
  /\ f.build.differs = {}

-----------------------------------------------------------------------------
(* Saving, one section at a time. *)

OpenForSave ==
  /\ proc = "running"
  /\ proc' = "saving"
  /\ file' = [build |-> ThisBuild, there |-> TRUE, sections |-> <<>>]
  /\ snap' = [live |-> live, time |-> TimerNow, cmp |-> timer_cmp]
  /\ UNCHANGED <<live, timerVars, restored>>

WriteSection ==
  LET k == Len(file.sections) + 1
  IN  /\ proc = "saving"
      /\ k <= Len(Order(ThisBuild))
      /\ file' = [file EXCEPT !.sections =
                    Append(@, SectionOf(Order(ThisBuild)[k]))]
      /\ UNCHANGED <<proc, live, timerVars, snap, restored>>

\* Only a prefix of what was written is on the disk, the rest in buffers.
Prefix(n) == file' = [file EXCEPT !.sections = SubSeq(@, 1, n)]

\* gzclose writes the rest.  Nobody looks at what it returns.
CloseSaved ==
  /\ proc = "saving" /\ Whole(file)
  /\ proc' = "running"
  /\ \E n \in 0 .. Len(file.sections) : Prefix(n)
  /\ UNCHANGED <<live, timerVars, snap, restored>>

\* A write that fails, or a kill: the process is gone.
Killed ==
  /\ proc # "down"
  /\ proc' = "down"
  /\ IF proc = "saving" THEN \E n \in 0 .. Len(file.sections) : Prefix(n)
     ELSE UNCHANGED file
  /\ restored' = FALSE
  /\ UNCHANGED <<live, timerVars, snap>>

-----------------------------------------------------------------------------
(* Starting and restoring. *)

Start ==
  /\ proc = "down"
  /\ proc' = "fresh"
  /\ Initialised
  /\ UNCHANGED <<file, snap, restored>>

\* Any mode but restore.
RunImage ==
  /\ proc = "fresh"
  /\ proc' = "running"
  /\ UNCHANGED <<live, timerVars, file, snap, restored>>

\* SDRAM is zeroed when the file has no section for it.
SdramOf(f) == IF f.build.version >= 3 THEN Read(f, "sdram") ELSE Zeroed

\* What each component is restored to: fcsr has no section, and SEIP, which
\* came with the state, is driven by the interrupt controller at the end.
RestoredTo(f, c) ==
  CASE c = "privilege" -> Read(f, "header")
    [] c = "sdram"     -> SdramOf(f)
    [] c = "fcsr"      -> live[c]
    [] c = "seip"      -> Initial(c)
    [] OTHER           -> Read(f, c)

\* ref_write_timer_value: what is added to sim_time to give the value.
OffsetFor(value, now) == (value - now) % Range64

\* All is read into the process, and checkpoint_mmio_sync_devices sets the
\* timer for it.
Restore ==
  /\ proc = "fresh"
  /\ Accepts(file)
  /\ proc' = "running"
  /\ live' = [c \in Components |-> RestoredTo(file, c)]
  /\ LET words == Read(file, "timer")
     IN  IF words = Garbage THEN UNCHANGED <<timer_offset, timer_cmp>>
         ELSE /\ timer_offset' = OffsetFor(words.time, sim_time)
              /\ timer_cmp' = words.cmp
  /\ restored' = TRUE
  /\ UNCHANGED <<sim_time, file, snap>>

\* A file that does not fit, or none: the process exits.
RestoreFails ==
  /\ proc = "fresh"
  /\ ~Accepts(file)
  /\ proc' = "down"
  /\ UNCHANGED <<live, timerVars, file, snap, restored>>

\* Another build has left a file, saved from this state.
FoundFile(build) ==
  /\ proc = "down"
  /\ file' = [build |-> build, there |-> TRUE,
              sections |-> [i \in 1 .. Len(Order(build)) |->
                              SectionOf(Order(build)[i])]]
  /\ snap' = [live |-> live, time |-> TimerNow, cmp |-> timer_cmp]
  /\ UNCHANGED <<proc, live, timerVars, restored>>

-----------------------------------------------------------------------------
(* The guest runs. *)

Advance(cs) == live' = [c \in Components |->
                          IF c \in cs THEN [live[c] EXCEPT !.gen = @ + 1]
                          ELSE live[c]]

\* An iteration: sim_time counts, and all that is saved may have changed; so
\* may fcsr or SEIP, by an instruction on them.
Step ==
  /\ proc = "running"
  /\ sim_time < MaxTime /\ live["state"].gen < MaxGen
  /\ sim_time' = sim_time + 1
  /\ \E more \in {{}} \cup {{c} : c \in Unsaved} : Advance(Saved \cup more)
  /\ restored' = FALSE
  /\ UNCHANGED <<proc, timer_offset, timer_cmp, file, snap>>

\* store_word: a word of the time or of the compare register is replaced.
StoreTimer(reg, half, word) ==
  LET old == IF reg = "time" THEN TimerNow ELSE timer_cmp
      new == IF half = "lo" THEN Join(word, Hi(old)) ELSE Join(Lo(old), word)
  IN  /\ proc = "running"
      /\ IF reg = "time"
         THEN timer_offset' = OffsetFor(new, sim_time) /\ UNCHANGED timer_cmp
         ELSE timer_cmp' = new /\ UNCHANGED timer_offset
      /\ restored' = FALSE
      /\ UNCHANGED <<proc, live, sim_time, file, snap>>

Next ==
  \/ Start \/ RunImage \/ Restore \/ RestoreFails \/ Killed
  \/ OpenForSave \/ WriteSection \/ CloseSaved
  \/ \E build \in OtherBuilds : FoundFile(build)
  \/ Step
  \/ \E reg \in {"time", "cmp"}, half \in {"lo", "hi"}, word \in 0 .. Half - 1 :
       StoreTimer(reg, half, word)

Spec == Init /\ [][Next]_vars

-----------------------------------------------------------------------------
(* Properties. *)

\* The variables hold values of their types.
TypeOK ==
  /\ proc \in {"down", "fresh", "running", "saving"}
  /\ live \in [Components -> Content]
  /\ sim_time \in 0 .. MaxTime
  /\ timer_offset \in 0 .. Range64 - 1 /\ timer_cmp \in 0 .. Range64 - 1
  /\ file.build \in Build /\ Len(file.sections) <= Len(Order(file.build))
  /\ restored \in BOOLEAN

\* A run that was restored stands where the saved one stood, whatever was
\* killed, cut short or written by another build before: every saved
\* component has the content it had, SDRAM is zero after a file without it,
\* and the guest's clock and its alarm go on from the saved values though
\* sim_time starts again.  Saved leaves out fcsr, which no file holds, and a
\* SEIP the guest wrote, which a restore computes again
\* (include/ref.h:258-259, exec.cpp:1093).
RestoredAsSaved ==
  restored =>
    /\ \A c \in Saved \ {"sdram"} : live[c] = snap.live[c]
    /\ live["sdram"] = IF file.build.version = 2 THEN Zeroed
                       ELSE snap.live["sdram"]
    /\ TimerNow = snap.time
    /\ timer_cmp = snap.cmp
=============================================================================
