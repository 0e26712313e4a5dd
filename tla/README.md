# GenSimpoint: TLA+ models, checks and proofs

GenSimpoint is a functional RV32 simulator that runs a benchmark image,
collects basic block vectors (BBVs) for the SimPoint tool and saves checkpoints
at the intervals SimPoint chooses; the processor is also a library a larger
simulator embeds as its reference. This directory holds TLA+ models of it, the
TLC configurations that check them and the TLAPS proofs about them.
`PROJECT.json` lists every run, the source lines of every definition, the
mutants each property must catch, the hazards and the findings.

    tlc -workers 2 -config MCSimLoopAll.cfg MCSimLoop     # model-check a run
    tlapm SimLoopProofs.tla                               # check the proofs

## 1. Inventory

| component | source | state | operations |
|---|---|---|---|
| Simulation loop | `exec.cpp` `exec` | `sim_time`, `sim_end`, `finished_intervals`, `interval_inst_count`, target maps | prologue of the five modes, one iteration, end |
| BBV accounting | `simpoint.cpp` `bbv_*`, `exec.cpp` `RISCV` | block head and length, pc-to-id map, count vector, BBV file | count a step, commit a block, dump a vector |
| SimPoint flow | `run_bbv.sh`, SimPoint, `run_ckpt.sh` | BBV, points, weights and checkpoint files | BBV run, clustering, checkpoint run |
| Traps and interrupts | `exec.cpp` `RISCV`, `exception`, `evaluate_interrupts`, `take_forced_interrupt`, `RV32CSR` | privilege, status/enable/pending/delegation CSRs, flags | step, trap, return, CSR access, forced interrupt |
| Checkpoint | `simpoint.cpp` `save_checkpoint`, `restore_checkpoint` | gzip file: CPU, memories, interval counter, device words | save, restore, older files |
| Devices | `exec.cpp` `ocsdc_*`, `xps_intc_*`, `uart_*`, `store_data` | UART registers, SD controller, interrupt controller, timer | register reads and writes, commands, interrupt refresh |
| Memory, LR/SC | `load_word`, `store_word`, `store_data`, the loads and stores of `RV32IM`, `RV32A` | RAM, SDRAM, io words, reservation | loads, stores of every width, `lr.w`, `sc.w`, AMOs |
| Sv32 | `va2pa` and its callers | satp, page tables | translate a fetch, load or store |
| Instructions | `RV32IM`, `RV32Zfinx` | registers, pc, fcsr | one action per kind of instruction |
| Embedding API | `refcpu_api.cpp` | contexts, io words, overrides, delivery switches, the shared timer | create, destroy, set_state, sync, force, switch |
| Difftest | `spike_ref.h`, `exec` | Spike's state, `difftest_started`, `is_io`, `force_sync` | delayed start, copy, step and compare |
| Scripts | `run_bbv.sh`, `run_ckpt.sh` | output files, background jobs | spawn, skip, analyse, wait, fail |
| Command line | `main.cpp` | `SimConfig` | parse |

One thread runs `exec()`, which calls `RISCV()` once per iteration; `RISCV()`
counts the step, may trap, and reaches devices through stores. Devices raise
interrupts by setting pending bits that the next `RISCV()` evaluates. The BBV
run and the checkpoint run are separate processes that communicate by files:
the checkpoint run finds the interval SimPoint chose by counting the same
boundaries again. An embedding simulator drives `RISCV()` through the API and
interleaves its own calls with steps.

What is hard here is order and agreement: which count, comparison, reset and
save comes first in an iteration; two processes counting alike; two copies of
the status bits; flags that are computed at one point of a step and read at
another; interrupts that coincide with an instruction that traps. The correctness
properties, by component:

- loop: instructions are conserved, intervals close when full, limits are
  exact, checkpoints are on time, carry the right warmup length, and none is
  dropped; every run ends;
- BBV: each line holds exactly its interval; ids are dense;
- flow: the checkpoint is of the interval SimPoint chose; each chosen interval
  is served;
- traps: copies agree, saved state survives nesting, a return resumes what its trap
  interrupted, causes are real, no trap lowers the privilege;
- checkpoint: restore after save is the identity on all that later steps read
  but the two parts section 6 names, the clock included;
- devices: a level is neither lost nor repeated;
- memory: an instruction reads and writes just the bytes it names, and `sc.w`
  succeeds exactly on its own reservation;
- Sv32: an access goes where it is mapped if it has the right, and faults otherwise;
- instructions: results obey the laws of the operations they are named for;
- API: a context reads what it set, a clone shows what the original showed, a
  value given for a CSR is read once;
- Difftest: a mismatch is never made by the comparison, and a wrong register is
  reported on the step that made it;
- scripts: what a later start skips is complete, complete checkpoints are not made
  again, the number of jobs is limited, a script ends.

## 2. Modules

| module | what it is |
|---|---|
| `SimLoop` | `exec()` and the BBV accounting; one action per way through an iteration |
| `WarmupSchedule` | what a checkpoint run promises, over intervals alone |
| `SimLoopProofs` | theorems about `SimLoop`, `WarmupSchedule`, which it implements, and `SimPointFlow` |
| `SimPointFlow` | a BBV run, SimPoint's choice and a checkpoint run of the same program, composed of `SimLoop` |
| `TrapUnit` | privilege, CSRs, traps, returns, interrupts, forced interrupts |
| `Devices` | UART, SD controller, interrupt controller and SEIP, under the stores of a guest |
| `InterruptProofs` | theorems about `TrapUnit` and `Devices` |
| `Checkpoint` | save and restore of checkpoint files, and the timer across processes |
| `CheckpointProofs` | theorems about `Checkpoint` |
| `Sv32` | `va2pa()`, and the definition by rights of what it is meant to reach |
| `Memory` | loads, stores, `lr.w`, `sc.w` and AMOs through `Sv32`, on RAM and boot IO |
| `ByteMemory` | what a memory promises: bytes and the instructions on them; `Memory` implements it |
| `Numerals` | the number whose bits a set of naturals is, and the powers of 2 |
| `NumeralsProofs` | recursion, induction, and how those numbers add, divide and compare |
| `MemoryProofs` | theorems about `Sv32` and `Memory`, which implements `ByteMemory` |
| `Difftest` | the comparison with Spike in the loop of `exec()` |
| `Pipeline` | both batch scripts, their jobs and files, with failures, Ctrl-C and crashes |
| `PipelineProofs` | theorems about `Pipeline` |
| `RefApi` | the calls of a host on its contexts between steps |
| `CosimProofs` | theorems about `RefApi` and `Difftest` |
| `Words` | what the instructions compute, on words of W bits |
| `RV32IM` | the instructions as actions, executing programs |
| `RV32Laws` | programs whose results are bound by a law, and the laws |
| `RV32Proofs` | theorems about `RV32Laws` |
| `MC*` | instances for TLC: configurations, guests, hosts, operands, symmetry |

### SimLoop

The processor is what the loop can see of `RISCV()`: an outcome `[user, br, end,
pc]`, the privilege and pc after the step, whether it was a control transfer and
whether it ended the simulation. Any program is a sequence of outcomes; the only
constraint (`Possible`) is that a control transfer or a halt leaves the
privilege alone. `Halt`, `StopAtLimit`, `WithinInterval` and the three
`...Boundary` actions are the ways through one iteration, each with everything
the iteration does, in the code's order: block count, special target, block
close, limit, boundary. `user_steps` and `closed_insts` are history variables.
A line of the BBV file is the function from ids to counts that it prints; a
checkpoint is what it was saved for, when, and the interval counter in the file.
Programs that make `RISCV()` call `exit` (a misaligned access, an address
outside every window) are left out, as are the Spike branch of the loop and logging.

A points file that cannot be opened or parsed ends the process before the loop
and is not modelled. `dump_bbv` and `load_simpoints` are modelled by what they
print and read.

### SimPointFlow

The flow records the outcomes of the BBV run in `trace` and replays them in the
checkpoint run: the simulated program is deterministic, since its timer is
`sim_time` and it reads no input. SimPoint may choose any nonempty set of the
intervals that have a line. The scripts' skipping and their job control are
`Pipeline`'s; here the checkpoint run starts even after a failed BBV run, as
`run_ckpt.sh` looks only at the file.

### TrapUnit

A CSR is the set of its bits that matter to traps, by name. `FetchFault`,
`TrapOrReturn`, `MemoryFault`, `IllegalSystem`, `IllegalZfinx`, `Plain` and
`CsrInstruction` are the ways through `RISCV()`; `Exception` is `exception()`
with its members as parameters: the instruction, the interrupt flags, the page
fault, `illegal_exception`. `irq` and `inst` are the members that keep their
value between steps, which is what a fetch fault reads. `ForceInterrupt`,
`RefuseInterrupt` and `SetInterruptDelivery` are the calls of an embedding
simulator between steps. `mframe`, `sframe` and `trap` are history variables:
what the last trap saved and which trap the last step took. A guest may write any
privilege to MPP, the reserved 2 included, return to it and trap out of it. Instructions on data,
page tables and devices are nondeterministic: any fetch or access may fault
when translation is on below M, any plain instruction may move the timer
compare value and SEIP. Left out: trap values, vectored entry, `fcsr` and the
scratch registers, which no decision reads; the CSR read override, `set_state`
and `set_device_effects` are in `RefApi`.

### Devices

An action is one store of the guest, all the way through `store_data`,
`store_word` and the device to `refresh_external_interrupt`. Of each register
only what decides an interrupt is kept: a bit of IER, LSR and LCR, whether a
status or enable word of the SD controller is zero, the three wired lines of the
interrupt controller. `StoreUart` takes the first byte, the width and the bits
written, since `store_data` stores the whole word and then acts on its first byte;
IER and the upper half of the divisor share a byte in the code and so they do
here. `WriteSeip` is a write to `mip` or `sip`, the only way past the controller.
`acked`, `silent` and `overridden` are history variables that name, in the
properties, exactly the lines an operation of the code leaves out of step: an
acknowledge of a line that is up; a wide or divisor-latch store to the UART, a
new command or a reset of the SD controller; a write to SEIP. They last until
the device drives the line again. Characters, card responses, the bytes of a
transfer and stores with device effects off are left out.

### Checkpoint

The state is cut into the parts a checkpoint is made of; a part's content is
which part it is and a generation, so that bytes read at the wrong place or from
the wrong save are told apart. `Order` is the sequence of sections a format
has. A save writes one section per step and may be killed between any two, or
lose its end when the last buffers are written by `gzclose`; a file of another
format or build may be found. `Read` gives garbage for a section that is missing
or that follows one of another size; that nothing of it ever reaches a
running process is what `Accepts` is checked for. The timer is kept with its
arithmetic, modulo a small square of the half word, since its words are written
as values and read back as an offset to a `sim_time` that starts at 0. Outside
the model: the names of files, and the flags that `RISCV()` keeps between two
steps, which are outside the file too (section 6 tells who reads them).

### Sv32, Memory and ByteMemory

A page holds one word, which is the set of its bits that are 1, so that masks,
shifts and strobes are those of the code, on sets. An action is one instruction
from its address to the last thing it writes: both walks of an AMO, the
reservation, the strobe, the read-modify-write of a device word, and the address
outside every window that ends the process. `Sv32` has two definitions: `va2pa`,
translated check by check, and `Reaches`, which says in one formula which page an
access has the right to; `AccessesAsGranted` relates what the last instruction
did to the second. Page tables are entries rather than words, a guest does
not map a page to them, and rewriting one is the action `Remap`; the rest of
what a hart does between two accesses (traps, returns, CSR writes) is `Switch`.
`ByteMemory` knows nothing of words, strobes and sets: it has bytes, numbers and
signed numbers, and `ByteAccurate` says that `Memory` implements it under the
mapping that cuts a word into bytes. The number a set of bits stands for is
`NumberOf` of `Numerals`, a recursive function over powers of 2 that are one too:
the prover knows nothing of `^`. `done` and `link` are history variables.

### Difftest

Of the two states, the simulator's and Spike's, only the parts in which they
differ are kept. An action is an iteration of the loop: a step of the simulator
and then what Spike does, which is nothing before the pc reaches 0x80000000, a copy
(`is_io`, `force_sync`, the memory of a DMA), or a step and a comparison. The
flags by which the loop chooses are variables, as they are members that outlive
a step in the code: `is_io` and `force_sync` are cleared before the fetch, those
of the interrupts evaluated after it, so that a step that ends at a fetch fault
still sees those of the step before. Spike
is external: a hart that executes what it is told. What depends on a part that
differs may itself differ, and nothing makes the choice but the comparison. A bug
of the simulator makes one part wrong, once; `bugs`, `odd`, `last` and
`interrupted` are history variables: `interrupted` says, apart from the code's
flags, whether the last step that was not a fetch fault was an interrupt, and
`odd` names what a guest did that Spike is known to see
differently (section 6). A copy is taken to store what it is given:
`spike_ref.h:535-541` reads each CSR back and logs one that Spike holds
differently, which would be Spike's doing.

### Pipeline

A background job of a script is a record that goes through the stages of its
shell function, each a test of a file, a command or what the command leaves; a
file is absent, good, or bad. Checkpoints are also a part of a set, from the
moment the simulator opens its first file, which truncates whatever was there,
to the last one; a job that has found the directory empty (stage `ckpt`) has
touched nothing yet, and may come to it after another has filled it. `Fail`, `Interrupt` and `Crash` are the faults:
a simulator or SimPoint fails in the middle of its output; Ctrl-C ends the
script and leaves its background jobs, which ignore SIGINT; the machine goes down
with everything. The scripts may then be run again, and find what was left.
`jobs` belong to the shell that started them, which in `run_ckpt.sh` is the
subshell of a pipe. `said`, `spoilt` and `complete` are history variables: which
starts have printed that they are done, which images a job was killed at or two
jobs worked on at once, and how many starts there had been when an image's
checkpoints were last complete.

### RefApi

One action per call of the library that changes what outlives it. The timer's
offset and compare value are variables of the library and not of a context, as
they are file-wide in the code; io words, MTIP, the switches and the armed value
belong to a context. A host is the set of calls it makes, in any order. A
register of the timer is one word, modulo T. `set`, `snap`, `same` and `left` are
history variables: who set a register last, what the host read of a
context, which parts of it another context was given since, and how often a value
that was given may still be read.

### Words, RV32IM and RV32Laws

`Words` defines what an instruction computes, in terms of W (32 in the code) and
of an exponent's width, on `Numerals`' powers of 2; `RV32IM` is the machine: a pc,
registers, `fcsr`, and one
action per kind of instruction, with what is left of the last one cleared first.
Floats that softfloat would add or multiply get any result and any flag.
`RV32Laws` gives it programs, such as division followed by multiplication and
addition, or a product beside one made of shifts and a loop, and states the law
that their results obey, so that no instruction is compared to a second copy of
its own formula.

## 3. Runs

| run | properties | shows | states |
|---|---|---|---|
| `loop` | `InstructionsConserved`, `LimitIsExact`, `BbvMassConserved`, `BbIdsAreDense`, `SpecialTargetsExact`, `WarmupsOnTime`, `WarmupLengthInFile`, `EarlyExitDropsNothing`, `ImplementsSchedule`, `RunsEnd` | all five modes: the accounting, each BBV line holds exactly its interval through two growths of the vector, the checkpoints and the end of a run; refinement of `WarmupSchedule` | 110 k |
| `flow` | `CkptsAreAligned`, `LatePointsServed` | both runs count the same boundaries; every chosen interval but 1 is served | 347 k |
| `trap_interrupts` | `ShadowsAgree`, `CausesAreReal`, `ForcedAsAsked`, `TrapNeverDescends` | interrupts against a guest that masks, delegates and raises them, and a caller that forces them | 602 k |
| `trap_frames` | `FramesIntact`, `ReturnsToOrigin` | nested traps and returns of both modes, for a guest that writes any privilege to MPP | 287 k |
| `devices` | `LinesFollow`, `SeipIsOutput` | every store to the UART of every width, the SD controller's commands, statuses, enables and resets, all registers of the interrupt controller: no interrupt is lost or repeated | 959 k |
| `checkpoint` | `RestoredAsSaved` | kills, short writes, other formats and builds, restores by new processes: what is restored is what was saved, the clock included | 1.4 M |
| `memory` | `AccessesAsGranted`, `ScOutcome`, `ByteAccurate` | every access under every page table entry and mode; reservations against every way to write; strobes, shifts, signs and AMOs; refinement of `ByteMemory` | 97 k |
| `difftest` | `NoFalseAlarm`, `HiddenStateAgrees`, `BugsAreCaught` | steps of every class, right or wrong in one part, in any order | 89 k |
| `pipeline` | `JobLimit`, `NothingHalfDone`, `CkptsHaveWeights`, `GoodCkptsAreKept`, `ScriptsEnd` | three starts of the scripts, with a fault anywhere | 725 k |
| `refapi` | `TimerIsOwn`, `CloneIsFaithful`, `GivenOnce` | two contexts of one process, under five kinds of host | 456 k |
| `rv32` | `ArithmeticLaws`, `BitLaws`, `CallLaw`, `FloatLaw`, `ProgramsEnd` | the instructions' results, jumps and calls | 62 k |
| `pipeline_completed` | `CompletedMeansDone`, violated | the finding of section 6 | |

The types (`TypeOK` of each module), `IntervalsAreClosed` and `IirIsLevel` are not repeated in these runs where section 4 proves them for every
instance; they were model-checked on the same instances before they were proved.

Bounds. An interval is 2 instructions and a run 9 at most, so that runs cover four
intervals and part of a fifth, blocks that overfill an interval, and blocks interrupted by
kernel steps; nothing in the loop depends on the interval length beyond
comparing with it. The vector starts with one slot so that it grows twice; ids
grow by one, so that doubling always suffices from there and the `+ 1024` branch
is never taken. Two pcs give two blocks. The points files are unsorted, repeat
an interval, hold 0, and hold one that is never reached; limits are absent,
inside an interval and on a boundary. In `TrapUnit` CSR writes are taken from a
small set of instructions per guest (`InterruptOps`, `PagingOps`), chosen so
that every CSR that matters is set and cleared; two pcs separate "saved" from
"handler" in `trap_frames`, one suffices elsewhere. `devices` has all stores to
the UART (`AllUartStores`) and two SD commands that between them set and leave
each status; the module is finite without a bound. In `checkpoint` two generations
are enough to tell an older save from a newer one; the half word is 2, so that
the timer's carry into the high word and its wrap both happen within `MaxTime`
and the guest's stores; the builds found are an older one without SDRAM, an
unknown one, and one with another size of each kind of section.

`memory` has four guests. `pager` makes every kind of access in every mode under
every superpage entry and every leaf entry (all sets of flags; page numbers that
are aligned, misaligned, beyond the space, and of no window), with two
entries per table, which is enough for both levels to be indexed. `locker` has two
reservable words and two names for one of them. `worker` and `driver` have all
widths, offsets, signs and AMOs on RAM and on boot IO; a byte has one bit, which
is what a strobe, a shift and a sign need to be told apart, since each moves
bytes as a whole. `difftest` admits one bug, because two bugs in one run only
weaken the antecedents of what it checks. `pipeline` has two images, so that one
job can wait for another; one slot for `run_bbv.sh` and two for `run_ckpt.sh`, so
that both a full script and one with room are met; three starts, which is a start that
is interrupted, one that overlaps it, and one that finds what both left; and one
fault. `refapi` counts the timer modulo 3 with two values and times, so that an
offset wraps and two registers can be equal or not; a host makes five to ten of
the calls, grouped by the state they touch, and the two contexts are alike
(symmetry). `rv32` has words of 8 bits, where a byte is two bits and a float has
three bits of exponent, and 18 operands: zeros, ones, both ends of the signed
words, shift amounts around the width, infinities and NaNs of both kinds, in
every pair; of the rounding modes in `fcsr` one that exists and one that does not.

`CHECK_DEADLOCK FALSE` is set where the system stops: runs of the loop and the flow
end; a read beyond the card, an address outside every window and a truncated
checkpoint end the process (`devices`, `memory`, `checkpoint`); a comparison fails
or the program ends (`difftest`); scripts have been started as often as the bound
lets them (`pipeline`); a program is over (`rv32`). `TrapUnit` and `RefApi` never
stop, and deadlock is checked.

Fairness. `FairSpec` of `SimLoop` has weak fairness of the whole next-state
relation: `exec()` is one thread and `RISCV()` always returns (it has no loop that
waits), so some step is taken while one is enabled. No action is favoured: a
program that never branches in user mode is included. `RV32IM` has the same, for
the same reason. `Pipeline` has weak fairness of a script's step and of a job's
step, because the operating system runs them and because a simulation ends
(`RunsEnd`) and SimPoint is assumed to; none of a start or a fault.

## 4. Proofs

TLAPS checks, for every value of the constants that satisfies the assumptions
named in the modules:

- `SimLoopProofs`: `TypeCorrect` is inductive with the facts about what
  `RISCV()`'s outcomes add. `Conservation` rests on it: the three counters
  move together in each action. `IntervalsClosed` and `LimitExact` need each
  other's neighbours (what the loop tests at the end of an iteration is what it
  assumes at the start). `SpecialExact` and `WarmupsExact` use an invariant that
  the checkpoints saved so far lie behind the counter (`OrderInv`), so that
  appending one keeps the list sorted; `WarmupLength` and `ExitDropsNothing` follow
  from the same. `Implementation` maps every action to a step or a stutter of
  `WarmupSchedule`, and `ScheduleCorrect` is the abstract promise itself; its
  invariant adds that nothing is chosen before the run begins.
- `SimLoopProofs`, the vectors: `DenseIds` needs `DenseInv`, that the vector is
  `0 .. size - 1` for a size above every id that is taken. `MassConserved` adds
  to it what the vector and the lines sum to (`MassInv`). A sum is a fold, which is
  recursive on the subsets of a domain; that this recursion has a solution, and
  that the order of the elements is immaterial, is proved from the library's
  theorem on minimal elements (`SumsExist`, `SumsAny`, `SumsAgree`), so that
  growth, commit and dump become three lemmas on masses.
- `SimLoopProofs`, the two runs: `CkptsAligned` and `LateServed` need one invariant
  over both processes. What the loop counts after n steps is a function of the
  first n outcomes of the trace (`NextPlace`), whichever the mode; `FlowAt` says
  that there is a walk of such places along the trace, that the process under
  way is at its place on it, that `starts` are the places where the interval number
  grows, and that every checkpoint lies on one of them. `BbvGoesOn` extends the
  walk by a place, `CkptGoesOn` moves along it; an interval begins only once
  (`BeginsOnce`).
- `CheckpointProofs`: `RestoresWhatWasSaved` rests on `CkptInv`: what there is of a
  file are the first sections of its order, each with what was saved (`FileOK`), and
  nothing moves while they are written (`SavingOK`). The rest is that a file `Accepts`
  lets through has every section a restore reads, at the place where it is read,
  and that an offset taken from the timer's two words and put back gives the
  time they were written at, modulo their width (`TakenAndPutBack`).
- `InterruptProofs`, the hart: `Inv` joins types, the agreement of the copies and the
  frames. The frames alone are not inductive: a trap into M rewrites `sstatus`
  from `mstatus`, so it leaves the supervisor's frame alone only if the two agreed.
  One walk through the steps (`StepOK`) shows what each leaves and the way it goes,
  from which `ReturnsHome` and `NeverDescends` follow as well. None assumes anything of
  the MPP a guest writes; the reserved 2 appears in what they state (section 6).
- `MemoryProofs`: `WalkReaches` is the algebra of the walk: the code's
  checks, level by level and flag by flag, against the definition by rights, for
  any number of entries and pages. `AccessesAreGranted` then follows from what
  each action records (`Typed`). `ScOutcomeHolds` needs `ReserveIsLink`: the
  reservation flag of the hart says exactly that an `lr.w` has not been followed
  by an `sc.w` or by a store to the first byte of its word.
- `NumeralsProofs`: the library's induction takes an operator, which the provers
  cannot instantiate, so recursion and induction on the naturals are proved from
  its theorem on minimal elements (`WFMin`), for sets. `NumberOf` then has what
  numbers have: it splits at any place (`NumberSplit`), so that division and
  remainder by a power of 2 drop and keep places (`NumberDivMod`), equal bits give
  equal numbers (`NumberAgrees`), and the first bit that differs decides
  (`NumberLess`).
- `MemoryProofs`, the refinement: `BytesAreAccurate` maps each step of `Memory`, on
  words that are sets of bits, to the step of `ByteMemory` of the same name, on
  numbers and bytes, for every width of a byte. The code's operations become those
  on numbers: a sum by carries is the sum modulo the size of a word
  (`SumIsAddition`), the order and the sign of sets are those of the numbers, the
  bytes of a word are its digits (`ByteIs`, `JoinIs`), a shifted load picks one or
  two of them (`LoadIs`), and a strobed store replaces those its strobe names
  (`StoreIs`). Over these there is one lemma per action.
- `RV32Proofs`: the four laws of `RV32Laws` for words of 8, 16 and 32 bits, every
  layout of a float in them and every two operands, where the run has 8 bits and 18
  operands. `ProgramsInv` is inductive. Of the straight programs it says that the
  registers are what some run of the program so far leads to (`StraightInv`), of
  the others it says what holds at each place: a bit for every branch not taken
  (`BranchesInv`), what the multiplication still has to add (`MultiplyInv`:
  `gpr[5] + gpr[3] * n` is the product, modulo the size of a word), where the
  procedure returns to and how often it has run (`CallInv`), and how many bits are
  still to be counted (`CountInv`). What the registers then hold is a fact about
  words, wrapped numbers for arithmetic and sets of bits (`BitsOfWord`,
  `WordOfBits`) for the rest: quotients are unique, both halves of a product are
  within a word, shifts and rotations move places, carry-less products are
  parities of pairs, floats are ordered by sign and size. The theorems assume
  that the programs are those of `RV32Laws` (`Programs = LawPrograms`), as the cfg
  says; they say nothing of programs in general.
- `CosimProofs`, difftest: `WrongRegistersAreCaught` needs, of the flags a step
  leaves, that those of the interrupts are up at a fetch fault only if `interrupted`
  says so. `AgreeInv` has it, and says more than the properties: before Spike joins
  too, a difference in `fcsr` or in the reservation has its excuse, since it is
  what Spike will carry along. With it one lemma per kind of iteration suffices.
- `PipelineProofs`: `JobsAreLimited` needs that the script at its limit has one
  place free after the wait (`LimitInv`, with `AtWork`, where the script is), in terms of
  cardinalities. `CkptsComeWithWeights` and `CompleteCkptsStay` rest on `FileInv`,
  which says of every job what the files of its image must hold at its stage.
  `CompleteCkptsStay` and `NoneHalfDone` also need `WholeInv`: an image that is not
  spoilt has at most one job at work, and a file of it is bad or missing only where
  that job's stage says so.
- `CosimProofs`, the API: `LeftIsArmed` (an armed value is one that may still be read),
  `TimerIsSet` (the offset is that of whoever set it last) and `SnapIsKept`
  (what a clone has of the snapshot), over lemmas about arithmetic modulo T.
- `InterruptProofs`, the devices: `DevicesInv` joins `TypeOK`, `LinesFollow`, `SeipIsOutput` and
  `IirIsLevel`; it is inductive as it stands, because the history variables say
  which lines are out of step. The proof goes by lemmas about `Drive` and
  `Refresh`, the two calls every path that moves a line ends in, and one case per store.

`InterruptProofs` and `CosimProofs` each extend two components, so the initial
states, steps and specifications of `Devices` and `Difftest` have the component in
their names (`DevicesSpec`, `DifftestInit`).

Assumptions: `SimLoopAssumption` (positive interval length, time bound and vector
size, configurations of the right shape), `TrapUnitAssumption` (entries are
pcs, instructions and snapshots of the right shape), `DevicesAssumption` (stores,
words and commands of the right shape), `Sv32Assumption` (tables that divide the
address space), `MemoryAssumption` (pages, words and guests of the right shape), `DifftestAssumption` and `PipelineAssumption`
(bounds are numbers, job limits positive, finitely many images) and
`RefApiAssumption` (words below T) and `CheckpointAssumption` (a positive half
word, times that fit in two, builds of the right shape), `WordsAssumption` (words of
8, 16 or 32 bits, with a place for a float's sign and mantissa) and `RV32IMAssumption`
(operands that are words, programs that fit in memory). TLC evaluates them.

Only model-checked: liveness (`RunsEnd`, `ScriptsEnd`, `ProgramsEnd`), as fairness is
out of the prover's reach. Every invariant and every action property of the passing
runs, and both refinements, are stated by a theorem.

## 5. Plan

Written so far, in this order: `SimLoop`, `WarmupSchedule`, `SimPointFlow`,
`TrapUnit`, the proofs about them, `Devices` with its proofs, `Checkpoint`,
`Pipeline`, `Memory` with `Sv32` and `ByteMemory`, `RefApi`, `Difftest`, and
`RV32IM`, each with its proofs. Next:

1. `Devices` composed with `TrapUnit`: a device's interrupt is eventually taken
   by a guest that leaves it enabled.
2. `Checkpoint` composed with `SimLoop`: a restored run continues as the saved
   one would have.

## 6. Findings

- `pipeline_completed`: `run_ckpt.sh:175` prints "All tasks completed." while jobs
  it started still run: the loop that starts them is behind a pipe (`:160`), so
  they belong to its subshell, and the `wait` of `:173` has nothing to wait for.

Met while modelling. These are in the models, as the code has them, and where a
property would be broken by one, it excludes exactly that case by name:

Loop and checkpoints

- Interval 1 never gets a checkpoint: `exec.cpp:1296` looks one interval past the
  one that starts and the prologue saves only 0, though
  `SIMPOINT_SPECINT2006.md:40-46` knows of no exception but 0 (`LatePointsServed`).
- The floating-point flags and rounding mode are not in the file
  (`simpoint.cpp:161`, `include/ref.h:258-259`; `RestoredAsSaved`).
- A restore ends in `refresh_external_interrupt`, which overwrites a SEIP the
  guest had written itself (`exec.cpp:1093`, component `seip` of `Checkpoint`).
- What `gzclose` returns is dropped, so that a truncated checkpoint is reported
  as saved (`simpoint.cpp:194-195`, action `CloseSaved`).

Traps

- A fetch fault reaches `exception()` before the flags and `Instruction` of its
  step are computed, and reports the previous step's cause (`exec.cpp:1366`,
  `1719-1723`). Right after an interrupt, the flags that are still up make
  difftest copy it to Spike, cause and all (`exec.cpp:1388`, `BugsAreCaught`).
- An ecall delegated to S that coincides with a supervisor interrupt reports an
  interrupt that is not pending (`exec.cpp:1480`).
- An ecall from M reports cause 0 when ecalls from U are delegated
  (`exec.cpp:1417`). `CausesAreReal` excludes these three and holds for every
  other trap.
- MPP keeps the reserved encoding 2, and `mret` makes it the privilege
  (`exec.cpp:2016`, against `include/ref.h:80`). SPP has no encoding for it, so
  that a trap from 2 into S lowers the privilege and returns to U. `FramesIntact`,
  `ReturnsToOrigin` and `TrapNeverDescends` name those cases.
- `csrrwi` with a zero immediate counts as a read (`exec.cpp:1846`), so that a guest
  cannot clear a register with it (`WriteEnabled`).

Memory, translation, instructions

- MPRV has no effect in M, because the callers skip translation there
  (`exec.cpp:2453`, `3064-3070`), and `mret` does not clear it.
- SUM admits fetches of the supervisor from user pages as well (`exec.cpp:3111`).
- Page numbers above 4 GB are truncated (`Frame`).
- `sc.w` succeeds after a store to other bytes of the reserved word; only a store
  at the word's address ends the reservation. Spike keeps it even then.
- The store strobe an embedding host sees is shifted by the offset times 8
  (`exec.cpp:3052`). An AMO of an unknown function stores what the last store left.
- A rotation by 0 shifts by 32, which C++ leaves undefined; with either outcome
  of the machine the result is right (`BitLaws`).
- `jalr` clears the two low bits of its target, so that a misaligned one never
  traps; integer encodings that are not listed do nothing; an invalid rounding mode
  leaves the pc where it is, for ever (`exec.cpp:2070`, `ProgramsEnd`).
- The timer reads as `sim_time` plus an offset, in both words
  (`exec.cpp:2497-2502`, `TimerNow`); `README.md:100-101` documents `sim_time` and 0.

Embedding API and difftest

- The timer is file-wide, so that a context that is initialised or synchronised
  sets the timer of all others; `DIFFTEST.md:95` says that it uses `io_words`.
  Cleared io words and a synchronisation set the compare value to 0, and the timer is
  due at once. A guest's stores to the timer do not reach the io words, so that a
  synchronisation takes them back.
- `set_state` writes the MTIP that was visible into `mip`, where the guest cannot
  clear it. `refcpu_take_forced_interrupt` overwrites `mip` also when it takes
  no interrupt. A value given for a CSR also feeds read-modify-write instructions.
- `csrr` of `mip` or `sip` while MTIP or SEIP is pending makes Spike report a
  mismatch that is none; so do `fcsr` and reservations from before Spike joined
  (`odd`). `reg_check` compares neither privilege nor memory nor `fcsr`, and the
  step that ends the simulation is not compared; a wrong result of a copied step
  is copied with it.
- A page fault at an untranslated address below RAM is taken for a device access
  and copied, where `DIFFTEST.md:35-36` says that only device accesses are.
- `DIFFTEST.md:35` lists the wait of `wfi` among what is copied; the code has Spike
  execute `wfi`, ends its wait and compares (`exec.cpp:1207-1217`), which is what
  `BugsAreCaught` holds it to.
- The memory of a DMA outside of one RAM window is refused by an exception that
  nobody catches (`ThrowOnDma`).

Scripts

- Ctrl-C ends a script and leaves its jobs running; a second start works beside
  them on the same files, and only images without such a job are promised whole
  files (`spoilt`). A job that found the directory of checkpoints empty before
  another filled it writes them all over again (`run_ckpt.sh:125`,
  `simpoint.cpp:143`), and if it is killed meanwhile, a complete set is lost for
  good, since the next start finds the directory not empty. `GoodCkptsAreKept` names
  that job, and says that nobody else does this. `wait -n || wait` waits for all jobs when one fails.
- A BBV file that is made again does not make its points and checkpoints again.
  Two images of the same base name share their files.

## 7. Not modelled

Of the 23,687 lines of C and C++ here, some 18,500 are vendored: headers of
riscv-isa-sim, libfdt and softfloat under `lib/include` and `lib/softfloat`, of
which this code uses a few types and calls. A share of the map above a fifth
would have to come from them, and they are not what this repository is about.
Of its own code, left out are:

- the command line (`main.cpp`), which fills a `SimConfig` that `SimLoop` takes as
  input;
- softfloat's arithmetic: additions, products, conversions and roundings give any
  result, as none of it is in this repository's own source;
- trap values, vectored entry and the scratch registers, which no decision reads;
- characters of the UART, responses of the card, the bytes of a transfer;
- loading of images, logging, and the printing of a trace;
- of the API: RAM copies, images, printing and queries, which change nothing that
  another call reads;
- Spike itself and the SimPoint tool, which are modelled from how they are used;
- the fine print of three exits: a run whose last instruction reaches
  `MAX_SIM_TIME` is reported as a timeout (`exec.cpp:1328`), and a BBV file that
  cannot be opened is only logged (`simpoint.cpp:89`), both of which `SimLoop` has
  without a property about them; a points file that cannot be parsed ends the
  process before the loop.
