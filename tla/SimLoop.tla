------------------------------ MODULE SimLoop ------------------------------
(***************************************************************************)
(* The main loop of the simulator, Ref_cpu::exec (exec.cpp), with the      *)
(* basic-block-vector accounting of simpoint.cpp.                          *)
(*                                                                         *)
(* One action is one iteration of the loop.  The processor is abstracted   *)
(* to what the loop observes of one call of RISCV(): whether the hart is   *)
(* in user mode afterwards, whether the instruction was a control transfer *)
(* (is_br), whether it ended the simulation (sim_end), and the next pc.    *)
(*                                                                         *)
(* The variables user_steps and closed_insts are history variables: the    *)
(* code keeps neither, they count user-mode steps and the instructions of  *)
(* the intervals that are over.                                            *)
(***************************************************************************)
EXTENDS Integers, Sequences, FiniteSets, Functions

CONSTANTS
  PC,            (* the program counters of the simulated program           *)
  IntervalSize,  (* INTERVAL_SIZE, 10^8 in include/ref.h                     *)
  MaxSimTime,    (* MAX_SIM_TIME, 5 * 10^11 in include/ref.h                 *)
  BbvSize,       (* the initial length of bbv_counts, 65536                  *)
  BbvSlack,      (* what bbv_commit adds when doubling is not enough, 1024   *)
  Configs        (* the SimConfigs of the runs considered                    *)

Modes == {"NORMAL", "GEN_BBV", "GEN_CHECKPOINT", "RESTORE",
          "GEN_SPECIAL_CHECKPOINT"}

(***************************************************************************)
(* A SimConfig: the mode, the lines <<interval, simpoint>> or              *)
(* <<instruction count, label>> of the points file, max_insts (0 is "no    *)
(* limit"), whether the BBV file can be opened, and the counter that the   *)
(* checkpoint file of a RESTORE run holds.                                 *)
(***************************************************************************)
Config == [mode : Modes, points : Seq(Nat \X Nat), max_insts : Nat,
           bbv_opens : BOOLEAN, saved_count : Nat]

ASSUME SimLoopAssumption ==
  /\ PC # {}
  /\ IntervalSize \in Nat \ {0}
  /\ MaxSimTime \in Nat \ {0}
  /\ BbvSize \in Nat \ {0}
  /\ BbvSlack \in Nat \ {0}
  /\ Configs \subseteq Config

VARIABLES
  phase,                (* "init", "loop", then "finished" or "failed"      *)
  config,               (* the SimConfig of this process                     *)
  user,                 (* privilege = RISCV_MODE_U                          *)
  pc,                   (* state.pc                                          *)
  sim_time,
  sim_end,
  current_bb_head_pc,
  current_bb_len,
  interval_inst_count,
  finished_intervals,
  restored_inst_count,
  global_pc_to_id,      (* a function whose domain is the pcs seen as heads  *)
  next_bb_id,
  bbv_counts,           (* [0 .. size - 1 -> Nat]                            *)
  bbv_file,             (* the lines written: functions from ids to counts   *)
  target_intervals,     (* interval -> simpoint                              *)
  special_targets,      (* the instruction counts still to be saved          *)
  ckpts,                (* the checkpoint files saved, oldest first          *)
  user_steps,           (* history: calls of RISCV() in user mode            *)
  closed_insts          (* history: instructions of the finished intervals   *)

cpuVars == <<user, pc>>
bbVars  == <<current_bb_head_pc, current_bb_len>>
bbvVars == <<global_pc_to_id, next_bb_id, bbv_counts, bbv_file>>
pointVars == <<target_intervals, special_targets>>
histVars == <<user_steps, closed_insts>>
vars == <<phase, config, cpuVars, sim_time, sim_end, bbVars,
          interval_inst_count, finished_intervals, restored_inst_count,
          bbvVars, pointVars, ckpts, histVars>>

(***************************************************************************)
(* What the loop sees of one call of RISCV(): the privilege and the pc     *)
(* after it, is_br and sim_end.  A control transfer neither traps nor      *)
(* returns from a trap, so it leaves the privilege alone; ebreak and the   *)
(* UART store that stops the run are no control transfers.                 *)
(***************************************************************************)
Outcome == [user : BOOLEAN, br : BOOLEAN, end : BOOLEAN, pc : PC]

Possible(o) == /\ o.br => (o.user = user /\ ~o.end)
               /\ o.end => o.user = user

(***************************************************************************)
(* A saved checkpoint: what it was saved for, the number of instructions   *)
(* executed when it was saved, and the interval counter written into it.   *)
(***************************************************************************)
Checkpoint == [kind : {"nowarmup", "warmup1", "special"}, target : Nat,
               at : Nat, count : Nat]

\* Mutant: the counter is reset before the file is written.
CkptAfterReset(kind, target, at, count) ==
  [kind |-> kind, target |-> target, at |-> at, count |-> 0]

Ckpt(kind, target, at, count) ==
  [kind |-> kind, target |-> target, at |-> at, count |-> count]

\* load_simpoints: a map, so the last line of an interval wins.
LoadSimpoints(lines) ==
  LET last(i) == CHOOSE k \in DOMAIN lines :
                   /\ lines[k][1] = i
                   /\ \A j \in DOMAIN lines : lines[j][1] = i => j <= k
  IN  [i \in {lines[k][1] : k \in DOMAIN lines} |-> lines[last(i)][2]]

\* load_special_checkpoint_targets: the labels of equal counts are merged.
LoadSpecialTargets(lines) == {lines[k][1] : k \in DOMAIN lines}

Init ==
  /\ phase = "init"
  /\ config \in Configs
  /\ user = FALSE
  /\ pc \in PC
  /\ sim_time = 0
  /\ sim_end = FALSE
  /\ current_bb_head_pc = pc
  /\ current_bb_len = 0
  /\ interval_inst_count = 0
  /\ finished_intervals = 0
  /\ restored_inst_count = 0
  /\ global_pc_to_id = <<>>
  /\ next_bb_id = 1
  /\ bbv_counts = <<>>
  /\ bbv_file = <<>>
  /\ target_intervals = <<>>
  /\ special_targets = {}
  /\ ckpts = <<>>
  /\ user_steps = 0
  /\ closed_insts = 0

-----------------------------------------------------------------------------
(* The prologue of exec(), one action per mode. *)

StartNormal ==
  /\ phase = "init"
  /\ config.mode = "NORMAL"
  /\ phase' = "loop"
  /\ UNCHANGED <<config, cpuVars, sim_time, sim_end, bbVars,
                 interval_inst_count, finished_intervals,
                 restored_inst_count, bbvVars, pointVars, ckpts, histVars>>

\* bbv_init_file only reports a file it cannot open, and goes on.
StartBbv ==
  /\ phase = "init"
  /\ config.mode = "GEN_BBV"
  /\ phase' = "loop"
  /\ bbv_counts' = [id \in 0 .. BbvSize - 1 |-> 0]
  /\ UNCHANGED <<config, cpuVars, sim_time, sim_end, bbVars,
                 interval_inst_count, finished_intervals,
                 restored_inst_count, global_pc_to_id, next_bb_id, bbv_file,
                 pointVars, ckpts, histVars>>

\* Interval 0 has no predecessor to warm up in: it is saved at once.
StartCheckpoint ==
  /\ phase = "init"
  /\ config.mode = "GEN_CHECKPOINT"
  /\ phase' = "loop"
  /\ target_intervals' = LoadSimpoints(config.points)
  /\ ckpts' = IF 0 \in DOMAIN target_intervals'
              THEN <<Ckpt("nowarmup", 0, sim_time, interval_inst_count)>>
              ELSE <<>>
  /\ UNCHANGED <<config, cpuVars, sim_time, sim_end, bbVars,
                 interval_inst_count, finished_intervals,
                 restored_inst_count, bbvVars, special_targets, histVars>>

\* An empty target list is an error; a target at 0 is saved at once.
StartSpecial ==
  /\ phase = "init"
  /\ config.mode = "GEN_SPECIAL_CHECKPOINT"
  /\ LET targets == LoadSpecialTargets(config.points)
     IN  /\ phase' = IF targets = {} THEN "failed" ELSE "loop"
         /\ special_targets' = targets \ {0}
         /\ ckpts' = IF 0 \in targets
                     THEN <<Ckpt("special", 0, sim_time, 0)>> ELSE <<>>
         /\ sim_end' = (targets = {0})
  /\ UNCHANGED <<config, cpuVars, sim_time, bbVars, interval_inst_count,
                 finished_intervals, restored_inst_count, bbvVars,
                 target_intervals, histVars>>

\* restore_checkpoint brings back the hart and interval_inst_count; the
\* basic block under way is not part of the file.
StartRestore ==
  /\ phase = "init"
  /\ config.mode = "RESTORE"
  /\ phase' = "loop"
  /\ user' \in BOOLEAN
  /\ pc' \in PC
  /\ interval_inst_count' = config.saved_count
  /\ UNCHANGED <<config, sim_time, sim_end, bbVars, finished_intervals,
                 restored_inst_count, bbvVars, pointVars, ckpts, histVars>>

-----------------------------------------------------------------------------
(* One iteration.  BlockLength and BlockHead are current_bb_len and        *)
(* current_bb_head_pc after RISCV() has counted the step; Count(o) is      *)
(* interval_inst_count after a control transfer in user mode has closed    *)
(* the basic block.                                                        *)

\* Mutant: kernel steps are counted too.
BlockLengthAllModes == current_bb_len + 1

BlockLength == IF user THEN current_bb_len + 1 ELSE current_bb_len
BlockHead   == IF user /\ current_bb_len = 0 THEN pc ELSE current_bb_head_pc

Closes(o) == o.user /\ o.br
\* Mutant: only the BBV run counts blocks.
CountInBbvOnly(o) ==
  IF Closes(o) /\ config.mode = "GEN_BBV"
  THEN interval_inst_count + BlockLength ELSE interval_inst_count

Count(o)  == IF Closes(o) THEN interval_inst_count + BlockLength
                          ELSE interval_inst_count

\* Mutant: a checkpoint run ends an interval in the middle of a block.
FullMidBlock(o) ==
  IF config.mode = "GEN_CHECKPOINT" /\ o.user
  THEN interval_inst_count + BlockLength >= IntervalSize
  ELSE Count(o) >= IntervalSize

\* The interval under way is over.
Full(o) == Count(o) >= IntervalSize

\* RISCV() itself, as far as the loop is concerned.
Execute(o) ==
  /\ phase = "loop" /\ ~sim_end /\ sim_time < MaxSimTime
  /\ Possible(o)
  /\ user' = o.user
  /\ pc' = o.pc
  /\ current_bb_head_pc' = BlockHead
  /\ user_steps' = IF user THEN user_steps + 1 ELSE user_steps

\* bbv_commit: a new head gets the next id, and the vector grows to hold it.
BbId == IF BlockHead \in DOMAIN global_pc_to_id THEN global_pc_to_id[BlockHead]
                                           ELSE next_bb_id

\* Mutant: the id is compared with the size as if ids started at 0.
GrownSizeShort(size, id) ==
  IF id <= size THEN size
  ELSE IF 2 * size > id THEN 2 * size ELSE id + BbvSlack

GrownSize(size, id) ==
  IF id < size THEN size
  ELSE IF 2 * size > id THEN 2 * size ELSE id + BbvSlack

Grown(counts, size) ==
  [id \in 0 .. size - 1 |-> IF id \in DOMAIN counts THEN counts[id] ELSE 0]

Committed ==
  [Grown(bbv_counts, GrownSize(Cardinality(DOMAIN bbv_counts), BbId))
     EXCEPT ![BbId] = @ + BlockLength]

BbvCommit ==
  /\ global_pc_to_id' = [p \in DOMAIN global_pc_to_id \cup {BlockHead} |->
                           IF p = BlockHead THEN BbId ELSE global_pc_to_id[p]]
  /\ next_bb_id' = IF BlockHead \in DOMAIN global_pc_to_id THEN next_bb_id
                                                      ELSE next_bb_id + 1

\* dump_bbv: the ids from 1 on with a count are written, and zeroed.
Line(counts) ==
  Restrict(counts, {id \in DOMAIN counts : id >= 1 /\ counts[id] > 0})

\* Mutant: the vector is kept after it is written.
ZeroedNot(counts) == counts

Zeroed(counts) == [id \in DOMAIN counts |-> IF id = 0 THEN counts[0] ELSE 0]

\* Mutant: the target is looked for before sim_time is counted.
MeetSpecialTargetEarly ==
  IF config.mode = "GEN_SPECIAL_CHECKPOINT" /\ sim_time \in special_targets
  THEN /\ special_targets' = special_targets \ {sim_time}
       /\ ckpts' = Append(ckpts, Ckpt("special", sim_time, sim_time', 0))
       /\ sim_end' = (special_targets' = {})
  ELSE UNCHANGED <<special_targets, ckpts, sim_end>>

\* A special target met at this instruction count is saved and forgotten,
\* with the interval counter of the file set to 0; the last one ends the run.
MeetSpecialTarget ==
  IF config.mode = "GEN_SPECIAL_CHECKPOINT" /\ sim_time' \in special_targets
  THEN /\ special_targets' = special_targets \ {sim_time'}
       /\ ckpts' = Append(ckpts, Ckpt("special", sim_time', sim_time', 0))
       /\ sim_end' = (special_targets' = {})
  ELSE UNCHANGED <<special_targets, ckpts, sim_end>>

\* Mutant: one instruction late.
LimitPassed ==
  /\ config.max_insts > 0
  /\ IF config.mode = "RESTORE"
     THEN restored_inst_count + 1 > config.max_insts
     ELSE sim_time + 1 > config.max_insts

LimitReached ==
  /\ config.max_insts > 0
  /\ IF config.mode = "RESTORE"
     THEN restored_inst_count + 1 >= config.max_insts
     ELSE sim_time + 1 >= config.max_insts

CountRestored ==
  restored_inst_count' =
    IF config.mode = "RESTORE" /\ config.max_insts > 0
    THEN restored_inst_count + 1 ELSE restored_inst_count

Verdict(time) == IF time >= MaxSimTime THEN "failed" ELSE "finished"

\* ebreak, or the store that stops the run: nothing after RISCV() happens.
Halt(o) ==
  /\ o.end
  /\ Execute(o)
  /\ sim_end' = TRUE
  /\ current_bb_len' = BlockLength
  /\ phase' = Verdict(sim_time)
  /\ UNCHANGED <<config, sim_time, interval_inst_count, finished_intervals,
                 restored_inst_count, bbvVars, pointVars, ckpts, closed_insts>>

\* What every iteration does before it looks for an interval boundary.
Retire(o) ==
  /\ ~o.end
  /\ Execute(o)
  /\ sim_time' = sim_time + 1
  /\ current_bb_len' = IF Closes(o) THEN 0 ELSE BlockLength
  /\ IF Closes(o) /\ config.mode = "GEN_BBV"
     THEN BbvCommit ELSE UNCHANGED <<global_pc_to_id, next_bb_id>>
  /\ CountRestored
  /\ UNCHANGED <<config, target_intervals>>

\* bbv_counts before the boundary is looked for.
Counted(o) == IF Closes(o) /\ config.mode = "GEN_BBV"
              THEN Committed ELSE bbv_counts

\* The instruction limit leaves the loop before the boundary is processed.
StopAtLimit(o) ==
  /\ LimitReached
  /\ Retire(o)
  /\ MeetSpecialTarget
  /\ bbv_counts' = Counted(o)
  /\ interval_inst_count' = Count(o)
  /\ phase' = Verdict(sim_time')
  /\ UNCHANGED <<finished_intervals, bbv_file, closed_insts>>

WithinInterval(o) ==
  /\ ~LimitReached
  /\ ~Full(o)
  /\ Retire(o)
  /\ MeetSpecialTarget
  /\ bbv_counts' = Counted(o)
  /\ interval_inst_count' = Count(o)
  /\ UNCHANGED <<phase, finished_intervals, bbv_file, closed_insts>>

AtBoundary(o) ==
  /\ ~LimitReached
  /\ Full(o)
  /\ Retire(o)
  /\ finished_intervals' = finished_intervals + 1
  /\ interval_inst_count' = 0
  /\ closed_insts' = closed_insts + Count(o)
  /\ UNCHANGED phase

\* NORMAL, RESTORE and GEN_SPECIAL_CHECKPOINT: the boundary is only counted.
PlainBoundary(o) ==
  /\ config.mode \notin {"GEN_BBV", "GEN_CHECKPOINT"}
  /\ AtBoundary(o)
  /\ MeetSpecialTarget
  /\ UNCHANGED <<bbv_counts, bbv_file>>

BbvBoundary(o) ==
  /\ config.mode = "GEN_BBV"
  /\ AtBoundary(o)
  /\ bbv_counts' = Zeroed(Counted(o))
  /\ bbv_file' = IF config.bbv_opens
                 THEN Append(bbv_file, Line(Counted(o))) ELSE bbv_file
  /\ UNCHANGED <<special_targets, ckpts, sim_end>>

\* Mutant: no lookahead, the target itself starts now.
TargetIdNow == finished_intervals + 1

\* The interval that starts now is the warmup of the one after it.
TargetId == finished_intervals + 2

\* Mutant: the next target is taken for the last.
NoneAfterNext(target) == \A t \in DOMAIN target_intervals : t <= target + 1

NoneAfter(target) == \A t \in DOMAIN target_intervals : t <= target

CheckpointBoundary(o) ==
  /\ config.mode = "GEN_CHECKPOINT"
  /\ AtBoundary(o)
  /\ LET hit == TargetId \in DOMAIN target_intervals
     IN  /\ ckpts' = IF hit
                     THEN Append(ckpts, Ckpt("warmup1", TargetId,
                                             sim_time', Count(o)))
                     ELSE ckpts
         /\ sim_end' = (hit /\ NoneAfter(TargetId))
  /\ UNCHANGED <<special_targets, bbv_counts, bbv_file>>

\* Mutant: only sim_end ends the loop, which runs no step past MAX_SIM_TIME.
LeaveOnEnd ==
  /\ phase = "loop"
  /\ sim_end
  /\ phase' = Verdict(sim_time)
  /\ UNCHANGED <<config, cpuVars, sim_time, sim_end, bbVars,
                 interval_inst_count, finished_intervals,
                 restored_inst_count, bbvVars, pointVars, ckpts, histVars>>

\* The loop condition fails.
Leave ==
  /\ phase = "loop"
  /\ sim_end \/ sim_time >= MaxSimTime
  /\ phase' = Verdict(sim_time)
  /\ UNCHANGED <<config, cpuVars, sim_time, sim_end, bbVars,
                 interval_inst_count, finished_intervals,
                 restored_inst_count, bbvVars, pointVars, ckpts, histVars>>

Start == \/ StartNormal \/ StartBbv \/ StartCheckpoint
         \/ StartSpecial \/ StartRestore

Iterate(o) == \/ Halt(o) \/ StopAtLimit(o) \/ WithinInterval(o)
              \/ PlainBoundary(o) \/ BbvBoundary(o) \/ CheckpointBoundary(o)

Next == Start \/ Leave \/ \E o \in Outcome : Iterate(o)

Spec == Init /\ [][Next]_vars

\* One thread runs exec(), and RISCV() always returns.
FairSpec == Spec /\ WF_vars(Next)

-----------------------------------------------------------------------------
(* Properties. *)

Phases == {"init", "loop", "finished", "failed"}

\* Type correctness of the loop's state.
TypeOK ==
  /\ phase \in Phases
  /\ config \in Configs
  /\ user \in BOOLEAN
  /\ pc \in PC
  /\ sim_time \in Nat
  /\ sim_end \in BOOLEAN
  /\ current_bb_head_pc \in PC
  /\ current_bb_len \in Nat
  /\ interval_inst_count \in Nat
  /\ finished_intervals \in Nat
  /\ restored_inst_count \in Nat
  /\ DOMAIN global_pc_to_id \subseteq PC
  /\ \A p \in DOMAIN global_pc_to_id : global_pc_to_id[p] \in Nat
  /\ next_bb_id \in Nat
  /\ \A id \in DOMAIN bbv_counts : bbv_counts[id] \in Nat
  /\ DOMAIN target_intervals \subseteq Nat
  /\ special_targets \subseteq Nat
  /\ ckpts \in Seq(Checkpoint)
  /\ user_steps \in Nat
  /\ closed_insts \in Nat

\* What a restored run starts with: the interval counter of its checkpoint.
Inherited == IF config.mode = "RESTORE" /\ phase # "init"
             THEN config.saved_count ELSE 0

\* No user-mode step is lost or counted twice: it is in the block under way,
\* in the interval under way or in an interval that is over, across traps in
\* the middle of a block, limits, halts and boundaries (exec, RISCV).
InstructionsConserved ==
  closed_insts + interval_inst_count + current_bb_len = user_steps + Inherited

\* A full interval never outlives the iteration that fills it, so that the
\* boundaries depend on the program alone and not on the mode (exec).  A
\* restored run starts with the full interval its warmup checkpoint holds.
IntervalsAreClosed ==
  phase = "loop" /\ ~(config.mode = "RESTORE" /\ finished_intervals = 0)
    => interval_inst_count < IntervalSize

\* max_insts is met exactly: the loop goes on below it and stops at it,
\* counting absolute instructions, or those since the restore (exec).
LimitIsExact ==
  config.max_insts > 0 =>
    /\ sim_time <= config.max_insts
    /\ phase = "loop" => sim_time < config.max_insts
    /\ phase = "finished" =>
         sim_end \/ sim_time = config.max_insts

Mass(counts) == FoldFunction(+, 0, counts)

\* The vector under way holds exactly the instructions of the interval under
\* way, and the lines written hold those of the intervals that are over, one
\* line each, none of them short (bbv_commit, its growth, dump_bbv).
BbvMassConserved ==
  config.mode = "GEN_BBV" /\ phase # "init" =>
    /\ Mass(bbv_counts) = interval_inst_count
    /\ config.bbv_opens =>
         /\ Len(bbv_file) = finished_intervals
         /\ FoldFunction(+, 0, [i \in DOMAIN bbv_file |-> Mass(bbv_file[i])])
              = closed_insts
         /\ \A i \in DOMAIN bbv_file : Mass(bbv_file[i]) >= IntervalSize

\* Blocks and ids are in bijection, the ids are the dense range that starts
\* at 1, as SimPoint numbers its dimensions, and each fits in the vector.
BbIdsAreDense ==
  LET ids == {global_pc_to_id[p] : p \in DOMAIN global_pc_to_id}
  IN  /\ ids = 1 .. next_bb_id - 1
      /\ Cardinality(ids) = Cardinality(DOMAIN global_pc_to_id)
      /\ ids \subseteq DOMAIN bbv_counts
      /\ \A id \in DOMAIN bbv_counts : bbv_counts[id] > 0 => id \in ids

CkptsInOrder ==
  \A i, j \in DOMAIN ckpts : i < j => /\ ckpts[i].at < ckpts[j].at
                                      /\ ckpts[i].target < ckpts[j].target

\* Special checkpoints are saved at exactly their instruction count, with no
\* warmup length, in order and once each; what is left lies ahead, even when
\* targets share an instruction with a limit or an interval boundary (exec).
SpecialTargetsExact ==
  config.mode = "GEN_SPECIAL_CHECKPOINT" /\ phase # "init" =>
    /\ \A i \in DOMAIN ckpts : ckpts[i].at = ckpts[i].target
                               /\ ckpts[i].count = 0
    /\ {ckpts[i].target : i \in DOMAIN ckpts} \cup special_targets
         = LoadSpecialTargets(config.points)
    /\ \A t \in special_targets : t > sim_time
    /\ CkptsInOrder

\* A target from 2 on has its warmup checkpoint exactly when the interval
\* before its warmup interval is over, and they come in order (exec).
WarmupsOnTime ==
  config.mode = "GEN_CHECKPOINT" /\ phase # "init" =>
    /\ \A t \in DOMAIN target_intervals : t >= 2 =>
         (t <= finished_intervals + 1
            <=> \E i \in DOMAIN ckpts : ckpts[i].target = t)
    /\ CkptsInOrder

\* The interval counter of a file tells the simulator that resumes it how
\* long the warmup is: a full interval for warmup1, nothing for the others
\* (the comment in save_special_checkpoint).
WarmupLengthInFile ==
  \A i \in DOMAIN ckpts :
    IF ckpts[i].kind = "warmup1" THEN ckpts[i].count >= IntervalSize
                                 ELSE ckpts[i].count = 0

\* The loop ends a run by itself only when every target that gets a
\* checkpoint has it: no target is dropped by the early exit (exec).
EarlyExitDropsNothing ==
  [][ phase = "loop" /\ phase' = "loop" /\ ~sim_end /\ sim_end' =>
        /\ special_targets' = {}
        /\ \A t \in DOMAIN target_intervals :
             t >= 2 => \E i \in DOMAIN ckpts' : ckpts'[i].target = t ]_vars

\* exec() returns or exits, whatever the program does (MAX_SIM_TIME), and a
\* run limited below MAX_SIM_TIME never ends as a timeout.
RunsEnd ==
  /\ <>(phase \in {"finished", "failed"})
  /\ (phase = "loop" /\ config.max_insts \in 1 .. MaxSimTime - 1)
       ~> (phase = "finished")

-----------------------------------------------------------------------------
(* A checkpoint run implements WarmupSchedule; the other modes stutter.    *)

MakesWarmups == config.mode = "GEN_CHECKPOINT"

ScheduleStatus ==
  IF ~MakesWarmups \/ phase = "init" THEN "idle"
  ELSE IF phase # "loop" THEN "over"
  ELSE IF sim_end THEN "served" ELSE "running"

Schedule == INSTANCE WarmupSchedule WITH
  status   <- ScheduleStatus,
  targets  <- DOMAIN target_intervals,
  interval <- IF MakesWarmups THEN finished_intervals ELSE 0,
  saved    <- IF MakesWarmups THEN {ckpts[i].target : i \in DOMAIN ckpts}
              ELSE {}

\* The loop saves each warmup checkpoint where the schedule does.
ImplementsSchedule == Schedule!Spec
=============================================================================
