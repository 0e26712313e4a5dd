--------------------------- MODULE SimLoopProofs ---------------------------
(* Proofs about SimLoop for every interval size, time limit, program and   *)
(* configuration: types and counters, checkpoints on time, the refinement  *)
(* of WarmupSchedule, the numbering of blocks, the mass of the vectors;    *)
(* and about the two runs of SimPointFlow.                                 *)
EXTENDS SimPointFlow, FiniteSetTheorems, WellFoundedInduction, TLAPS

-----------------------------------------------------------------------------
(* Type correctness. *)

\* The files the two loaders read hold interval numbers and counts.
LEMMA LoadSimpointsType ==
  ASSUME NEW c \in Config
  PROVE  DOMAIN LoadSimpoints(c.points) \subseteq Nat
BY DEF LoadSimpoints, Config

LEMMA LoadSpecialType ==
  ASSUME NEW c \in Config
  PROVE  LoadSpecialTargets(c.points) \subseteq Nat
BY DEF LoadSpecialTargets, Config

LEMMA EmptySequence == <<>> \in Seq(Checkpoint) /\ DOMAIN <<>> = {}
OBVIOUS

LEMMA OneCheckpoint ==
  ASSUME NEW k \in {"nowarmup", "warmup1", "special"},
         NEW t \in Nat, NEW a \in Nat, NEW n \in Nat
  PROVE  /\ Ckpt(k, t, a, n) \in Checkpoint
         /\ <<Ckpt(k, t, a, n)>> \in Seq(Checkpoint)
BY DEF Ckpt, Checkpoint

LEMMA AppendCheckpoint ==
  ASSUME NEW s \in Seq(Checkpoint), NEW c \in Checkpoint
  PROVE  Append(s, c) \in Seq(Checkpoint)
OBVIOUS

LEMMA BlockTypes ==
  ASSUME TypeOK, NEW o \in Outcome
  PROVE  /\ BlockLength \in Nat
         /\ BlockHead \in PC
         /\ Count(o) \in Nat
BY DEF TypeOK, BlockLength, BlockHead, Count, Closes

\* The vector keeps natural counts through growth, commit and dump.
LEMMA CountsType ==
  ASSUME TypeOK, NEW o \in Outcome
  PROVE  /\ \A id \in DOMAIN Counted(o) : Counted(o)[id] \in Nat
         /\ \A id \in DOMAIN Zeroed(Counted(o)) :
              Zeroed(Counted(o))[id] \in Nat
<1> DEFINE size == GrownSize(Cardinality(DOMAIN bbv_counts), BbId)
           grown == Grown(bbv_counts, size)
<1>1. BlockLength \in Nat
  BY BlockTypes
<1>2. \A id \in DOMAIN grown : grown[id] \in Nat
  BY DEF Grown, TypeOK
<1>3. \A id \in DOMAIN Committed : Committed[id] \in Nat
  BY <1>1, <1>2 DEF Committed
<1>4. \A id \in DOMAIN Counted(o) : Counted(o)[id] \in Nat
  BY <1>3 DEF Counted, TypeOK
<1> QED
  BY <1>4 DEF Zeroed

LEMMA RetireType ==
  ASSUME TypeOK, NEW o \in Outcome, Retire(o)
  PROVE  /\ config' = config /\ target_intervals' = target_intervals
         /\ user' \in BOOLEAN /\ pc' \in PC
         /\ sim_time' \in Nat
         /\ current_bb_head_pc' \in PC /\ current_bb_len' \in Nat
         /\ restored_inst_count' \in Nat
         /\ DOMAIN global_pc_to_id' \subseteq PC
         /\ \A p \in DOMAIN global_pc_to_id' : global_pc_to_id'[p] \in Nat
         /\ next_bb_id' \in Nat
         /\ user_steps' \in Nat
<1>1. BlockLength \in Nat /\ BlockHead \in PC
  BY BlockTypes
<1>2. /\ DOMAIN global_pc_to_id' \subseteq PC
      /\ \A p \in DOMAIN global_pc_to_id' : global_pc_to_id'[p] \in Nat
      /\ next_bb_id' \in Nat
  BY <1>1 DEF Retire, BbvCommit, BbId, TypeOK
<1>3. restored_inst_count' \in Nat
  BY DEF Retire, CountRestored, TypeOK
<1> QED
  BY <1>1, <1>2, <1>3 DEF Retire, Execute, Outcome, TypeOK

LEMMA SpecialType ==
  ASSUME TypeOK, sim_time' \in Nat, MeetSpecialTarget
  PROVE  /\ special_targets' \subseteq Nat
         /\ ckpts' \in Seq(Checkpoint)
         /\ sim_end' \in BOOLEAN
<1>1. Ckpt("special", sim_time', sim_time', 0) \in Checkpoint
  BY OneCheckpoint
<1> QED
  BY <1>1, AppendCheckpoint DEF MeetSpecialTarget, TypeOK

LEMMA BoundaryType ==
  ASSUME TypeOK, NEW o \in Outcome, AtBoundary(o)
  PROVE  /\ phase' = phase
         /\ finished_intervals' \in Nat
         /\ interval_inst_count' \in Nat
         /\ closed_insts' \in Nat
BY BlockTypes DEF AtBoundary, TypeOK, Full

LEMMA IterateType ==
  ASSUME TypeOK, NEW o \in Outcome, Iterate(o)
  PROVE  TypeOK'
<1>0. Count(o) \in Nat /\ BlockLength \in Nat /\ BlockHead \in PC
  BY BlockTypes
<1>c. \A id \in DOMAIN Counted(o) : Counted(o)[id] \in Nat
  BY CountsType
<1>z. \A id \in DOMAIN Zeroed(Counted(o)) : Zeroed(Counted(o))[id] \in Nat
  BY CountsType
<1>1. CASE Halt(o)
  BY <1>0, <1>1 DEF Halt, Execute, Outcome, Verdict, TypeOK, Phases,
                    bbvVars, pointVars
<1>2. CASE StopAtLimit(o)
  <2>1. Retire(o) /\ MeetSpecialTarget
    BY <1>2 DEF StopAtLimit
  <2> QED
    BY <1>0, <1>c, <1>2, <2>1, RetireType, SpecialType
    DEF StopAtLimit, Verdict, TypeOK, Phases
<1>3. CASE WithinInterval(o)
  <2>1. Retire(o) /\ MeetSpecialTarget
    BY <1>3 DEF WithinInterval, Full
  <2> QED
    BY <1>0, <1>c, <1>3, <2>1, RetireType, SpecialType
    DEF WithinInterval, TypeOK, Full
<1>4. CASE PlainBoundary(o)
  <2>1. AtBoundary(o) /\ Retire(o) /\ MeetSpecialTarget
    BY <1>4 DEF PlainBoundary, AtBoundary, Full
  <2> QED
    BY <1>4, <2>1, RetireType, SpecialType, BoundaryType
    DEF PlainBoundary, TypeOK
<1>5. CASE BbvBoundary(o)
  <2>1. AtBoundary(o) /\ Retire(o)
    BY <1>5 DEF BbvBoundary, AtBoundary, Full
  <2> QED
    BY <1>z, <1>5, <2>1, RetireType, BoundaryType DEF BbvBoundary, TypeOK
<1>6. CASE CheckpointBoundary(o)
  <2>1. AtBoundary(o) /\ Retire(o)
    BY <1>6 DEF CheckpointBoundary, AtBoundary, Full, TargetId, NoneAfter
  <2>2. Ckpt("warmup1", finished_intervals + 2, sim_time', Count(o))
          \in Checkpoint
    BY <1>0, <2>1, RetireType, OneCheckpoint DEF TypeOK
  <2>3. ckpts' \in Seq(Checkpoint) /\ sim_end' \in BOOLEAN
    BY <1>6, <2>2, AppendCheckpoint DEF CheckpointBoundary, TypeOK, TargetId,
                                        NoneAfter
  <2> QED
    BY <1>6, <2>1, <2>3, RetireType, BoundaryType
    DEF CheckpointBoundary, TypeOK, TargetId, NoneAfter
<1> QED
  BY <1>1, <1>2, <1>3, <1>4, <1>5, <1>6 DEF Iterate

LEMMA NextType == TypeOK /\ [Next]_vars => TypeOK'
<1> SUFFICES ASSUME TypeOK, [Next]_vars PROVE TypeOK'
  OBVIOUS
<1> USE SimLoopAssumption
    DEF TypeOK, Phases, cpuVars, bbVars, bbvVars, pointVars, histVars
<1>0. config \in Config
  OBVIOUS
<1>1. CASE StartNormal
  BY <1>1 DEF StartNormal
<1>2. CASE StartBbv
  BY <1>2 DEF StartBbv
<1>3. CASE StartCheckpoint
  <2>1. DOMAIN target_intervals' \subseteq Nat
    BY <1>0, <1>3, LoadSimpointsType DEF StartCheckpoint
  <2>2. ckpts' \in Seq(Checkpoint)
    BY <1>3, OneCheckpoint, EmptySequence DEF StartCheckpoint
  <2> QED
    BY <1>3, <2>1, <2>2 DEF StartCheckpoint
<1>4. CASE StartSpecial
  <2>1. special_targets' \subseteq Nat
    BY <1>0, <1>4, LoadSpecialType DEF StartSpecial
  <2>2. ckpts' \in Seq(Checkpoint)
    BY <1>4, OneCheckpoint, EmptySequence DEF StartSpecial
  <2> QED
    BY <1>4, <2>1, <2>2 DEF StartSpecial
<1>5. CASE StartRestore
  BY <1>0, <1>5 DEF StartRestore, Config
<1>6. CASE Leave
  BY <1>6 DEF Leave, Verdict
<1>7. ASSUME NEW o \in Outcome, Iterate(o) PROVE TypeOK'
  BY <1>7, IterateType
<1>8. CASE UNCHANGED vars
  BY <1>8 DEF vars
<1> QED
  BY <1>1, <1>2, <1>3, <1>4, <1>5, <1>6, <1>7, <1>8 DEF Next, Start

LEMMA InitType == Init => TypeOK
<1> SUFFICES ASSUME Init PROVE TypeOK
  OBVIOUS
<1>1. /\ DOMAIN global_pc_to_id = {}
      /\ DOMAIN bbv_counts = {}
      /\ DOMAIN target_intervals = {}
      /\ ckpts \in Seq(Checkpoint)
  BY EmptySequence DEF Init
<1> QED
  BY <1>1 DEF Init, TypeOK, Phases

\* The loop's state is well typed whatever the program and the run.
THEOREM TypeCorrect == Spec => []TypeOK
BY InitType, NextType, PTL DEF Spec

-----------------------------------------------------------------------------
(* Counting.  The inductive invariant adds to the properties that a        *)
(* process starts from zero, and that a restored run with a limit counts   *)
(* its iterations.                                                         *)

FreshStart ==
  phase = "init" =>
    /\ sim_time = 0 /\ ~sim_end
    /\ current_bb_len = 0 /\ interval_inst_count = 0
    /\ finished_intervals = 0 /\ restored_inst_count = 0
    /\ user_steps = 0 /\ closed_insts = 0
    /\ DOMAIN target_intervals = {} /\ ckpts = <<>>

RestoredCounted ==
  config.mode = "RESTORE" /\ config.max_insts > 0 =>
    restored_inst_count = sim_time

CountInv == /\ TypeOK
            /\ FreshStart
            /\ RestoredCounted
            /\ InstructionsConserved
            /\ IntervalsAreClosed
            /\ LimitIsExact

LEMMA IterateMoves ==
  ASSUME TypeOK, NEW o \in Outcome, Iterate(o)
  PROVE  /\ phase = "loop" /\ phase' # "init" /\ config' = config
         /\ target_intervals' = target_intervals
BY DEF Iterate, Halt, StopAtLimit, WithinInterval, PlainBoundary, BbvBoundary,
       CheckpointBoundary, AtBoundary, Retire, Execute, Verdict, pointVars,
       Full, TargetId, NoneAfter

\* One iteration moves the step it counts from place to place, no more.
LEMMA IterateConserves ==
  ASSUME CountInv, NEW o \in Outcome, Iterate(o)
  PROVE  InstructionsConserved'
<1>0. TypeOK /\ config \in Config
  BY SimLoopAssumption DEF CountInv, TypeOK
<1>1. phase = "loop" /\ phase' # "init" /\ config' = config
  BY <1>0, IterateMoves
<1>2. Inherited' = Inherited /\ Inherited \in Nat
  BY <1>0, <1>1 DEF Inherited, Config
<1>3. Execute(o)
  BY DEF Iterate, Halt, StopAtLimit, WithinInterval, PlainBoundary,
         BbvBoundary, CheckpointBoundary, AtBoundary, Retire, Full, TargetId,
         NoneAfter
<1>4. user_steps' = (user_steps + BlockLength) - current_bb_len
  BY <1>0, <1>3 DEF Execute, BlockLength, TypeOK
<1>5. BlockLength \in Nat /\ Count(o) \in Nat
  BY <1>0, BlockTypes
<1>6. ASSUME Retire(o)
      PROVE  current_bb_len' = (interval_inst_count + BlockLength) - Count(o)
  BY <1>0, <1>5, <1>6 DEF Retire, Count, TypeOK
<1>7. /\ closed_insts \in Nat /\ interval_inst_count \in Nat
      /\ current_bb_len \in Nat /\ user_steps \in Nat
      /\ closed_insts + interval_inst_count + current_bb_len
           = user_steps + Inherited
  BY <1>0 DEF TypeOK, CountInv, InstructionsConserved
<1> USE <1>2, <1>4, <1>5, <1>7 DEF InstructionsConserved
<1>8. CASE Halt(o)
  BY <1>8 DEF Halt
<1>9. CASE StopAtLimit(o) \/ WithinInterval(o)
  BY <1>6, <1>9 DEF StopAtLimit, WithinInterval, Full
<1>10. CASE PlainBoundary(o) \/ BbvBoundary(o) \/ CheckpointBoundary(o)
  <2>1. AtBoundary(o)
    BY <1>10 DEF PlainBoundary, BbvBoundary, CheckpointBoundary, TargetId,
                 NoneAfter
  <2> QED
    BY <1>6, <2>1 DEF AtBoundary, Full
<1> QED
  BY <1>8, <1>9, <1>10 DEF Iterate

\* A full interval is closed, a limit met stops the loop, a restored run
\* counts each iteration.
LEMMA IterateCounts ==
  ASSUME CountInv, NEW o \in Outcome, Iterate(o)
  PROVE  RestoredCounted' /\ IntervalsAreClosed' /\ LimitIsExact'
<1>0. TypeOK /\ config \in Config
  BY SimLoopAssumption DEF CountInv, TypeOK
<1>1. phase = "loop" /\ config' = config
  BY <1>0, IterateMoves
<1>2. Count(o) \in Nat
  BY <1>0, BlockTypes
<1> USE <1>0, <1>1, <1>2, SimLoopAssumption
    DEF CountInv, TypeOK, RestoredCounted, IntervalsAreClosed, LimitIsExact,
        Config
<1>3. CASE Halt(o)
  BY <1>3 DEF Halt, Verdict
<1>4. ASSUME Retire(o)
      PROVE  /\ sim_time' = sim_time + 1
             /\ RestoredCounted'
             /\ config.max_insts > 0 =>
                  (LimitReached <=> sim_time' >= config.max_insts)
  BY <1>4 DEF Retire, CountRestored, LimitReached
<1>5. CASE StopAtLimit(o)
  BY <1>4, <1>5 DEF StopAtLimit, Verdict, LimitReached
<1>6. CASE WithinInterval(o)
  BY <1>4, <1>6 DEF WithinInterval, Full
<1>7. CASE PlainBoundary(o) \/ BbvBoundary(o) \/ CheckpointBoundary(o)
  <2>1. AtBoundary(o)
    BY <1>7 DEF PlainBoundary, BbvBoundary, CheckpointBoundary, TargetId,
                NoneAfter
  <2> QED
    BY <1>4, <2>1 DEF AtBoundary, Full
<1> QED
  BY <1>3, <1>5, <1>6, <1>7 DEF Iterate

LEMMA NextCount == CountInv /\ [Next]_vars => CountInv'
<1> SUFFICES ASSUME CountInv, [Next]_vars PROVE CountInv'
  OBVIOUS
<1>1. TypeOK /\ TypeOK' /\ config \in Config
  BY NextType, SimLoopAssumption DEF CountInv, TypeOK
<1>2. ASSUME NEW o \in Outcome, Iterate(o) PROVE CountInv'
  BY <1>1, <1>2, IterateConserves, IterateCounts, IterateMoves
  DEF CountInv, FreshStart
<1> USE <1>1, SimLoopAssumption
    DEF CountInv, FreshStart, RestoredCounted, InstructionsConserved,
        Inherited, IntervalsAreClosed, LimitIsExact, TypeOK, Config,
        cpuVars, bbVars, bbvVars, pointVars, histVars
<1>3. CASE Start
  <2>1. CASE StartNormal
    BY <2>1 DEF StartNormal
  <2>2. CASE StartBbv
    BY <2>2 DEF StartBbv
  <2>3. CASE StartCheckpoint
    BY <2>3 DEF StartCheckpoint
  <2>4. CASE StartSpecial
    BY <2>4 DEF StartSpecial
  <2>5. CASE StartRestore
    BY <2>5 DEF StartRestore
  <2> QED
    BY <1>3, <2>1, <2>2, <2>3, <2>4, <2>5 DEF Start
<1>4. CASE Leave
  BY <1>4 DEF Leave, Verdict
<1>5. CASE UNCHANGED vars
  BY <1>5 DEF vars
<1> QED
  BY <1>2, <1>3, <1>4, <1>5 DEF Next

LEMMA InitCount == Init => CountInv
<1> SUFFICES ASSUME Init PROVE CountInv
  OBVIOUS
<1>1. TypeOK /\ DOMAIN target_intervals = {} /\ config \in Config
  BY InitType, EmptySequence, SimLoopAssumption DEF Init
<1> QED
  BY <1>1, SimLoopAssumption
  DEF Init, CountInv, FreshStart, RestoredCounted, InstructionsConserved,
      Inherited, IntervalsAreClosed, LimitIsExact, Config

LEMMA Counting == Spec => []CountInv
BY InitCount, NextCount, PTL DEF Spec

\* No user-mode step is lost or counted twice, for any interval size,
\* limit, mode and program.
THEOREM Conservation == Spec => []InstructionsConserved
BY Counting, PTL DEF CountInv

\* The loop never carries a full interval into the next iteration.
THEOREM IntervalsClosed == Spec => []IntervalsAreClosed
BY Counting, PTL DEF CountInv

\* A run never exceeds its instruction limit, nor stops short of it unless
\* the program ended.
THEOREM LimitExact == Spec => []LimitIsExact
BY Counting, PTL DEF CountInv

-----------------------------------------------------------------------------
(* A checkpoint run implements the warmup schedule. *)

\* The targets that have a checkpoint.
Served(s) == {s[i].target : i \in DOMAIN s}

LEMMA ServedAppend ==
  ASSUME NEW s \in Seq(Checkpoint), NEW c \in Checkpoint
  PROVE  Served(Append(s, c)) = Served(s) \cup {c.target}
<1> DEFINE t == Append(s, c)
<1>1. /\ DOMAIN t = DOMAIN s \cup {Len(s) + 1}
      /\ \A i \in DOMAIN s : t[i] = s[i]
      /\ t[Len(s) + 1] = c
  OBVIOUS
<1> QED
  BY <1>1 DEF Served

LEMMA ServedFirst ==
  ASSUME NEW c \in Checkpoint
  PROVE  Served(<<c>>) = {c.target} /\ Served(<<>>) = {}
BY DEF Served

LEMMA IterateImplements ==
  ASSUME TypeOK, NEW o \in Outcome, Iterate(o)
  PROVE  [Schedule!Next]_Schedule!vars
<1>0. /\ phase = "loop" /\ phase' # "init" /\ config' = config
      /\ target_intervals' = target_intervals
  BY IterateMoves
<1>1. ~sim_end
  BY DEF Iterate, Halt, StopAtLimit, WithinInterval, PlainBoundary,
         BbvBoundary, CheckpointBoundary, AtBoundary, Retire, Execute, Full,
         TargetId, NoneAfter
<1> USE <1>0, <1>1 DEF MakesWarmups, ScheduleStatus
<1>2. CASE ~MakesWarmups
  BY <1>2 DEF Schedule!vars
<1>3. CASE MakesWarmups /\ (Halt(o) \/ StopAtLimit(o))
  <2>1. /\ phase' \in {"finished", "failed"}
        /\ ckpts' = ckpts /\ finished_intervals' = finished_intervals
    BY <1>3 DEF Halt, StopAtLimit, MeetSpecialTarget, Verdict
  <2> QED
    BY <1>3, <2>1 DEF Schedule!Next, Schedule!Finish
<1>4. CASE MakesWarmups /\ WithinInterval(o)
  BY <1>4 DEF WithinInterval, MeetSpecialTarget, Schedule!vars, Full
<1>5. CASE MakesWarmups /\ CheckpointBoundary(o)
  <2> DEFINE c == Ckpt("warmup1", finished_intervals + 2, sim_time', Count(o))
             hit == finished_intervals + 2 \in DOMAIN target_intervals
  <2>1. AtBoundary(o) /\ Retire(o)
    BY <1>5 DEF CheckpointBoundary, AtBoundary, Full, TargetId, NoneAfter
  <2>2. c \in Checkpoint /\ c.target = finished_intervals + 2
    BY <2>1, RetireType, BlockTypes, OneCheckpoint DEF TypeOK, Ckpt
  <2>3. Served(ckpts') = IF hit THEN Served(ckpts) \cup {c.target}
                                ELSE Served(ckpts)
    BY <1>5, <2>2, ServedAppend DEF CheckpointBoundary, TypeOK, TargetId,
                                    NoneAfter
  <2>4. Served(ckpts')
          = Served(ckpts) \cup
            (DOMAIN target_intervals \cap {finished_intervals + 2})
    BY <2>2, <2>3
  <2>5. /\ phase' = "loop"
        /\ finished_intervals' = finished_intervals + 1
        /\ sim_end' <=> (hit /\ \A t \in DOMAIN target_intervals :
                                  t <= finished_intervals + 2)
    BY <1>5, <2>1 DEF AtBoundary, CheckpointBoundary, Full, TargetId, NoneAfter
  <2> QED
    BY <1>5, <2>4, <2>5 DEF Schedule!Next, Schedule!Advance, Served
<1>6. CASE MakesWarmups /\ (PlainBoundary(o) \/ BbvBoundary(o))
  BY <1>6 DEF PlainBoundary, BbvBoundary
<1> QED
  BY <1>2, <1>3, <1>4, <1>5, <1>6 DEF Iterate

LEMMA StepImplements ==
  CountInv /\ [Next]_vars => [Schedule!Next]_Schedule!vars
<1> SUFFICES ASSUME CountInv, [Next]_vars
             PROVE  [Schedule!Next]_Schedule!vars
  OBVIOUS
<1>0. TypeOK /\ config \in Config
  BY SimLoopAssumption DEF CountInv, TypeOK
<1>1. ASSUME NEW o \in Outcome, Iterate(o)
      PROVE  [Schedule!Next]_Schedule!vars
  BY <1>0, <1>1, IterateImplements
<1>2. CASE StartCheckpoint
  <2>1. /\ phase = "init" /\ phase' = "loop" /\ config' = config
        /\ MakesWarmups /\ ~sim_end'
         /\ finished_intervals' = finished_intervals
    BY <1>2 DEF StartCheckpoint, MakesWarmups, CountInv, FreshStart
  <2>2. DOMAIN target_intervals' \in SUBSET Nat
    BY <1>0, <1>2, LoadSimpointsType DEF StartCheckpoint
  <2>3. Ckpt("nowarmup", 0, sim_time, interval_inst_count).target = 0
    BY DEF Ckpt
  <2>4. Served(ckpts') = DOMAIN target_intervals' \cap {0}
    BY <1>0, <1>2, <2>3, OneCheckpoint, ServedFirst DEF StartCheckpoint, TypeOK
  <2> QED
    BY <2>1, <2>2, <2>4
    DEF Schedule!Next, Schedule!Begin, ScheduleStatus, Served, MakesWarmups
<1>3. CASE StartNormal \/ StartBbv \/ StartSpecial \/ StartRestore
  BY <1>3 DEF StartNormal, StartBbv, StartSpecial, StartRestore, pointVars,
              Schedule!vars, ScheduleStatus, MakesWarmups
<1>4. CASE Leave
  <2>1. /\ phase = "loop" /\ phase' \in {"finished", "failed"}
        /\ UNCHANGED <<config, target_intervals, finished_intervals, ckpts>>
    BY <1>4 DEF Leave, Verdict, pointVars
  <2>2. CASE MakesWarmups
    BY <2>1, <2>2 DEF Schedule!Next, Schedule!Finish, ScheduleStatus,
                      MakesWarmups
  <2>3. CASE ~MakesWarmups
    BY <2>1, <2>3 DEF Schedule!vars, ScheduleStatus, MakesWarmups
  <2> QED
    BY <2>2, <2>3
<1>5. CASE UNCHANGED vars
  BY <1>5 DEF vars, pointVars, Schedule!vars, ScheduleStatus, MakesWarmups
<1> QED
  BY <1>1, <1>2, <1>3, <1>4, <1>5 DEF Next, Start

\* In every mode, for every points file and program, the loop saves warmup
\* checkpoints where the schedule says.
THEOREM Implementation == Spec => ImplementsSchedule
<1>1. Init => Schedule!Init
  BY EmptySequence, ServedFirst
  DEF Init, Schedule!Init, ScheduleStatus, Served
<1> QED
  BY <1>1, Counting, StepImplements, PTL
  DEF Spec, ImplementsSchedule, Schedule!Spec

-----------------------------------------------------------------------------
(* What the schedule promises, and the loop with it.  Nothing is chosen or *)
(* saved before the run begins; with that, both properties are inductive.  *)

\* The targets saved at the next boundary, and that they are all there are
\* when none comes after.
LEMMA OneMoreSaved ==
  ASSUME NEW T \in SUBSET Nat, NEW n \in Nat
  PROVE  LET SavedBy(m) == {t \in T : t = 0 \/ (t >= 2 /\ t <= m + 1)}
         IN  /\ SavedBy(n + 1) = SavedBy(n) \cup (T \cap {n + 2})
             /\ (\A t \in T : t <= n + 2) =>
                  {t \in T : t # 1} \subseteq SavedBy(n + 1)
<1>1. \A t \in T : /\ t \in Nat
                   /\ t = 0 \/ (t >= 2 /\ t <= (n + 1) + 1)
                        <=> t = 0 \/ (t >= 2 /\ t <= n + 1) \/ t = n + 2
  OBVIOUS
<1>2. \A t \in T : t <= n + 2 /\ t # 1 =>
        t = 0 \/ (t >= 2 /\ t <= (n + 1) + 1)
  OBVIOUS
<1> QED
  BY <1>1, <1>2

LEMMA ScheduleInductive ==
  Schedule!ScheduleInv /\ [Schedule!Next]_Schedule!vars
    => Schedule!ScheduleInv'
<1> SUFFICES ASSUME Schedule!ScheduleInv, [Schedule!Next]_Schedule!vars
             PROVE  Schedule!ScheduleInv'
  OBVIOUS
<1> DEFINE targets  == DOMAIN target_intervals
           interval == IF MakesWarmups THEN finished_intervals ELSE 0
           saved    == IF MakesWarmups
                       THEN {ckpts[i].target : i \in DOMAIN ckpts} ELSE {}
<1>1. CASE Schedule!Begin
  <2>1. /\ ScheduleStatus = "idle" /\ ScheduleStatus' = "running"
        /\ targets' \in SUBSET Nat /\ saved' = targets' \cap {0}
        /\ interval' = interval
    BY <1>1 DEF Schedule!Begin
  <2>2. interval = 0
    BY <2>1 DEF Schedule!ScheduleInv
  <2> HIDE DEF targets, interval, saved
  <2>3. saved' = {t \in targets' : t = 0 \/ (t >= 2 /\ t <= interval' + 1)}
    <3>1. PICK T \in SUBSET Nat : T = targets'
      BY <2>1
    <3>2. \A t \in T : t = 0 \/ (t >= 2 /\ t <= 0 + 1) <=> t = 0
      OBVIOUS
    <3>3. T \cap {0} = {t \in T : t = 0 \/ (t >= 2 /\ t <= 0 + 1)}
      BY <3>2
    <3> QED
      BY <2>1, <2>2, <3>1, <3>3
  <2> USE DEF targets, interval, saved
  <2> QED
    BY <2>1, <2>2, <2>3
    DEF Schedule!ScheduleInv, Schedule!SavedOnTime, Schedule!ServedIsComplete
<1>2. CASE Schedule!Advance
  <2>1. /\ interval' = interval + 1 /\ targets' = targets
        /\ saved' = saved \cup (targets \cap {interval + 2})
        /\ ScheduleStatus' \in {"running", "served"}
        /\ ScheduleStatus' = "served" => \A t \in targets : t <= interval + 2
    BY <1>2 DEF Schedule!Advance
  <2>2. /\ targets \in SUBSET Nat /\ interval \in Nat
        /\ saved = {t \in targets : t = 0 \/ (t >= 2 /\ t <= interval + 1)}
    BY DEF Schedule!ScheduleInv, Schedule!SavedOnTime
  <2> HIDE DEF targets, interval, saved
  <2>3. /\ saved' = {t \in targets' : t = 0 \/ (t >= 2 /\ t <= interval' + 1)}
        /\ ScheduleStatus' = "served" =>
             {t \in targets' : t # 1} \subseteq saved'
    BY <2>1, <2>2, OneMoreSaved
  <2>4. targets' \subseteq Nat /\ interval' \in Nat
        /\ ScheduleStatus' # "idle"
    BY <2>1, <2>2
  <2> USE DEF targets, interval, saved
  <2> QED
    BY <2>3, <2>4
    DEF Schedule!ScheduleInv, Schedule!SavedOnTime, Schedule!ServedIsComplete
<1>3. CASE Schedule!Finish
  <2>1. /\ UNCHANGED <<targets, interval, saved>>
        /\ ScheduleStatus' = "over"
    BY <1>3 DEF Schedule!Finish
  <2> QED
    BY <2>1
    DEF Schedule!ScheduleInv, Schedule!SavedOnTime, Schedule!ServedIsComplete
<1>4. CASE UNCHANGED Schedule!vars
  <2>1. UNCHANGED <<targets, interval, saved, ScheduleStatus>>
    BY <1>4 DEF Schedule!vars
  <2> QED
    BY <2>1
    DEF Schedule!ScheduleInv, Schedule!SavedOnTime, Schedule!ServedIsComplete
<1> QED
  BY <1>1, <1>2, <1>3, <1>4 DEF Schedule!Next

\* A target is saved when the interval before it starts, and a run that ends
\* by itself has saved all that can be saved.
THEOREM ScheduleCorrect ==
  Schedule!Spec => [](Schedule!SavedOnTime /\ Schedule!ServedIsComplete)
<1>1. Schedule!Init => Schedule!ScheduleInv
  BY DEF Schedule!Init, Schedule!ScheduleInv, Schedule!SavedOnTime,
         Schedule!ServedIsComplete
<1>2. Schedule!ScheduleInv =>
        Schedule!SavedOnTime /\ Schedule!ServedIsComplete
  BY DEF Schedule!ScheduleInv
<1> QED
  BY <1>1, <1>2, ScheduleInductive, PTL DEF Schedule!Spec

-----------------------------------------------------------------------------
(* Checkpoints come in order.  What has been saved lies behind, what is    *)
(* still to be saved lies ahead.                                           *)

Reached == IF MakesWarmups THEN finished_intervals + 1 ELSE sim_time

CkptsBehind == \A i \in DOMAIN ckpts : /\ ckpts[i].at <= sim_time
                                       /\ ckpts[i].target <= Reached

InOrder(s) == \A i, j \in DOMAIN s : i < j => /\ s[i].at < s[j].at
                                              /\ s[i].target < s[j].target

OrderInv == /\ CountInv
            /\ CkptsBehind
            /\ CkptsInOrder
            /\ SpecialTargetsExact

LEMMA AppendInOrder ==
  ASSUME NEW s \in Seq(Checkpoint), NEW c \in Checkpoint, InOrder(s),
         \A i \in DOMAIN s : s[i].at < c.at /\ s[i].target < c.target
  PROVE  InOrder(Append(s, c))
<1> DEFINE t == Append(s, c)
<1>1. /\ DOMAIN t = 1 .. Len(s) + 1
      /\ DOMAIN s = 1 .. Len(s)
      /\ \A i \in DOMAIN s : t[i] = s[i]
      /\ t[Len(s) + 1] = c
      /\ Len(s) \in Nat
  OBVIOUS
<1> SUFFICES ASSUME NEW i \in DOMAIN t, NEW j \in DOMAIN t, i < j
             PROVE  t[i].at < t[j].at /\ t[i].target < t[j].target
  BY DEF InOrder
<1>2. i \in DOMAIN s /\ (j \in DOMAIN s \/ j = Len(s) + 1)
  BY <1>1
<1> QED
  BY <1>1, <1>2 DEF InOrder

\* What one checkpoint appended in front of the others does to a run.
LEMMA AppendAhead ==
  ASSUME TypeOK, CkptsBehind, CkptsInOrder, NEW c \in Checkpoint,
         c.at > sim_time, c.target > Reached, Reached \in Nat,
         ckpts' = Append(ckpts, c)
  PROVE  /\ CkptsInOrder'
         /\ DOMAIN ckpts' = DOMAIN ckpts \cup {Len(ckpts) + 1}
         /\ \A i \in DOMAIN ckpts : ckpts'[i] = ckpts[i]
         /\ ckpts'[Len(ckpts) + 1] = c
<1>1. ckpts \in Seq(Checkpoint)
  BY DEF TypeOK
<1>2. \A i \in DOMAIN ckpts : ckpts[i] \in Checkpoint
  BY <1>1
<1>3. \A i \in DOMAIN ckpts : /\ ckpts[i].at < c.at
                              /\ ckpts[i].target < c.target
  BY <1>2 DEF CkptsBehind, Checkpoint, TypeOK
<1>4. InOrder(Append(ckpts, c))
  BY <1>1, <1>3, AppendInOrder DEF CkptsInOrder, InOrder
<1> QED
  BY <1>1, <1>4 DEF CkptsInOrder, InOrder

\* Nothing is saved, and time does not go back.
LEMMA NothingSaved ==
  ASSUME OrderInv, UNCHANGED <<config, ckpts, special_targets>>,
         \/ sim_time' = sim_time
         \/ sim_time' = sim_time + 1 /\ sim_time' \notin special_targets,
         Reached' = Reached \/ Reached' = Reached + 1,
         phase # "init"
  PROVE  CkptsBehind' /\ CkptsInOrder' /\ SpecialTargetsExact'
<1> USE DEF OrderInv, CountInv, TypeOK
<1>1. \A i \in DOMAIN ckpts : ckpts[i] \in Checkpoint
  OBVIOUS
<1>2. Reached \in Nat
  BY DEF Reached
<1>3. CkptsBehind'
  BY <1>1, <1>2 DEF CkptsBehind, Checkpoint
<1>4. CkptsInOrder'
  BY DEF CkptsInOrder
<1>5. SpecialTargetsExact'
  BY <1>4 DEF SpecialTargetsExact
<1> QED
  BY <1>3, <1>4, <1>5

\* Without the interval boundary of a checkpoint run, an iteration saves at
\* most a special checkpoint, at the instruction count just reached.
LEMMA SpecialInOrder ==
  ASSUME OrderInv, NEW o \in Outcome, Retire(o), MeetSpecialTarget,
         phase # "init", Reached' = Reached \/ Reached' = Reached + 1
  PROVE  CkptsBehind' /\ CkptsInOrder' /\ SpecialTargetsExact'
<1>0. TypeOK
  BY DEF OrderInv, CountInv
<1>1. config' = config /\ sim_time' = sim_time + 1 /\ sim_time \in Nat
  BY <1>0 DEF Retire, TypeOK
<1>2. CASE ~(config.mode = "GEN_SPECIAL_CHECKPOINT"
             /\ sim_time' \in special_targets)
  <2>1. UNCHANGED <<ckpts, special_targets>>
    BY <1>2 DEF MeetSpecialTarget
  <2>2. CASE sim_time' \notin special_targets
    BY <1>1, <2>1, <2>2, NothingSaved
  <2>3. CASE config.mode # "GEN_SPECIAL_CHECKPOINT"
    <3>1. SpecialTargetsExact'
      BY <1>1, <2>3 DEF SpecialTargetsExact
    <3>2. \A i \in DOMAIN ckpts : ckpts[i] \in Checkpoint
      BY <1>0 DEF TypeOK
    <3>3. Reached \in Nat
      BY <1>0 DEF Reached, TypeOK
    <3>4. CkptsBehind'
      BY <1>1, <2>1, <3>2, <3>3 DEF OrderInv, CkptsBehind, Checkpoint
    <3> QED
      BY <2>1, <3>1, <3>4 DEF OrderInv, CkptsInOrder
  <2> QED
    BY <1>2, <2>2, <2>3
<1>3. CASE config.mode = "GEN_SPECIAL_CHECKPOINT"
           /\ sim_time' \in special_targets
  <2> DEFINE c == Ckpt("special", sim_time', sim_time', 0)
  <2>0. Reached = sim_time /\ Reached' = sim_time'
    BY <1>1, <1>3 DEF Reached, MakesWarmups
  <2>1. /\ c \in Checkpoint /\ c.at = sim_time' /\ c.target = sim_time'
        /\ c.count = 0
    BY <1>1, OneCheckpoint DEF Ckpt
  <2>2. /\ ckpts' = Append(ckpts, c)
        /\ special_targets' = special_targets \ {sim_time'}
    BY <1>3 DEF MeetSpecialTarget
  <2>3. /\ CkptsInOrder'
        /\ DOMAIN ckpts' = DOMAIN ckpts \cup {Len(ckpts) + 1}
        /\ \A i \in DOMAIN ckpts : ckpts'[i] = ckpts[i]
        /\ ckpts'[Len(ckpts) + 1] = c
    BY <1>0, <1>1, <2>0, <2>1, <2>2, AppendAhead DEF OrderInv
  <2>4. \A i \in DOMAIN ckpts : ckpts[i] \in Checkpoint
    BY <1>0 DEF TypeOK
  <2>5. CkptsBehind'
    BY <1>1, <2>0, <2>1, <2>3, <2>4 DEF OrderInv, CkptsBehind, Checkpoint
  <2>6. Served(ckpts') = Served(ckpts) \cup {sim_time'}
    BY <1>0, <2>1, <2>2, ServedAppend DEF TypeOK
  <2>7. Served(ckpts') \cup special_targets'
          = Served(ckpts) \cup special_targets
    BY <1>3, <2>2, <2>6
  <2>8. \A t \in special_targets' : t > sim_time'
    BY <1>0, <1>1, <1>3, <2>2 DEF OrderInv, SpecialTargetsExact, TypeOK
  <2>9. \A i \in DOMAIN ckpts' : ckpts'[i].at = ckpts'[i].target
                                 /\ ckpts'[i].count = 0
    BY <1>3, <2>1, <2>3 DEF OrderInv, SpecialTargetsExact
  <2> QED
    BY <1>1, <1>3, <2>3, <2>5, <2>7, <2>8, <2>9
    DEF OrderInv, SpecialTargetsExact, Served
<1> QED
  BY <1>2, <1>3

LEMMA IterateOrder ==
  ASSUME OrderInv, NEW o \in Outcome, Iterate(o)
  PROVE  CkptsBehind' /\ CkptsInOrder' /\ SpecialTargetsExact'
<1>0. TypeOK /\ phase = "loop" /\ config' = config
  BY IterateMoves DEF OrderInv, CountInv
<1>1. ASSUME sim_time' = sim_time + 1,
             \/ finished_intervals' = finished_intervals
             \/ finished_intervals' = finished_intervals + 1
      PROVE  Reached' = Reached \/ Reached' = Reached + 1
  BY <1>0, <1>1 DEF Reached, MakesWarmups, TypeOK
<1>2. CASE Halt(o)
  <2>1. /\ UNCHANGED <<config, ckpts, special_targets, sim_time>>
        /\ Reached' = Reached
    BY <1>2 DEF Halt, pointVars, Reached, MakesWarmups
  <2> QED
    BY <1>0, <2>1, NothingSaved
<1>3. CASE StopAtLimit(o) \/ WithinInterval(o)
  <2>1. Retire(o) /\ MeetSpecialTarget
        /\ finished_intervals' = finished_intervals
    BY <1>3 DEF StopAtLimit, WithinInterval, Full
  <2> QED
    BY <1>0, <1>1, <2>1, SpecialInOrder DEF Retire
<1>4. CASE PlainBoundary(o)
  <2>1. Retire(o) /\ MeetSpecialTarget
        /\ finished_intervals' = finished_intervals + 1
    BY <1>4 DEF PlainBoundary, AtBoundary, Full
  <2> QED
    BY <1>0, <1>1, <2>1, SpecialInOrder DEF Retire
<1>5. CASE BbvBoundary(o)
  <2>1. /\ UNCHANGED <<ckpts, special_targets>>
        /\ config.mode = "GEN_BBV"
        /\ sim_time' = sim_time + 1
        /\ finished_intervals' = finished_intervals + 1
    BY <1>5 DEF BbvBoundary, AtBoundary, Retire, Full
  <2>2. CkptsInOrder' /\ SpecialTargetsExact'
    BY <1>0, <2>1 DEF OrderInv, CkptsInOrder, SpecialTargetsExact
  <2>3. \A i \in DOMAIN ckpts : ckpts[i] \in Checkpoint
    BY <1>0 DEF TypeOK
  <2>4. Reached \in Nat /\ (Reached' = Reached \/ Reached' = Reached + 1)
    BY <1>0, <1>1, <2>1 DEF Reached, TypeOK
  <2>5. CkptsBehind'
    BY <1>0, <2>1, <2>3, <2>4 DEF OrderInv, CkptsBehind, Checkpoint, TypeOK
  <2> QED
    BY <2>2, <2>5
<1>6. CASE CheckpointBoundary(o)
  <2> DEFINE c == Ckpt("warmup1", finished_intervals + 2, sim_time', Count(o))
  <2>1. /\ config.mode = "GEN_CHECKPOINT"
        /\ sim_time' = sim_time + 1
        /\ finished_intervals' = finished_intervals + 1
        /\ special_targets' = special_targets
        /\ ckpts' = ckpts \/ ckpts' = Append(ckpts, c)
    BY <1>6 DEF CheckpointBoundary, AtBoundary, Retire, Full, TargetId,
                NoneAfter
  <2>2. SpecialTargetsExact'
    BY <1>0, <2>1 DEF SpecialTargetsExact
  <2>3. \A i \in DOMAIN ckpts : ckpts[i] \in Checkpoint
    BY <1>0 DEF TypeOK
  <2>4. /\ Reached \in Nat /\ Reached = finished_intervals + 1
        /\ Reached' = finished_intervals + 2
        /\ sim_time \in Nat /\ finished_intervals \in Nat
    BY <1>0, <2>1 DEF Reached, MakesWarmups, TypeOK
  <2>5. CASE ckpts' = ckpts
    BY <2>1, <2>2, <2>3, <2>4, <2>5
    DEF OrderInv, CkptsBehind, CkptsInOrder, Checkpoint
  <2>6. CASE ckpts' = Append(ckpts, c)
    <3>1. /\ c \in Checkpoint /\ c.at = sim_time'
          /\ c.target = finished_intervals + 2
      BY <1>0, <2>1, <2>4, BlockTypes, OneCheckpoint DEF Ckpt
    <3>2. /\ CkptsInOrder'
          /\ DOMAIN ckpts' = DOMAIN ckpts \cup {Len(ckpts) + 1}
          /\ \A i \in DOMAIN ckpts : ckpts'[i] = ckpts[i]
          /\ ckpts'[Len(ckpts) + 1] = c
      BY <1>0, <2>1, <2>4, <2>6, <3>1, AppendAhead DEF OrderInv
    <3>3. CkptsBehind'
      BY <2>1, <2>3, <2>4, <3>1, <3>2 DEF OrderInv, CkptsBehind, Checkpoint
    <3> QED
      BY <2>2, <3>2, <3>3
  <2> QED
    BY <2>1, <2>5, <2>6
<1> QED
  BY <1>2, <1>3, <1>4, <1>5, <1>6 DEF Iterate

LEMMA NextOrder == OrderInv /\ [Next]_vars => OrderInv'
<1> SUFFICES ASSUME OrderInv, [Next]_vars PROVE OrderInv'
  OBVIOUS
<1>0. /\ CountInv' /\ TypeOK /\ config \in Config
      /\ phase = "init" => ckpts = <<>> /\ sim_time = 0
                           /\ finished_intervals = 0
  BY NextCount, SimLoopAssumption DEF OrderInv, CountInv, TypeOK, FreshStart
<1>1. ASSUME NEW o \in Outcome, Iterate(o) PROVE OrderInv'
  BY <1>0, <1>1, IterateOrder DEF OrderInv
<1>2. CASE StartNormal \/ StartBbv \/ StartRestore
  <2>1. /\ ckpts' = <<>> /\ config' = config
        /\ config.mode # "GEN_SPECIAL_CHECKPOINT"
    BY <1>0, <1>2 DEF StartNormal, StartBbv, StartRestore
  <2> QED
    BY <1>0, <2>1, EmptySequence
    DEF OrderInv, CkptsBehind, CkptsInOrder, SpecialTargetsExact
<1>3. CASE StartCheckpoint
  <2> DEFINE c == Ckpt("nowarmup", 0, sim_time, interval_inst_count)
  <2>1. /\ config' = config /\ config.mode = "GEN_CHECKPOINT"
        /\ sim_time' = 0 /\ Reached' = 1
        /\ ckpts' = <<>> \/ ckpts' = <<c>>
        /\ c.at = 0 /\ c.target = 0
    BY <1>0, <1>3 DEF StartCheckpoint, Reached, MakesWarmups, Ckpt
  <2>2. CkptsBehind' /\ CkptsInOrder'
    BY <2>1, EmptySequence DEF CkptsBehind, CkptsInOrder
  <2> QED
    BY <1>0, <2>1, <2>2 DEF OrderInv, SpecialTargetsExact
<1>4. CASE StartSpecial
  <2> DEFINE c == Ckpt("special", 0, sim_time, 0)
             targets == LoadSpecialTargets(config.points)
  <2>1. /\ config' = config /\ config.mode = "GEN_SPECIAL_CHECKPOINT"
        /\ sim_time' = 0 /\ Reached' = 0
        /\ ckpts' = IF 0 \in targets THEN <<c>> ELSE <<>>
        /\ special_targets' = targets \ {0}
        /\ c.at = 0 /\ c.target = 0 /\ c.count = 0
    BY <1>0, <1>4 DEF StartSpecial, Reached, MakesWarmups, Ckpt
  <2>2. CkptsBehind' /\ CkptsInOrder'
    BY <2>1, EmptySequence DEF CkptsBehind, CkptsInOrder
  <2> HIDE DEF c
  <2>3. Served(ckpts') = targets \cap {0}
    <3>1. c \in Checkpoint
      BY <1>0, OneCheckpoint DEF c, TypeOK
    <3>2. Served(<<c>>) = {0} /\ Served(<<>>) = {}
      BY <2>1, <3>1, ServedFirst
    <3> QED
      BY <2>1, <3>2
  <2>4. \A t \in special_targets' : t > 0
    <3>1. targets \subseteq Nat
      BY <1>0, LoadSpecialType
    <3>2. \A t \in targets \ {0} : t > 0
      BY <3>1
    <3> QED
      BY <2>1, <3>2
  <2>5. Served(ckpts') \cup special_targets' = targets
    BY <2>1, <2>3
  <2>6. SpecialTargetsExact'
    BY <2>1, <2>2, <2>4, <2>5, EmptySequence DEF SpecialTargetsExact, Served
  <2> QED
    BY <1>0, <2>2, <2>6 DEF OrderInv
<1>5. CASE Leave
  <2>1. /\ UNCHANGED <<config, ckpts, special_targets, sim_time>>
        /\ Reached' = Reached /\ phase = "loop"
    BY <1>5 DEF Leave, pointVars, Reached, MakesWarmups
  <2> QED
    BY <1>0, <2>1, NothingSaved DEF OrderInv
<1>6. CASE UNCHANGED vars
  BY <1>0, <1>6
  DEF vars, pointVars, OrderInv, CkptsBehind, CkptsInOrder,
      SpecialTargetsExact, Reached, MakesWarmups
<1> QED
  BY <1>1, <1>2, <1>3, <1>4, <1>5, <1>6 DEF Next, Start

LEMMA Ordering == Spec => []OrderInv
<1>1. Init => OrderInv
  BY InitCount, EmptySequence
  DEF Init, OrderInv, CkptsBehind, CkptsInOrder, SpecialTargetsExact
<1> QED
  BY <1>1, NextOrder, PTL DEF Spec

\* Every special target is saved at exactly its instruction count, in order,
\* once, with no warmup length, and none that is left has been passed.
THEOREM SpecialExact == Spec => []SpecialTargetsExact
BY Ordering, PTL DEF OrderInv

\* A checkpoint run saves every target from 2 on exactly when the interval
\* before it starts, in order: the schedule's promise, carried over.
THEOREM WarmupsExact == Spec => []WarmupsOnTime
<1>1. Spec => []Schedule!SavedOnTime
  BY Implementation, ScheduleCorrect, PTL DEF ImplementsSchedule
<1>2. OrderInv /\ Schedule!SavedOnTime => WarmupsOnTime
  <2> SUFFICES ASSUME OrderInv, Schedule!SavedOnTime,
                      config.mode = "GEN_CHECKPOINT"
               PROVE  /\ \A t \in DOMAIN target_intervals : t >= 2 =>
                           (t <= finished_intervals + 1
                              <=> \E i \in DOMAIN ckpts : ckpts[i].target = t)
                      /\ CkptsInOrder
    BY DEF WarmupsOnTime
  <2>1. Served(ckpts) = {t \in DOMAIN target_intervals :
                           t = 0 \/ (t >= 2 /\ t <= finished_intervals + 1)}
    BY DEF Schedule!SavedOnTime, Served, MakesWarmups
  <2>2. DOMAIN target_intervals \subseteq Nat
    BY DEF OrderInv, CountInv, TypeOK
  <2>3. \A t \in DOMAIN target_intervals : t >= 2 =>
          (t <= finished_intervals + 1 <=> t \in Served(ckpts))
    BY <2>1, <2>2
  <2> QED
    BY <2>3 DEF Served, OrderInv
<1> QED
  BY <1>1, <1>2, Ordering, PTL

-----------------------------------------------------------------------------
(* The counter of a file.                                                  *)

\* What one iteration may append to the checkpoints: a special one, or the
\* warmup of the target two intervals on when the interval is full.
LEMMA IterateSaves ==
  ASSUME NEW o \in Outcome, Iterate(o)
  PROVE  \/ ckpts' = ckpts
         \/ ckpts' = Append(ckpts, Ckpt("special", sim_time', sim_time', 0))
         \/ /\ ckpts' = Append(ckpts, Ckpt("warmup1", TargetId, sim_time',
                                           Count(o)))
            /\ Full(o) /\ AtBoundary(o)
<1> USE DEF MeetSpecialTarget
<1>1. CASE Halt(o)
  BY <1>1 DEF Halt
<1>2. CASE StopAtLimit(o) \/ WithinInterval(o)
  BY <1>2 DEF StopAtLimit, WithinInterval, Full
<1>3. CASE PlainBoundary(o)
  BY <1>3 DEF PlainBoundary
<1>4. CASE BbvBoundary(o)
  BY <1>4 DEF BbvBoundary
<1>5. CASE CheckpointBoundary(o)
  <2>1. AtBoundary(o)
    BY <1>5 DEF CheckpointBoundary, TargetId, NoneAfter
  <2>2. Full(o)
    BY <2>1 DEF AtBoundary, Full
  <2> QED
    BY <1>5, <2>1, <2>2 DEF CheckpointBoundary, TargetId, NoneAfter
<1> QED
  BY <1>1, <1>2, <1>3, <1>4, <1>5 DEF Iterate

LengthOK(c) == IF c.kind = "warmup1" THEN c.count >= IntervalSize
                                     ELSE c.count = 0

LEMMA AppendLength ==
  ASSUME NEW s \in Seq(Checkpoint), NEW c \in Checkpoint, LengthOK(c),
         \A i \in DOMAIN s : LengthOK(s[i])
  PROVE  \A i \in DOMAIN Append(s, c) : LengthOK(Append(s, c)[i])
<1>1. /\ DOMAIN Append(s, c) = DOMAIN s \cup {Len(s) + 1}
      /\ \A i \in DOMAIN s : Append(s, c)[i] = s[i]
      /\ Append(s, c)[Len(s) + 1] = c
  OBVIOUS
<1> QED
  BY <1>1

LEMMA NextLength ==
  CountInv /\ WarmupLengthInFile /\ [Next]_vars => WarmupLengthInFile'
<1> SUFFICES ASSUME CountInv, WarmupLengthInFile, [Next]_vars
             PROVE  WarmupLengthInFile'
  OBVIOUS
<1>0. /\ TypeOK /\ TypeOK' /\ ckpts \in Seq(Checkpoint)
      /\ phase = "init" => ckpts = <<>> /\ sim_time = 0
                           /\ interval_inst_count = 0
      /\ \A i \in DOMAIN ckpts : LengthOK(ckpts[i])
  BY NextType DEF CountInv, TypeOK, FreshStart, WarmupLengthInFile, LengthOK
<1>1. ASSUME NEW o \in Outcome, Iterate(o) PROVE WarmupLengthInFile'
  <2>1. CASE ckpts' = ckpts
    BY <2>1 DEF WarmupLengthInFile
  <2>2. CASE ckpts' = Append(ckpts, Ckpt("special", sim_time', sim_time', 0))
    <3> DEFINE c == Ckpt("special", sim_time', sim_time', 0)
    <3>1. c \in Checkpoint /\ LengthOK(c)
      BY <1>0, OneCheckpoint DEF TypeOK, Ckpt, LengthOK
    <3> HIDE DEF c
    <3>2. \A i \in DOMAIN Append(ckpts, c) : LengthOK(Append(ckpts, c)[i])
      BY <1>0, <3>1, AppendLength
    <3> QED
      BY <2>2, <3>2 DEF WarmupLengthInFile, LengthOK, c
  <2>3. CASE /\ ckpts' = Append(ckpts, Ckpt("warmup1", TargetId, sim_time',
                                            Count(o)))
             /\ Full(o)
    <3> DEFINE c == Ckpt("warmup1", TargetId, sim_time', Count(o))
    <3>1. c \in Checkpoint
      BY <1>0, BlockTypes, OneCheckpoint DEF TypeOK, TargetId
    <3>2. LengthOK(c)
      BY <2>3 DEF Ckpt, LengthOK, Full
    <3> HIDE DEF c
    <3>3. \A i \in DOMAIN Append(ckpts, c) : LengthOK(Append(ckpts, c)[i])
      BY <1>0, <3>1, <3>2, AppendLength
    <3> QED
      BY <2>3, <3>3 DEF WarmupLengthInFile, LengthOK, c
  <2> QED
    BY <1>1, <2>1, <2>2, <2>3, IterateSaves
<1>2. CASE StartNormal \/ StartBbv \/ StartRestore \/ Leave \/ UNCHANGED vars
  <2>1. ckpts' = ckpts
    BY <1>2 DEF StartNormal, StartBbv, StartRestore, Leave, vars
  <2> QED
    BY <2>1 DEF WarmupLengthInFile
<1>3. CASE StartCheckpoint
  BY <1>0, <1>3 DEF StartCheckpoint, Ckpt, WarmupLengthInFile
<1>4. CASE StartSpecial
  BY <1>0, <1>4 DEF StartSpecial, Ckpt, WarmupLengthInFile
<1> QED
  BY <1>1, <1>2, <1>3, <1>4 DEF Next, Start

\* Every file tells the simulator that resumes it how long its warmup is, for
\* every interval size: at least an interval for a warmup checkpoint, nothing
\* for one that is entered at its start (save_checkpoint's callers in exec).
THEOREM WarmupLength == Spec => []WarmupLengthInFile
<1>1. Init => WarmupLengthInFile
  BY EmptySequence DEF Init, WarmupLengthInFile
<1> QED
  BY <1>1, Counting, NextLength, PTL DEF Spec

-----------------------------------------------------------------------------
(* The early exit.                                                         *)

\* A run has targets of its own mode only, and none before it starts.
TargetsOfMode ==
  /\ config.mode # "GEN_SPECIAL_CHECKPOINT" \/ phase = "init" =>
       special_targets = {}
  /\ config.mode # "GEN_CHECKPOINT" \/ phase = "init" =>
       DOMAIN target_intervals = {}

LEMMA NextTargets == TypeOK /\ TargetsOfMode /\ [Next]_vars => TargetsOfMode'
<1> SUFFICES ASSUME TypeOK, TargetsOfMode, [Next]_vars PROVE TargetsOfMode'
  OBVIOUS
<1>1. ASSUME NEW o \in Outcome, Iterate(o) PROVE TargetsOfMode'
  <2>1. /\ phase = "loop" /\ phase' # "init" /\ config' = config
        /\ target_intervals' = target_intervals
    BY <1>1, IterateMoves
  <2>2. \/ special_targets' = special_targets
        \/ config.mode = "GEN_SPECIAL_CHECKPOINT"
    BY <1>1 DEF Iterate, Halt, StopAtLimit, WithinInterval, PlainBoundary,
                BbvBoundary, CheckpointBoundary, MeetSpecialTarget, pointVars,
                Full, TargetId, NoneAfter
  <2> QED
    BY <2>1, <2>2 DEF TargetsOfMode
<1>2. CASE Start
  BY <1>2 DEF Start, StartNormal, StartBbv, StartRestore, StartCheckpoint,
              StartSpecial, TargetsOfMode, pointVars
<1>3. CASE Leave
  BY <1>3 DEF Leave, Verdict, TargetsOfMode, pointVars
<1>4. CASE UNCHANGED vars
  BY <1>4 DEF vars, pointVars, TargetsOfMode
<1> QED
  BY <1>1, <1>2, <1>3, <1>4 DEF Next

\* Ending the run from inside the loop leaves no target behind.
LEMMA ExitStep ==
  ASSUME TypeOK, TypeOK', TargetsOfMode, TargetsOfMode', WarmupsOnTime', Next,
         phase = "loop", phase' = "loop", ~sim_end, sim_end'
  PROVE  /\ special_targets' = {}
         /\ \A t \in DOMAIN target_intervals' :
              t >= 2 => \E i \in DOMAIN ckpts' : ckpts'[i].target = t
<1>1. PICK o \in Outcome : Iterate(o)
  BY DEF Next, Start, StartNormal, StartBbv, StartRestore, StartCheckpoint,
         StartSpecial, Leave, Verdict
<1>2. config' = config /\ target_intervals' = target_intervals
  BY <1>1, IterateMoves
<1>3. CASE Halt(o) \/ StopAtLimit(o)
  BY <1>3 DEF Halt, StopAtLimit, Verdict
<1>4. CASE WithinInterval(o) \/ PlainBoundary(o)
  <2>1. MeetSpecialTarget
    BY <1>4 DEF WithinInterval, PlainBoundary, Full
  <2>2. special_targets' = {} /\ config.mode = "GEN_SPECIAL_CHECKPOINT"
    BY <2>1 DEF MeetSpecialTarget
  <2> QED
    BY <1>2, <2>2 DEF TargetsOfMode
<1>5. CASE BbvBoundary(o)
  BY <1>5 DEF BbvBoundary
<1>6. CASE CheckpointBoundary(o)
  <2>1. /\ config.mode = "GEN_CHECKPOINT"
        /\ finished_intervals' = finished_intervals + 1
        /\ \A t \in DOMAIN target_intervals : t <= finished_intervals + 2
    BY <1>6 DEF CheckpointBoundary, AtBoundary, Full, TargetId, NoneAfter
  <2>2. \A t \in DOMAIN target_intervals' : t <= finished_intervals' + 1
    BY <1>2, <2>1 DEF TypeOK
  <2> QED
    BY <1>2, <2>1, <2>2 DEF WarmupsOnTime, TargetsOfMode
<1> QED
  BY <1>1, <1>3, <1>4, <1>5, <1>6 DEF Iterate

\* The loop ends a run by itself only when every target that gets a
\* checkpoint has it: neither the special list nor the lookahead of the
\* warmups drops one (exec).
THEOREM ExitDropsNothing == Spec => EarlyExitDropsNothing
<1> DEFINE Dropless ==
      phase = "loop" /\ phase' = "loop" /\ ~sim_end /\ sim_end' =>
        /\ special_targets' = {}
        /\ \A t \in DOMAIN target_intervals :
             t >= 2 => \E i \in DOMAIN ckpts' : ckpts'[i].target = t
<1>1. Init => TargetsOfMode
  BY EmptySequence DEF Init, TargetsOfMode
<1>2. Spec => []TargetsOfMode
  BY <1>1, NextTargets, TypeCorrect, PTL DEF Spec
<1>3. ASSUME TypeOK, TypeOK', TargetsOfMode, TargetsOfMode', WarmupsOnTime',
             Next
      PROVE  Dropless
  <2> SUFFICES ASSUME phase = "loop", phase' = "loop", ~sim_end, sim_end'
               PROVE  Dropless
    OBVIOUS
  <2>1. target_intervals' = target_intervals
    <3>1. PICK o \in Outcome : Iterate(o)
      BY <1>3 DEF Next, Start, StartNormal, StartBbv, StartRestore,
                  StartCheckpoint, StartSpecial, Leave, Verdict
    <3> QED
      BY <1>3, <3>1, IterateMoves
  <2> QED
    BY <1>3, <2>1, ExitStep
<1>4. TypeOK /\ TypeOK' /\ TargetsOfMode /\ TargetsOfMode' /\ WarmupsOnTime'
        /\ [Next]_vars => [Dropless]_vars
  BY <1>3
<1> QED
  BY <1>2, <1>4, TypeCorrect, WarmupsExact, PTL DEF Spec, EarlyExitDropsNothing

-----------------------------------------------------------------------------
(* The numbering of the blocks.  The vector is 0 .. size - 1 for some size  *)
(* above every id that is taken, and only taken ids have a count.           *)

Heads == DOMAIN global_pc_to_id

IdsOK == /\ next_bb_id \in Nat \ {0}
         /\ \A p \in Heads : global_pc_to_id[p] \in 1 .. next_bb_id - 1
         /\ \A p, q \in Heads :
              global_pc_to_id[p] = global_pc_to_id[q] => p = q
         /\ \A id \in 1 .. next_bb_id - 1 :
              \E p \in Heads : global_pc_to_id[p] = id

VectorOK(counts, size, next) ==
  /\ DOMAIN counts = 0 .. size - 1
  /\ next = 1 \/ next <= size
  /\ \A id \in DOMAIN counts : counts[id] > 0 => id \in 1 .. next - 1

DenseInv == /\ TypeOK
            /\ IdsOK
            /\ \E size \in Nat : VectorOK(bbv_counts, size, next_bb_id)
            /\ phase = "init" => next_bb_id = 1

\* The vector grows to hold the id, and never shrinks.
LEMMA GrownSizeFits ==
  ASSUME NEW size \in Nat, NEW id \in Nat
  PROVE  /\ GrownSize(size, id) \in Nat
         /\ GrownSize(size, id) > id /\ GrownSize(size, id) >= size
BY SimLoopAssumption DEF GrownSize

\* bbv_commit gives every head an id of its own, the next one when it is new.
LEMMA CommitIds ==
  ASSUME IdsOK, BbvCommit
  PROVE  /\ IdsOK'
         /\ BbId \in 1 .. next_bb_id' - 1
         /\ next_bb_id' = next_bb_id \/ next_bb_id' = BbId + 1
         /\ next_bb_id' >= next_bb_id
<1> DEFINE head == BlockHead
           id == BbId
<1>1. /\ Heads' = Heads \cup {head}
      /\ \A p \in Heads \cup {head} :
           global_pc_to_id'[p] = IF p = head THEN id ELSE global_pc_to_id[p]
  BY DEF BbvCommit, Heads
<1>2. CASE head \in Heads
  <2>1. next_bb_id' = next_bb_id /\ id = global_pc_to_id[head]
    BY <1>2 DEF BbvCommit, BbId, Heads
  <2>2. /\ Heads' = Heads
        /\ \A p \in Heads : global_pc_to_id'[p] = global_pc_to_id[p]
    BY <1>1, <1>2, <2>1
  <2>3. IdsOK'
    BY <2>1, <2>2 DEF IdsOK
  <2> QED
    BY <1>2, <2>1, <2>3 DEF IdsOK
<1>3. CASE head \notin Heads
  <2>1. next_bb_id' = next_bb_id + 1 /\ id = next_bb_id
    BY <1>3 DEF BbvCommit, BbId, Heads
  <2> HIDE DEF head, id
  <2>2. /\ global_pc_to_id'[head] = next_bb_id
        /\ \A p \in Heads : global_pc_to_id'[p] = global_pc_to_id[p]
    BY <1>1, <1>3, <2>1
  <2>3. next_bb_id' \in Nat \ {0}
    BY <2>1 DEF IdsOK
  <2>4. \A p \in Heads' : global_pc_to_id'[p] \in 1 .. next_bb_id' - 1
    BY <1>1, <2>1, <2>2 DEF IdsOK
  <2>5. \A p, q \in Heads' :
          global_pc_to_id'[p] = global_pc_to_id'[q] => p = q
    <3>1. \A p \in Heads : global_pc_to_id[p] # next_bb_id
      BY DEF IdsOK
    <3> QED
      BY <1>1, <2>2, <3>1 DEF IdsOK
  <2>6. \A k \in 1 .. next_bb_id' - 1 :
          \E p \in Heads' : global_pc_to_id'[p] = k
    <3>1. \A k \in 1 .. next_bb_id' - 1 :
            k \in 1 .. next_bb_id - 1 \/ k = next_bb_id
      BY <2>1 DEF IdsOK
    <3> QED
      BY <1>1, <2>2, <3>1 DEF IdsOK
  <2>7. IdsOK'
    BY <2>3, <2>4, <2>5, <2>6 DEF IdsOK
  <2>8. id \in 1 .. next_bb_id' - 1 /\ next_bb_id' = id + 1
        /\ next_bb_id' >= next_bb_id
    BY <2>1 DEF IdsOK
  <2> QED
    BY <2>7, <2>8 DEF id
<1> QED
  BY <1>2, <1>3

\* The vector that bbv_commit leaves behind fits the ids.
LEMMA CommitVector ==
  ASSUME DenseInv, BbvCommit
  PROVE  \E size \in Nat : VectorOK(Committed, size, next_bb_id')
<1>1. /\ BbId \in 1 .. next_bb_id' - 1
      /\ next_bb_id' = next_bb_id \/ next_bb_id' = BbId + 1
      /\ next_bb_id' >= next_bb_id
      /\ next_bb_id' \in Nat /\ next_bb_id \in Nat /\ BbId \in Nat
  BY CommitIds DEF DenseInv, IdsOK
<1>2. PICK size \in Nat : VectorOK(bbv_counts, size, next_bb_id)
  BY DEF DenseInv
<1> DEFINE new == GrownSize(size, BbId)
<1>3. Cardinality(DOMAIN bbv_counts) = size
  <2>1. Cardinality(0 .. size - 1) =
          IF 0 > size - 1 THEN 0 ELSE (size - 1) - 0 + 1
    BY FS_Interval
  <2> QED
    BY <1>2, <2>1 DEF VectorOK
<1>4. new \in Nat /\ new > BbId /\ new >= size
  BY <1>1, GrownSizeFits
<1>5. Committed = [Grown(bbv_counts, new) EXCEPT ![BbId] = @ + BlockLength]
  BY <1>3 DEF Committed
<1> HIDE DEF new
<1>6. /\ DOMAIN Committed = 0 .. new - 1
      /\ \A id \in 0 .. new - 1 : id # BbId =>
           Committed[id] = IF id \in DOMAIN bbv_counts
                           THEN bbv_counts[id] ELSE 0
  BY <1>5 DEF Grown
<1>7. next_bb_id' = 1 \/ next_bb_id' <= new
  BY <1>1, <1>2, <1>4 DEF VectorOK
<1>8. ASSUME NEW id \in DOMAIN Committed, Committed[id] > 0
      PROVE  id \in 1 .. next_bb_id' - 1
  <2>1. CASE id = BbId
    BY <1>1, <2>1
  <2>2. CASE id # BbId
    <3>1. id \in DOMAIN bbv_counts /\ bbv_counts[id] > 0
      BY <1>6, <1>8, <2>2
    <3>2. id \in 1 .. next_bb_id - 1
      BY <1>2, <3>1 DEF VectorOK
    <3> QED
      BY <1>1, <3>2
  <2> QED
    BY <2>1, <2>2
<1> QED
  BY <1>4, <1>6, <1>7, <1>8 DEF VectorOK

\* A dump empties the vector and keeps its size.
LEMMA ZeroedVector ==
  ASSUME NEW counts, NEW size, NEW next, VectorOK(counts, size, next)
  PROVE  VectorOK(Zeroed(counts), size, next)
BY DEF VectorOK, Zeroed

\* The ids and the vector after a step, before a boundary is looked for.
LEMMA RetireDense ==
  ASSUME DenseInv, NEW o \in Outcome, Retire(o)
  PROVE  IdsOK' /\ \E size \in Nat : VectorOK(Counted(o), size, next_bb_id')
<1>1. CASE Closes(o) /\ config.mode = "GEN_BBV"
  <2>1. BbvCommit /\ Counted(o) = Committed
    BY <1>1 DEF Retire, Counted
  <2> QED
    BY <2>1, CommitIds, CommitVector DEF DenseInv
<1>2. CASE ~(Closes(o) /\ config.mode = "GEN_BBV")
  <2>1. /\ UNCHANGED <<global_pc_to_id, next_bb_id>>
        /\ Counted(o) = bbv_counts
    BY <1>2 DEF Retire, Counted
  <2> QED
    BY <2>1 DEF DenseInv, IdsOK, Heads
<1> QED
  BY <1>1, <1>2

LEMMA IterateDense ==
  ASSUME DenseInv, NEW o \in Outcome, Iterate(o)
  PROVE  IdsOK' /\ \E size \in Nat : VectorOK(bbv_counts', size, next_bb_id')
<1>1. CASE Halt(o)
  BY <1>1 DEF Halt, bbvVars, DenseInv, IdsOK, Heads
<1>2. ASSUME Retire(o)
      PROVE  /\ IdsOK'
             /\ \E size \in Nat : VectorOK(Counted(o), size, next_bb_id')
  BY <1>2, RetireDense
<1>3. CASE StopAtLimit(o) \/ WithinInterval(o)
  BY <1>2, <1>3 DEF StopAtLimit, WithinInterval, Full
<1>4. CASE PlainBoundary(o) \/ CheckpointBoundary(o)
  <2>1. Retire(o) /\ bbv_counts' = bbv_counts /\ config.mode # "GEN_BBV"
    BY <1>4 DEF PlainBoundary, CheckpointBoundary, AtBoundary, Full, TargetId,
                NoneAfter
  <2> QED
    BY <1>2, <2>1 DEF Counted
<1>5. CASE BbvBoundary(o)
  <2>1. Retire(o) /\ bbv_counts' = Zeroed(Counted(o))
    BY <1>5 DEF BbvBoundary, AtBoundary, Full
  <2> QED
    BY <1>2, <2>1, ZeroedVector
<1> QED
  BY <1>1, <1>3, <1>4, <1>5 DEF Iterate

LEMMA NextDense == DenseInv /\ [Next]_vars => DenseInv'
<1> SUFFICES ASSUME DenseInv, [Next]_vars PROVE DenseInv'
  OBVIOUS
<1>0. TypeOK /\ TypeOK'
  BY NextType DEF DenseInv
<1>1. ASSUME NEW o \in Outcome, Iterate(o) PROVE DenseInv'
  BY <1>0, <1>1, IterateMoves, IterateDense DEF DenseInv
<1>2. CASE StartBbv
  <2> DEFINE zero == [id \in 0 .. BbvSize - 1 |-> 0]
  <2>1. /\ bbv_counts' = zero /\ next_bb_id' = 1 /\ phase' = "loop"
        /\ UNCHANGED <<global_pc_to_id, next_bb_id>>
    BY <1>2 DEF StartBbv, DenseInv
  <2>2. VectorOK(zero, BbvSize, 1) /\ BbvSize \in Nat
    BY SimLoopAssumption DEF VectorOK
  <2>3. IdsOK'
    BY <2>1 DEF DenseInv, IdsOK, Heads
  <2> HIDE DEF zero
  <2> QED
    BY <1>0, <2>1, <2>2, <2>3 DEF DenseInv
<1>3. CASE StartNormal \/ StartCheckpoint \/ StartSpecial \/ StartRestore
           \/ Leave \/ UNCHANGED vars
  <2>1. /\ UNCHANGED bbvVars
        /\ phase' = "init" => phase = "init"
    BY <1>3 DEF StartNormal, StartCheckpoint, StartSpecial, StartRestore,
                Leave, Verdict, vars
  <2> QED
    BY <1>0, <2>1 DEF bbvVars, DenseInv, IdsOK, Heads
<1> QED
  BY <1>1, <1>2, <1>3 DEF Next, Start

LEMMA InitDense == Init => DenseInv
<1> SUFFICES ASSUME Init PROVE DenseInv
  OBVIOUS
<1>1. TypeOK
  BY InitType
<1>2. Heads = {} /\ DOMAIN bbv_counts = {} /\ next_bb_id = 1
  BY EmptySequence DEF Init, Heads
<1>3. IdsOK
  BY <1>2 DEF IdsOK
<1>4. VectorOK(bbv_counts, 0, next_bb_id)
  BY <1>2 DEF VectorOK
<1> QED
  BY <1>1, <1>2, <1>3, <1>4 DEF DenseInv

\* Blocks and ids are in bijection, and the ids are the dense range from 1 on,
\* whatever the program executes, however often the vector grows and is
\* dumped (bbv_commit, dump_bbv).
THEOREM DenseIds == Spec => []BbIdsAreDense
<1>1. Init => DenseInv
  BY InitDense
<1>2. DenseInv => BbIdsAreDense
  <2> SUFFICES ASSUME DenseInv PROVE BbIdsAreDense
    OBVIOUS
  <2> DEFINE ids == {global_pc_to_id[p] : p \in Heads}
             inverse == [id \in ids |->
                           CHOOSE p \in Heads : global_pc_to_id[p] = id]
  <2>1. ids = 1 .. next_bb_id - 1
    BY DEF DenseInv, IdsOK
  <2>2. PICK size \in Nat : VectorOK(bbv_counts, size, next_bb_id)
    BY DEF DenseInv
  <2>3. ids \subseteq DOMAIN bbv_counts
    BY <2>1, <2>2 DEF VectorOK, DenseInv, IdsOK
  <2>4. \A id \in DOMAIN bbv_counts : bbv_counts[id] > 0 => id \in ids
    BY <2>1, <2>2 DEF VectorOK
  <2>5. IsFiniteSet(ids)
    <3>1. IsFiniteSet(1 .. next_bb_id - 1)
      BY FS_Interval DEF DenseInv, IdsOK
    <3> QED
      BY <2>1, <3>1
  <2>6. ExistsBijection(ids, Heads)
    <3>1. \A id \in ids :
            inverse[id] \in Heads /\ global_pc_to_id[inverse[id]] = id
      OBVIOUS
    <3>2. inverse \in [ids -> Heads]
      BY <3>1
    <3>3. \A p \in Heads : \E id \in ids : inverse[id] = p
      <4> SUFFICES ASSUME NEW p \in Heads
                   PROVE  inverse[global_pc_to_id[p]] = p
        OBVIOUS
      <4>1. global_pc_to_id[p] \in ids
        OBVIOUS
      <4> HIDE DEF inverse, ids
      <4> QED
        BY <3>1, <4>1 DEF DenseInv, IdsOK
    <3>4. \A a, b \in ids : inverse[a] = inverse[b] => a = b
      <4> HIDE DEF inverse, ids
      <4> QED
        BY <3>1
    <3> HIDE DEF inverse, ids
    <3>5. inverse \in Bijection(ids, Heads)
      BY <3>2, <3>3, <3>4 DEF Bijection, Injection, Surjection, IsInjective
    <3> QED
      BY <3>5 DEF ExistsBijection
  <2>7. Cardinality(Heads) = Cardinality(ids)
    <3> HIDE DEF ids
    <3> QED
      BY <2>5, <2>6, FS_Bijection
  <2> QED
    BY <2>1, <2>3, <2>4, <2>7 DEF BbIdsAreDense, Heads
<1> QED
  BY <1>1, <1>2, NextDense, PTL DEF Spec

-----------------------------------------------------------------------------
(* Sums.  Mass folds a function with +: FoldFunction takes the elements of  *)
(* the domain in an unspecified order, by a function that is recursive on   *)
(* the subsets of the domain.  It exists, and the order is immaterial.      *)

\* The function that FoldFunction defines on the subsets of a domain.
Any(s) == CHOOSE x \in s : TRUE
OneMore(f, g, s) == IF s = {} THEN 0 ELSE f[Any(s)] + g[s \ {Any(s)}]
Sums(f, S) == CHOOSE g : g = [s \in SUBSET S |-> OneMore(f, g, s)]

LEMMA MassIs ==
  ASSUME NEW f
  PROVE  Mass(f) = Sums(f, DOMAIN f)[DOMAIN f]
BY DEF Mass, FoldFunction, FoldFunctionOnSet, MapThenFoldSet, Sums, OneMore,
       Any

\* A set of natural numbers has a least one.
LEMMA Least ==
  ASSUME NEW B \in SUBSET Nat, B # {}
  PROVE  \E m \in B : \A n \in Nat : n < m => n \notin B
<1>1. PICK m \in B : \A n \in B : <<n, m>> \notin OpToRel(<, Nat)
  BY NatLessThanWellFounded, WFMin
<1>2. \A n \in B : ~(n < m)
  BY <1>1 DEF OpToRel
<1> QED
  BY <1>2

\* Taking an element away makes a finite set smaller.
LEMMA Smaller ==
  ASSUME NEW S, IsFiniteSet(S), NEW s \in SUBSET S, NEW x \in s
  PROVE  /\ Cardinality(s) \in Nat \ {0} /\ s \ {x} \in SUBSET S
         /\ Cardinality(s \ {x}) = Cardinality(s) - 1
<1>1. IsFiniteSet(s)
  BY FS_Subset
<1>2. Cardinality(s) \in Nat /\ Cardinality(s) # 0
  BY <1>1, FS_CardinalityType, FS_EmptySet
<1> QED
  BY <1>1, <1>2, FS_RemoveElement

LEMMA AnyIn == ASSUME NEW s, s # {} PROVE Any(s) \in s
BY DEF Any

LEMMA SumsExist ==
  ASSUME NEW S, IsFiniteSet(S), NEW f
  PROVE  Sums(f, S) = [s \in SUBSET S |-> OneMore(f, Sums(f, S), s)]
<1> DEFINE Upto(n) == {s \in SUBSET S : Cardinality(s) <= n}
           Good(g, n) == g = [s \in Upto(n) |-> OneMore(f, g, s)]
           Bad == {n \in Nat : ~ \E g : Good(g, n)}
<1>1. \A s \in SUBSET S : Cardinality(s) \in Nat
  BY FS_Subset, FS_CardinalityType
<1>2. ASSUME NEW m \in Nat, \A n \in Nat : n < m => n \notin Bad
      PROVE  \E g : Good(g, m)
  <2>1. CASE m = 0
    <3> DEFINE g == [s \in Upto(m) |-> 0]
    <3>1. \A s \in Upto(m) : s = {}
      BY <1>1, <2>1, FS_Subset, FS_EmptySet
    <3>2. \A s \in Upto(m) : OneMore(f, g, s) = 0
      BY <3>1 DEF OneMore
    <3>3. Good(g, m)
      BY <3>2
    <3> QED
      BY <3>3
  <2>2. CASE m # 0
    <3>1. m - 1 \in Nat /\ m - 1 < m
      BY <2>2
    <3>2. PICK g : Good(g, m - 1)
      BY <1>2, <3>1
    <3> DEFINE h == [s \in Upto(m) |-> OneMore(f, g, s)]
    <3>3. ASSUME NEW s \in Upto(m) PROVE OneMore(f, h, s) = OneMore(f, g, s)
      <4>1. CASE s = {}
        BY <4>1 DEF OneMore
      <4>2. CASE s # {}
        <5> DEFINE t == s \ {Any(s)}
        <5>1. t \in Upto(m - 1) /\ t \in Upto(m)
          BY <1>1, <3>1, <4>2, AnyIn, Smaller
        <5>2. h[t] = g[t]
          BY <3>2, <5>1
        <5> QED
          BY <4>2, <5>2 DEF OneMore
      <4> QED
        BY <4>1, <4>2
    <3>4. Good(h, m)
      BY <3>3
    <3> QED
      BY <3>4
  <2> QED
    BY <2>1, <2>2
<1>3. Bad = {}
  <2> SUFFICES ASSUME Bad # {} PROVE FALSE
    OBVIOUS
  <2>1. PICK m \in Bad : \A n \in Nat : n < m => n \notin Bad
    BY Least
  <2> QED
    BY <1>2, <2>1
<1>4. Upto(Cardinality(S)) = SUBSET S
  BY <1>1, FS_Subset
<1>5. \E g : g = [s \in SUBSET S |-> OneMore(f, g, s)]
  <2>1. Cardinality(S) \in Nat /\ Cardinality(S) \notin Bad
    BY <1>1, <1>3
  <2>2. PICK g : Good(g, Cardinality(S))
    BY <2>1
  <2>3. g = [s \in SUBSET S |-> OneMore(f, g, s)]
    BY <1>4, <2>2
  <2> QED
    BY <2>3
<1> QED
  BY <1>5 DEF Sums

\* An induction over the subsets of a finite set, smallest first.
LEMMA Smallest ==
  ASSUME NEW S, IsFiniteSet(S), NEW B \in SUBSET (SUBSET S), B # {}
  PROVE  \E s \in B : \A t \in SUBSET S :
           Cardinality(t) < Cardinality(s) => t \notin B
<1> DEFINE sizes == {Cardinality(s) : s \in B}
<1>1. \A s \in SUBSET S : Cardinality(s) \in Nat
  BY FS_Subset, FS_CardinalityType
<1>2. sizes \in SUBSET Nat /\ sizes # {}
  BY <1>1
<1>3. PICK m \in sizes : \A n \in Nat : n < m => n \notin sizes
  <2> HIDE DEF sizes
  <2> QED
    BY <1>2, Least
<1>4. PICK s \in B : Cardinality(s) = m
  BY <1>3
<1> QED
  BY <1>1, <1>3, <1>4

LEMMA SumsAre ==
  ASSUME NEW S, IsFiniteSet(S), NEW f
  PROVE  /\ Sums(f, S)[{}] = 0
         /\ \A s \in SUBSET S : s # {} =>
              /\ Any(s) \in s
              /\ Sums(f, S)[s] = f[Any(s)] + Sums(f, S)[s \ {Any(s)}]
<1> DEFINE g == Sums(f, S)
<1>1. g = [s \in SUBSET S |-> OneMore(f, g, s)]
  BY SumsExist
<1> HIDE DEF g
<1>2. \A s \in SUBSET S : g[s] = OneMore(f, g, s)
  BY <1>1
<1>3. g[{}] = 0
  BY <1>2 DEF OneMore
<1>4. \A s \in SUBSET S : s # {} =>
        Any(s) \in s /\ g[s] = f[Any(s)] + g[s \ {Any(s)}]
  BY <1>2, AnyIn DEF OneMore
<1> QED
  BY <1>3, <1>4 DEF g

LEMMA SumsType ==
  ASSUME NEW S, IsFiniteSet(S), NEW f \in [S -> Nat], NEW s \in SUBSET S
  PROVE  Sums(f, S)[s] \in Nat
<1> DEFINE g == Sums(f, S)
           B == {t \in SUBSET S : g[t] \notin Nat}
<1>1. /\ g[{}] = 0
      /\ \A t \in SUBSET S : t # {} =>
           Any(t) \in t /\ g[t] = f[Any(t)] + g[t \ {Any(t)}]
  BY SumsAre
<1> HIDE DEF g
<1>2. B = {}
  <2> SUFFICES ASSUME B # {} PROVE FALSE
    OBVIOUS
  <2>1. B \in SUBSET (SUBSET S)
    OBVIOUS
  <2>2. PICK t \in B : \A u \in SUBSET S :
                         Cardinality(u) < Cardinality(t) => u \notin B
    <3> HIDE DEF B
    <3> QED
      BY <2>1, Smallest
  <2>3. t \in SUBSET S /\ t # {} /\ g[t] \notin Nat
    <3>1. t \in SUBSET S /\ g[t] \notin Nat
      BY <2>2
    <3>2. t = {} => g[t] = 0
      BY <1>1
    <3> QED
      BY <3>1, <3>2
  <2> DEFINE x == Any(t)
             u == t \ {x}
  <2>4. x \in t /\ g[t] = f[x] + g[u]
    BY <1>1, <2>3
  <2> HIDE DEF x
  <2>5. u \in SUBSET S /\ Cardinality(u) < Cardinality(t)
    <3>1. /\ Cardinality(t) \in Nat \ {0} /\ u \in SUBSET S
          /\ Cardinality(u) = Cardinality(t) - 1
      BY <2>3, <2>4, Smaller
    <3> HIDE DEF u
    <3> QED
      BY <3>1
  <2>6. g[u] \in Nat
    BY <2>2, <2>5
  <2>7. f[x] \in Nat
    BY <2>3, <2>4
  <2> QED
    BY <2>3, <2>4, <2>6, <2>7
<1>3. g[s] \in Nat
  BY <1>2
<1> QED
  BY <1>3 DEF g

\* The order in which the elements are taken is immaterial.
LEMMA SumsAny ==
  ASSUME NEW S, IsFiniteSet(S), NEW f \in [S -> Nat],
         NEW s \in SUBSET S, NEW x \in s
  PROVE  Sums(f, S)[s] = f[x] + Sums(f, S)[s \ {x}]
<1> DEFINE g == Sums(f, S)
           B == {t \in SUBSET S : \E y \in t : g[t] # f[y] + g[t \ {y}]}
<1>1. /\ g[{}] = 0
      /\ \A t \in SUBSET S : t # {} =>
           Any(t) \in t /\ g[t] = f[Any(t)] + g[t \ {Any(t)}]
  BY SumsAre
<1>2. \A t \in SUBSET S : g[t] \in Nat
  BY SumsType
<1> HIDE DEF g
<1>3. B = {}
  <2> SUFFICES ASSUME B # {} PROVE FALSE
    OBVIOUS
  <2>0. B \in SUBSET (SUBSET S)
    OBVIOUS
  <2>1. PICK t \in B : \A u \in SUBSET S :
                         Cardinality(u) < Cardinality(t) => u \notin B
    <3> HIDE DEF B
    <3> QED
      BY <2>0, Smallest
  <2>2. t \in SUBSET S /\ \E y \in t : g[t] # f[y] + g[t \ {y}]
    BY <2>1
  <2>3. PICK y \in t : g[t] # f[y] + g[t \ {y}]
    BY <2>2
  <2> DEFINE c == Any(t)
  <2>4. c \in t /\ g[t] = f[c] + g[t \ {c}] /\ c # y
    BY <1>1, <2>2, <2>3
  <2> HIDE DEF c
  <2>5. ASSUME NEW z \in t, NEW v \in t \ {z}
        PROVE  g[t \ {z}] = f[v] + g[(t \ {z}) \ {v}]
    <3> DEFINE u == t \ {z}
    <3>1. /\ Cardinality(t) \in Nat \ {0} /\ u \in SUBSET S
          /\ Cardinality(u) = Cardinality(t) - 1
      BY <2>2, Smaller
    <3> HIDE DEF u
    <3>2. Cardinality(u) < Cardinality(t)
      BY <3>1
    <3>3. u \notin B
      BY <2>1, <3>1, <3>2
    <3>4. \A y1 \in u : g[u] = f[y1] + g[u \ {y1}]
      BY <3>1, <3>3
    <3> QED
      BY <3>4 DEF u
  <2>6. /\ g[t \ {c}] = f[y] + g[(t \ {c}) \ {y}]
        /\ g[t \ {y}] = f[c] + g[(t \ {y}) \ {c}]
    BY <2>4, <2>5
  <2>7. (t \ {c}) \ {y} = (t \ {y}) \ {c}
    OBVIOUS
  <2> DEFINE w == (t \ {c}) \ {y}
  <2>8. w \in SUBSET S
    BY <2>2
  <2>9. f[c] \in Nat /\ f[y] \in Nat /\ g[w] \in Nat
    BY <1>2, <2>2, <2>4, <2>8
  <2>10. /\ g[t \ {c}] = f[y] + g[w] /\ g[t \ {y}] = f[c] + g[w]
    BY <2>6, <2>7
  <2> HIDE DEF w
  <2> QED
    BY <2>3, <2>4, <2>9, <2>10
<1> QED
  BY <1>3 DEF g

\* Two sums are equal when the functions agree where either is not zero.
LEMMA SumsAgree ==
  ASSUME NEW S, IsFiniteSet(S), NEW f \in [S -> Nat],
         NEW T, IsFiniteSet(T), NEW h \in [T -> Nat],
         NEW D \in SUBSET T, D \subseteq S, \A x \in D : f[x] = h[x],
         NEW s \in SUBSET S, \A x \in s : x \notin D => f[x] = 0
  PROVE  Sums(f, S)[s] = Sums(h, T)[s \cap D]
<1> DEFINE g == Sums(f, S)
           k == Sums(h, T)
           B == {t \in SUBSET S : /\ \A x \in t : x \notin D => f[x] = 0
                                  /\ g[t] # k[t \cap D]}
<1>1. /\ g[{}] = 0 /\ k[{}] = 0
      /\ \A t \in SUBSET S : t # {} =>
           Any(t) \in t /\ g[t] = f[Any(t)] + g[t \ {Any(t)}]
  BY SumsAre
<1>2. \A t \in SUBSET S : g[t] \in Nat
  BY SumsType
<1>3. \A t \in SUBSET T : \A x \in t : k[t] = h[x] + k[t \ {x}]
  BY SumsAny
<1> HIDE DEF g, k
<1>4. B = {}
  <2> SUFFICES ASSUME B # {} PROVE FALSE
    OBVIOUS
  <2>0. B \in SUBSET (SUBSET S)
    OBVIOUS
  <2>1. PICK t \in B : \A u \in SUBSET S :
                         Cardinality(u) < Cardinality(t) => u \notin B
    <3> HIDE DEF B
    <3> QED
      BY <2>0, Smallest
  <2>2. /\ t \in SUBSET S /\ g[t] # k[t \cap D] /\ t # {}
        /\ \A x \in t : x \notin D => f[x] = 0
    BY <1>1, <2>1
  <2> DEFINE x == Any(t)
             u == t \ {x}
  <2>3. x \in t /\ g[t] = f[x] + g[u]
    BY <1>1, <2>2
  <2> HIDE DEF x
  <2>4. u \in SUBSET S /\ Cardinality(u) < Cardinality(t)
    <3>1. /\ Cardinality(t) \in Nat \ {0} /\ u \in SUBSET S
          /\ Cardinality(u) = Cardinality(t) - 1
      BY <2>2, <2>3, Smaller
    <3> HIDE DEF u
    <3> QED
      BY <3>1
  <2>5. g[u] = k[u \cap D]
    <3>1. u \notin B
      BY <2>1, <2>4
    <3> QED
      BY <2>2, <2>4, <3>1
  <2>6. CASE x \in D
    <3>1. (t \cap D) \ {x} = u \cap D /\ t \cap D \in SUBSET T
      OBVIOUS
    <3>2. k[t \cap D] = h[x] + k[(t \cap D) \ {x}]
      BY <1>3, <2>3, <2>6, <3>1
    <3>3. f[x] = h[x]
      BY <2>6
    <3> QED
      BY <2>2, <2>3, <2>5, <3>1, <3>2, <3>3
  <2>7. CASE x \notin D
    <3>1. t \cap D = u \cap D /\ f[x] = 0
      BY <2>2, <2>3, <2>7
    <3>2. g[u] \in Nat
      BY <1>2, <2>4
    <3>3. g[t] = g[u]
      BY <2>3, <3>1, <3>2
    <3>4. k[t \cap D] = k[u \cap D]
      BY <3>1
    <3> HIDE DEF u
    <3> QED
      BY <2>2, <2>5, <3>3, <3>4
  <2> QED
    BY <2>6, <2>7
<1> QED
  BY <1>4 DEF g, k

LEMMA MassType ==
  ASSUME NEW S, IsFiniteSet(S), NEW f \in [S -> Nat]
  PROVE  Mass(f) \in Nat
BY MassIs, SumsType

\* Elements that count nothing may be left out.
LEMMA MassAgree ==
  ASSUME NEW S, IsFiniteSet(S), NEW f \in [S -> Nat],
         NEW T \in SUBSET S, NEW h \in [T -> Nat],
         \A x \in T : f[x] = h[x], \A x \in S \ T : f[x] = 0
  PROVE  Mass(f) = Mass(h)
<1>1. IsFiniteSet(T) /\ S \cap T = T
  BY FS_Subset
<1>2. Sums(f, S)[S] = Sums(h, T)[S \cap T]
  BY <1>1, SumsAgree
<1> QED
  BY <1>1, <1>2, MassIs

\* A change at one point changes the mass by as much.
LEMMA MassPoint ==
  ASSUME NEW S, IsFiniteSet(S), NEW f \in [S -> Nat], NEW h \in [S -> Nat],
         NEW a \in S, \A x \in S : x # a => f[x] = h[x]
  PROVE  Mass(f) + h[a] = Mass(h) + f[a]
<1> DEFINE D == S \ {a}
<1>1. D \in SUBSET S /\ D \subseteq S /\ D \cap D = D /\ S \in SUBSET S
  OBVIOUS
<1>2. Sums(f, S)[D] = Sums(h, S)[D \cap D]
  <2>1. \A x \in D : f[x] = h[x]
    OBVIOUS
  <2>2. \A x \in D : x \notin D => f[x] = 0
    OBVIOUS
  <2> HIDE DEF D
  <2> QED
    BY <1>1, <2>1, <2>2, SumsAgree
<1>3. ASSUME NEW k \in [S -> Nat]
      PROVE  Mass(k) = k[a] + Sums(k, S)[D]
  <2>1. Mass(k) = Sums(k, S)[S]
    BY MassIs
  <2>2. Sums(k, S)[S] = k[a] + Sums(k, S)[S \ {a}]
    BY <1>1, SumsAny
  <2> QED
    BY <2>1, <2>2
<1>4. Sums(f, S)[D] \in Nat /\ f[a] \in Nat /\ h[a] \in Nat
  BY <1>1, SumsType
<1> HIDE DEF D
<1> QED
  BY <1>1, <1>2, <1>3, <1>4

\* One more point adds what is there.
LEMMA MassMore ==
  ASSUME NEW S, IsFiniteSet(S), NEW f \in [S -> Nat], NEW a, a \notin S,
         NEW T, T = S \cup {a}, NEW h \in [T -> Nat],
         \A x \in S : f[x] = h[x]
  PROVE  Mass(h) = Mass(f) + h[a]
<1>1. /\ IsFiniteSet(T) /\ T \ {a} = S /\ S \in SUBSET T /\ S \cap S = S
      /\ a \in T /\ T \in SUBSET T
  BY FS_AddElement
<1>2. h \in [T -> Nat]
  OBVIOUS
<1>3. Sums(f, S)[S] = Sums(h, T)[S \cap S]
  <2>1. S \in SUBSET S /\ S \subseteq S /\ \A x \in S : x \notin S => f[x] = 0
    OBVIOUS
  <2> QED
    BY <1>1, <1>2, <2>1, SumsAgree
<1>4. Mass(h) = h[a] + Sums(h, T)[S]
  <2>1. Mass(h) = Sums(h, T)[T]
    BY <1>2, MassIs
  <2>2. Sums(h, T)[T] = h[a] + Sums(h, T)[T \ {a}]
    BY <1>1, <1>2, SumsAny
  <2> QED
    BY <1>1, <2>1, <2>2
<1>5. Mass(f) = Sums(f, S)[S] /\ Mass(f) \in Nat /\ h[a] \in Nat
  BY <1>1, <1>2, MassIs, MassType
<1>6. Sums(h, T)[S] = Mass(f)
  BY <1>1, <1>3, <1>5
<1> QED
  BY <1>4, <1>5, <1>6

LEMMA MassZero ==
  ASSUME NEW S, IsFiniteSet(S), NEW f \in [S -> Nat],
         \A x \in S : f[x] = 0
  PROVE  Mass(f) = 0
<1>1. PICK T : T = {}
  OBVIOUS
<1> DEFINE h == [x \in T |-> 0]
<1>2. T \in SUBSET S /\ h \in [T -> Nat] /\ DOMAIN h = T
  BY <1>1
<1> HIDE DEF h
<1>3. (\A x \in T : f[x] = h[x]) /\ (\A x \in S \ T : f[x] = 0)
  BY <1>1
<1>4. Mass(f) = Mass(h)
  BY <1>2, <1>3, MassAgree
<1>5. Mass(h) = Sums(h, T)[T] /\ IsFiniteSet(T)
  BY <1>1, <1>2, MassIs, FS_EmptySet
<1> QED
  BY <1>1, <1>4, <1>5, SumsAre

-----------------------------------------------------------------------------
(* The mass of the vectors.                                                 *)

Vectors == UNION {[0 .. size - 1 -> Nat] : size \in Nat}

Masses(file) == [i \in DOMAIN file |-> Mass(file[i])]

FileOK(file) ==
  /\ \E S : file \in Seq(S)
  /\ Len(file) = finished_intervals
  /\ \A i \in DOMAIN file : Mass(file[i]) \in Nat
                            /\ Mass(file[i]) >= IntervalSize
  /\ Mass(Masses(file)) = closed_insts

MassInv ==
  /\ DenseInv
  /\ phase = "init" => /\ bbv_file = <<>> /\ interval_inst_count = 0
                       /\ finished_intervals = 0 /\ closed_insts = 0
  /\ config.mode = "GEN_BBV" /\ phase # "init" =>
       /\ bbv_counts \in Vectors
       /\ Mass(bbv_counts) = interval_inst_count
       /\ config.bbv_opens => FileOK(bbv_file)

LEMMA FiniteVector ==
  ASSUME NEW size \in Nat
  PROVE  IsFiniteSet(0 .. size - 1)
<1>1. 0 \in Int /\ size - 1 \in Int
  OBVIOUS
<1> QED
  BY <1>1, FS_Interval

\* bbv_commit adds the length of the block to the mass.
LEMMA CommittedMass ==
  ASSUME DenseInv, BbvCommit, bbv_counts \in Vectors, BlockLength \in Nat
  PROVE  /\ Committed \in Vectors
         /\ Mass(Committed) = Mass(bbv_counts) + BlockLength
<1>1. PICK size \in Nat : bbv_counts \in [0 .. size - 1 -> Nat]
  BY DEF Vectors
<1>2. BbId \in Nat
  BY CommitIds DEF DenseInv, IdsOK
<1> DEFINE new == GrownSize(size, BbId)
           grown == Grown(bbv_counts, new)
<1>3. Cardinality(DOMAIN bbv_counts) = size
  <2>1. Cardinality(0 .. size - 1) =
          IF 0 > size - 1 THEN 0 ELSE (size - 1) - 0 + 1
    BY FS_Interval
  <2> QED
    BY <1>1, <2>1
<1>4. new \in Nat /\ new > BbId /\ new >= size
  BY <1>2, GrownSizeFits
<1>5. Committed = [grown EXCEPT ![BbId] = @ + BlockLength]
  BY <1>3 DEF Committed
<1> HIDE DEF new
<1> DEFINE S == 0 .. new - 1
           T == 0 .. size - 1
<1>6. IsFiniteSet(S) /\ T \in SUBSET S /\ BbId \in S
  BY <1>2, <1>4, FiniteVector
<1>7. /\ grown \in [S -> Nat]
      /\ \A x \in T : grown[x] = bbv_counts[x]
      /\ \A x \in S \ T : grown[x] = 0
  BY <1>1, <1>6 DEF Grown
<1> HIDE DEF grown, S, T
<1>8. Mass(grown) = Mass(bbv_counts)
  <2>1. bbv_counts \in [T -> Nat]
    BY <1>1 DEF T
  <2> QED
    BY <1>6, <1>7, <2>1, MassAgree
<1>9. /\ Committed \in [S -> Nat]
      /\ Committed[BbId] = grown[BbId] + BlockLength
      /\ \A x \in S : x # BbId => Committed[x] = grown[x]
  BY <1>5, <1>6, <1>7
<1>10. Mass(Committed) + grown[BbId] = Mass(grown) + Committed[BbId]
  BY <1>6, <1>7, <1>9, MassPoint
<1>11. Mass(Committed) \in Nat /\ Mass(grown) \in Nat /\ grown[BbId] \in Nat
  BY <1>6, <1>7, <1>9, MassType
<1>12. Committed \in Vectors
  BY <1>4, <1>9 DEF Vectors, S
<1> QED
  BY <1>8, <1>9, <1>10, <1>11, <1>12

\* After a step of a GEN_BBV run the vector holds what is counted.
LEMMA CountedMass ==
  ASSUME MassInv, NEW o \in Outcome, Retire(o), config.mode = "GEN_BBV"
  PROVE  /\ Counted(o) \in Vectors
         /\ Mass(Counted(o)) = Count(o)
<1>1. /\ DenseInv /\ TypeOK /\ phase = "loop"
      /\ bbv_counts \in Vectors /\ Mass(bbv_counts) = interval_inst_count
  BY DEF MassInv, DenseInv, Retire, Execute
<1>2. CASE Closes(o)
  <2>1. BbvCommit /\ Counted(o) = Committed
    BY <1>2 DEF Retire, Counted
  <2>2. BlockLength \in Nat
    BY <1>1 DEF TypeOK, BlockLength
  <2> QED
    BY <1>1, <1>2, <2>1, <2>2, CommittedMass DEF Count
<1>3. CASE ~Closes(o)
  BY <1>1, <1>3 DEF Counted, Count
<1> QED
  BY <1>2, <1>3

\* A dump writes the whole mass and leaves none.
LEMMA DumpMass ==
  ASSUME NEW counts \in Vectors, NEW size, NEW next \in Nat,
         VectorOK(counts, size, next)
  PROVE  /\ Mass(Line(counts)) = Mass(counts)
         /\ Mass(counts) \in Nat
         /\ Zeroed(counts) \in Vectors /\ Mass(Zeroed(counts)) = 0
<1>1. PICK n \in Nat : counts \in [0 .. n - 1 -> Nat]
  BY DEF Vectors
<1> DEFINE S == 0 .. n - 1
           T == {id \in DOMAIN counts : id >= 1 /\ counts[id] > 0}
<1>2. IsFiniteSet(S)
  BY FiniteVector
<1>3. 0 \in S => counts[0] = 0
  <2>1. 0 \in S => 0 \in DOMAIN counts /\ counts[0] \in Nat
    BY <1>1
  <2>2. \A id \in DOMAIN counts : counts[id] > 0 => id # 0
    BY DEF VectorOK
  <2> QED
    BY <2>1, <2>2
<1>4. /\ T \in SUBSET S /\ Line(counts) \in [T -> Nat]
      /\ \A x \in T : counts[x] = Line(counts)[x]
      /\ \A x \in S \ T : counts[x] = 0
  BY <1>1, <1>3 DEF Line, Restrict
<1>5. /\ Zeroed(counts) \in [S -> Nat]
      /\ \A x \in S : Zeroed(counts)[x] = 0
  BY <1>1, <1>3 DEF Zeroed
<1>6. Zeroed(counts) \in Vectors
  BY <1>5 DEF Vectors
<1> HIDE DEF T, S
<1>7. counts \in [S -> Nat]
  BY <1>1 DEF S
<1> QED
  BY <1>2, <1>4, <1>5, <1>6, <1>7, MassAgree, MassType, MassZero

\* One more line.
LEMMA FileGrows ==
  ASSUME FileOK(bbv_file), NEW line, Mass(line) \in Nat,
         Mass(line) >= IntervalSize, finished_intervals \in Nat,
         finished_intervals' = finished_intervals + 1, closed_insts \in Nat,
         closed_insts' = closed_insts + Mass(line),
         bbv_file' = Append(bbv_file, line)
  PROVE  FileOK(bbv_file)'
<1>1. PICK S : bbv_file \in Seq(S)
  BY DEF FileOK
<1> DEFINE n == Len(bbv_file)
           more == Append(bbv_file, line)
<1>2. /\ n \in Nat /\ DOMAIN bbv_file = 1 .. n
      /\ more \in Seq(S \cup {line}) /\ Len(more) = n + 1
      /\ DOMAIN more = (1 .. n) \cup {n + 1}
      /\ more[n + 1] = line /\ \A i \in 1 .. n : more[i] = bbv_file[i]
  BY <1>1
<1> HIDE DEF more
<1>3. n = finished_intervals /\ Mass(Masses(bbv_file)) = closed_insts
  BY DEF FileOK
<1>4. \A i \in 1 .. n : Mass(bbv_file[i]) \in Nat
                        /\ Mass(bbv_file[i]) >= IntervalSize
  BY <1>2 DEF FileOK
<1> HIDE DEF n
<1>5. IsFiniteSet(1 .. n) /\ n + 1 \notin 1 .. n
  <2>1. 1 \in Int /\ n \in Int
    BY <1>2
  <2> QED
    BY <1>2, <2>1, FS_Interval
<1>6. Masses(bbv_file) \in [1 .. n -> Nat]
  BY <1>2, <1>4 DEF Masses
<1>7. /\ Masses(more) \in [(1 .. n) \cup {n + 1} -> Nat]
      /\ Masses(more)[n + 1] = Mass(line)
      /\ \A i \in 1 .. n : Masses(bbv_file)[i] = Masses(more)[i]
  BY <1>2, <1>4 DEF Masses
<1>8. Mass(Masses(more)) = Mass(Masses(bbv_file)) + Mass(line)
  <2> DEFINE D == 1 .. n
             E == (1 .. n) \cup {n + 1}
             f == Masses(bbv_file)
             h == Masses(more)
  <2>1. PICK a : a = n + 1
    OBVIOUS
  <2>2. /\ IsFiniteSet(D) /\ a \notin D /\ f \in [D -> Nat]
        /\ h \in [E -> Nat] /\ \A x \in D : f[x] = h[x]
        /\ E = D \cup {a} /\ h[a] = Mass(line)
    BY <1>5, <1>6, <1>7, <2>1
  <2> HIDE DEF D, E, f, h
  <2>3. Mass(h) = Mass(f) + h[a]
    BY <2>2, MassMore
  <2> QED
    BY <2>2, <2>3 DEF f, h
<1>9. \A i \in DOMAIN more : Mass(more[i]) \in Nat
                             /\ Mass(more[i]) >= IntervalSize
  BY <1>2, <1>4
<1>10. bbv_file' = more
  BY DEF more
<1> QED
  BY <1>2, <1>3, <1>8, <1>9, <1>10 DEF FileOK

LEMMA IterateMass ==
  ASSUME MassInv, NEW o \in Outcome, Iterate(o), DenseInv'
  PROVE  MassInv'
<1>1. TypeOK /\ DenseInv /\ phase = "loop" /\ config' = config
      /\ phase' # "init"
  BY IterateMoves DEF MassInv, DenseInv, Halt, StopAtLimit, WithinInterval,
     PlainBoundary, BbvBoundary, CheckpointBoundary, AtBoundary, Retire,
     Execute, Iterate, Verdict
<1>2. CASE config.mode # "GEN_BBV"
  BY <1>1, <1>2 DEF MassInv
<1>3. CASE config.mode = "GEN_BBV"
  <2>1. /\ bbv_counts \in Vectors /\ Mass(bbv_counts) = interval_inst_count
        /\ config.bbv_opens => FileOK(bbv_file)
    BY <1>1, <1>3 DEF MassInv
  <2>2. CASE Halt(o)
    <3>1. UNCHANGED <<bbv_counts, bbv_file, interval_inst_count,
                      finished_intervals, closed_insts>>
      BY <2>2 DEF Halt, bbvVars
    <3> QED
      BY <1>1, <2>1, <3>1 DEF MassInv, FileOK
  <2>3. CASE StopAtLimit(o) \/ WithinInterval(o)
    <3>1. /\ Retire(o) /\ bbv_counts' = Counted(o)
          /\ interval_inst_count' = Count(o)
          /\ UNCHANGED <<bbv_file, finished_intervals, closed_insts>>
      BY <2>3 DEF StopAtLimit, WithinInterval
    <3>2. Counted(o) \in Vectors /\ Mass(Counted(o)) = Count(o)
      BY <1>3, <3>1, CountedMass
    <3> QED
      BY <1>1, <2>1, <3>1, <3>2 DEF MassInv, FileOK
  <2>4. CASE BbvBoundary(o)
    <3> DEFINE counts == Counted(o)
               line == Line(counts)
    <3>1. /\ Retire(o) /\ bbv_counts' = Zeroed(counts)
          /\ interval_inst_count' = 0
          /\ finished_intervals' = finished_intervals + 1
          /\ closed_insts' = closed_insts + Count(o)
          /\ Count(o) >= IntervalSize
          /\ config.bbv_opens => bbv_file' = Append(bbv_file, line)
      BY <2>4 DEF BbvBoundary, AtBoundary, Full
    <3>2. counts \in Vectors /\ Mass(counts) = Count(o)
      BY <1>3, <3>1, CountedMass
    <3>3. PICK size \in Nat : VectorOK(counts, size, next_bb_id')
      BY <1>1, <3>1, RetireDense
    <3>4. next_bb_id' \in Nat
      BY DEF DenseInv, IdsOK
    <3> HIDE DEF counts
    <3>5. /\ Mass(line) = Mass(counts) /\ Mass(counts) \in Nat
          /\ Zeroed(counts) \in Vectors /\ Mass(Zeroed(counts)) = 0
      BY <3>2, <3>3, <3>4, DumpMass
    <3> HIDE DEF line
    <3>6. /\ finished_intervals \in Nat /\ closed_insts \in Nat
      BY <1>1 DEF TypeOK
    <3>7. config.bbv_opens => FileOK(bbv_file)'
      BY <2>1, <3>1, <3>2, <3>5, <3>6, FileGrows
    <3> QED
      BY <1>1, <3>1, <3>5, <3>7 DEF MassInv
  <2>5. ~PlainBoundary(o) /\ ~CheckpointBoundary(o)
    BY <1>3 DEF PlainBoundary, CheckpointBoundary
  <2> QED
    BY <2>2, <2>3, <2>4, <2>5 DEF Iterate
<1> QED
  BY <1>2, <1>3

LEMMA NextMass == MassInv /\ [Next]_vars => MassInv'
<1> SUFFICES ASSUME MassInv, [Next]_vars PROVE MassInv'
  OBVIOUS
<1>0. DenseInv'
  BY NextDense DEF MassInv
<1>1. ASSUME NEW o \in Outcome, Iterate(o) PROVE MassInv'
  BY <1>0, <1>1, IterateMass
<1>2. CASE StartBbv
  <2> DEFINE zero == [id \in 0 .. BbvSize - 1 |-> 0]
  <2>1. /\ bbv_counts' = zero /\ phase' = "loop" /\ config' = config
        /\ bbv_file' = <<>> /\ interval_inst_count' = 0
        /\ finished_intervals' = 0 /\ closed_insts' = 0
    BY <1>2 DEF StartBbv, MassInv, histVars
  <2>2. /\ BbvSize \in Nat /\ zero \in [0 .. BbvSize - 1 -> Nat]
        /\ \A x \in 0 .. BbvSize - 1 : zero[x] = 0
    BY SimLoopAssumption
  <2> HIDE DEF zero
  <2>3. zero \in Vectors /\ Mass(zero) = 0
    <3>1. zero \in Vectors
      BY <2>2 DEF Vectors
    <3> QED
      BY <2>2, <3>1, FiniteVector, MassZero
  <2>4. FileOK(bbv_file)'
    <3> DEFINE none == Masses(bbv_file')
    <3>1. none \in [{} -> Nat] /\ \A x \in {} : none[x] = 0
      BY <2>1 DEF Masses
    <3>2. IsFiniteSet({})
      BY FS_EmptySet
    <3> HIDE DEF none
    <3>3. Mass(none) = 0
      BY <3>1, <3>2, MassZero
    <3>4. bbv_file' \in Seq({}) /\ Len(bbv_file') = 0
      BY <2>1
    <3> QED
      BY <2>1, <3>3, <3>4 DEF FileOK, none
  <2> QED
    BY <1>0, <2>1, <2>3, <2>4 DEF MassInv
<1>3. CASE StartNormal \/ StartCheckpoint \/ StartSpecial \/ StartRestore
  <2>1. config.mode # "GEN_BBV" /\ config' = config /\ phase' # "init"
    BY <1>3 DEF StartNormal, StartCheckpoint, StartSpecial, StartRestore
  <2> QED
    BY <1>0, <2>1 DEF MassInv
<1>4. CASE Leave \/ UNCHANGED vars
  <2>1. /\ UNCHANGED <<config, bbv_counts, bbv_file, interval_inst_count,
                       finished_intervals, closed_insts>>
        /\ phase' = "init" <=> phase = "init"
    BY <1>4 DEF Leave, Verdict, vars, bbvVars, histVars
  <2> QED
    BY <1>0, <2>1 DEF MassInv, FileOK
<1> QED
  BY <1>1, <1>2, <1>3, <1>4 DEF Next, Start

\* The vector holds exactly the interval under way, and the lines of the file
\* the intervals that are over, one each and none of them short, whatever
\* the program executes and however often the vector grows (bbv_commit,
\* dump_bbv, exec).
THEOREM MassConserved == Spec => []BbvMassConserved
<1>1. Init => MassInv
  <2> SUFFICES ASSUME Init PROVE MassInv
    OBVIOUS
  <2>1. DenseInv
    BY InitDense
  <2> QED
    BY <2>1 DEF Init, MassInv
<1>2. MassInv => BbvMassConserved
  <2> SUFFICES ASSUME MassInv, config.mode = "GEN_BBV", phase # "init"
               PROVE  /\ Mass(bbv_counts) = interval_inst_count
                      /\ config.bbv_opens => FileOK(bbv_file)
    BY DEF BbvMassConserved, FileOK, Masses, Mass
  <2> QED
    BY DEF MassInv
<1> QED
  BY <1>1, <1>2, NextMass, PTL DEF Spec

-----------------------------------------------------------------------------
(* The flow of two runs (SimPointFlow).  Both walk the same places: what   *)
(* the loop counts after n steps is a function of the first n outcomes of  *)
(* the trace, in either run.  The walk is an argument of the invariant, and*)
(* grows with the trace.                                                   *)

\* The intervals chosen are numbered one by one.
LEMMA Ranked ==
  ASSUME NEW n \in Nat, NEW T \in SUBSET (0 .. n - 1),
         NEW k \in 1 .. Cardinality(T)
  PROVE  \E i \in T : Cardinality({j \in T : j < i}) = k - 1
<1> DEFINE Below(i) == {j \in T : j < i}
           r == [i \in T |-> Cardinality(Below(i))]
           c == Cardinality(T)
<1>0. 0 \in Int /\ n - 1 \in Int /\ \A i \in T : i \in Int
  OBVIOUS
<1>1. IsFiniteSet(T) /\ c \in Nat
  <2>1. IsFiniteSet(0 .. n - 1)
    BY <1>0, FS_Interval
  <2> QED
    BY <2>1, FS_Subset, FS_CardinalityType
<1>2. ASSUME NEW i \in T
      PROVE  /\ IsFiniteSet(Below(i)) /\ Cardinality(Below(i)) \in Nat
             /\ Cardinality(Below(i)) \in 0 .. c - 1
  <2>1. IsFiniteSet(T \ {i}) /\ Cardinality(T \ {i}) = c - 1
    BY <1>1, FS_RemoveElement
  <2>2. Below(i) \subseteq T \ {i}
    OBVIOUS
  <2>3. /\ IsFiniteSet(Below(i))
        /\ Cardinality(Below(i)) <= Cardinality(T \ {i})
    BY <2>1, <2>2, FS_Subset
  <2>4. Cardinality(Below(i)) \in Nat
    BY <2>3, FS_CardinalityType
  <2> QED
    BY <1>1, <2>1, <2>3, <2>4
<1>3. ASSUME NEW i \in T, NEW j \in T, i < j
      PROVE  Cardinality(Below(i)) < Cardinality(Below(j))
  <2>1. /\ IsFiniteSet(Below(i) \cup {i})
        /\ Cardinality(Below(i) \cup {i}) = Cardinality(Below(i)) + 1
    <3>1. i \notin Below(i)
      OBVIOUS
    <3> QED
      BY <1>2, <3>1, FS_AddElement
  <2>2. Below(i) \cup {i} \subseteq Below(j)
    <3>1. \A m \in T : m < i => m < j
      BY <1>0, <1>3
    <3> QED
      BY <1>3, <3>1
  <2>3. Cardinality(Below(i) \cup {i}) <= Cardinality(Below(j))
    BY <1>2, <2>2, FS_Subset
  <2> QED
    BY <1>2, <2>1, <2>3
<1>4. r \in [T -> 0 .. c - 1] /\ \A i \in T : r[i] = Cardinality(Below(i))
  BY <1>2
<1>5. ASSUME NEW i \in T, NEW j \in T, r[i] = r[j] PROVE i = j
  <2>1. i < j \/ j < i \/ i = j
    OBVIOUS
  <2>2. /\ Cardinality(Below(i)) = Cardinality(Below(j))
        /\ Cardinality(Below(i)) \in Nat /\ Cardinality(Below(j)) \in Nat
    BY <1>2, <1>5
  <2> HIDE DEF Below
  <2> QED
    BY <1>3, <2>1, <2>2
<1>6. IsFiniteSet(0 .. c - 1) /\ Cardinality(0 .. c - 1) = c
  <2> HIDE DEF c
  <2>1. c - 1 \in Int
    BY <1>1
  <2>2. /\ IsFiniteSet(0 .. c - 1)
        /\ Cardinality(0 .. c - 1) = IF 0 > c - 1 THEN 0 ELSE (c - 1) - 0 + 1
    BY <1>0, <2>1, FS_Interval
  <2> QED
    BY <1>1, <2>2
<1>7. r \in Surjection(T, 0 .. c - 1)
  <2> HIDE DEF r, c, Below
  <2>1. r \in Injection(T, 0 .. c - 1)
    BY <1>4, <1>5 DEF Injection, IsInjective
  <2> QED
    BY <1>6, <2>1, FS_Injection DEF c
<1>8. k - 1 \in 0 .. c - 1
  BY <1>1
<1>9. PICK i \in T : r[i] = k - 1
  BY <1>7, <1>8, Zenon DEF Surjection
<1> QED
  BY <1>4, <1>9

\* The points file of a choice names intervals of the BBV file.
LEMMA PointsInFile ==
  ASSUME NEW n \in Nat, NEW chosen \in SUBSET (0 .. n - 1)
  PROVE  DOMAIN LoadSimpoints(Points(chosen)) \subseteq 0 .. n - 1
<1>1. \A k \in 1 .. Cardinality(chosen) :
        (CHOOSE i \in chosen : Cardinality({j \in chosen : j < i}) = k - 1)
          \in chosen
  BY Ranked
<1>2. \A k \in DOMAIN Points(chosen) : Points(chosen)[k][1] \in chosen
  BY <1>1 DEF Points
<1> QED
  BY <1>2 DEF LoadSimpoints

UserAt(tr, n) == n > 0 /\ tr[n].user

Place     == [len : Nat, count : Nat, interval : Nat]
BootPlace == [len |-> 0, count |-> 0, interval |-> 0]

\* What the loop makes of place p, reached in n steps, with the outcome that
\* comes next in the trace.
LenAt(tr, n, p) == IF UserAt(tr, n) THEN p.len + 1 ELSE p.len
ClosesAt(tr, n) == tr[n + 1].user /\ tr[n + 1].br
CountAt(tr, n, p) ==
  IF ClosesAt(tr, n) THEN p.count + LenAt(tr, n, p) ELSE p.count
FullAt(tr, n, p) == CountAt(tr, n, p) >= IntervalSize
NextPlace(tr, n, p) ==
  [len      |-> IF ClosesAt(tr, n) THEN 0 ELSE LenAt(tr, n, p),
   count    |-> IF FullAt(tr, n, p) THEN 0 ELSE CountAt(tr, n, p),
   interval |-> IF FullAt(tr, n, p) THEN p.interval + 1 ELSE p.interval]

\* h is the walk of the N outcomes that did not end the program; one that
\* did may follow them.
Walk(tr, h, N) ==
  /\ tr \in Seq(Outcome)
  /\ N <= Len(tr) /\ Len(tr) <= N + 1
  /\ Len(tr) = N + 1 => tr[N + 1].end
  /\ \A n \in 1 .. N : ~tr[n].end
  /\ h \in [0 .. N -> Place]
  /\ h[0] = BootPlace
  /\ \A n \in 0 .. N - 1 : h[n + 1] = NextPlace(tr, n, h[n])
  /\ \A m, n \in 0 .. N : m <= n => h[m].interval <= h[n].interval

\* Interval k begins with the step after n.
Begins(h, n, k) == h[n].interval = k /\ h[n - 1].interval = k - 1

StartsIn(st, h, N) ==
  /\ st \in Seq(Nat) /\ Len(st) = h[N].interval + 1
  /\ \A k \in 1 .. h[N].interval :
       st[k + 1] \in 1 .. N /\ Begins(h, st[k + 1], k)

Here(h) == /\ user <=> UserAt(trace, sim_time)
           /\ current_bb_len = h[sim_time].len
           /\ interval_inst_count = h[sim_time].count

BbvRun(N) ==
  /\ config = FlowConfig("GEN_BBV", <<>>)
  /\ sim_time = N
  /\ phase \in {"init", "loop"} => Len(trace) = N
  /\ (\E S : bbv_file \in Seq(S)) /\ Len(bbv_file) = finished_intervals

Over == phase \in {"finished", "failed"}

Placed(h, N, c) ==
  \/ c.target = 0 /\ c.at = 0
  \/ c.target >= 2 /\ c.at \in 1 .. N /\ Begins(h, c.at, c.target - 1)

CkptRun(h, N) ==
  /\ config.mode = "GEN_CHECKPOINT" /\ config.max_insts = 0
  /\ DOMAIN LoadSimpoints(config.points) \subseteq 0 .. h[N].interval - 1
  /\ ckpts \in Seq(Checkpoint)
  /\ \A i \in DOMAIN ckpts : Placed(h, N, ckpts[i])
  /\ phase = "init" => sim_time = 0 /\ ~sim_end
  /\ phase # "init" =>
       /\ target_intervals = LoadSimpoints(config.points)
       /\ Served(ckpts) = {t \in Picked :
                             t = 0 \/ (t >= 2 /\ t <= finished_intervals + 1)}
  /\ Over \/ (phase = "loop" /\ sim_end) =>
       \A t \in Picked : t <= finished_intervals + 1

FlowAt(h, N) ==
  /\ N \in Nat /\ N <= MaxSimTime
  /\ Walk(trace, h, N) /\ StartsIn(starts, h, N)
  /\ phase \in Phases
  /\ sim_time \in 0 .. N /\ finished_intervals = h[sim_time].interval
  /\ phase \in {"init", "loop"} => Here(h)
  /\ \/ run = "bbv" /\ BbvRun(N)
     \/ run = "ckpt" /\ CkptRun(h, N)

FlowInv == \E h, N : FlowAt(h, N)

\* One iteration of either run, as far as the flow is concerned.
LEMMA FlowIterate ==
  ASSUME NEW o \in Outcome, Iterate(o), config.max_insts = 0,
         config.mode \in {"GEN_BBV", "GEN_CHECKPOINT"}
  PROVE  /\ phase = "loop" /\ ~sim_end /\ sim_time < MaxSimTime
         /\ config' = config /\ target_intervals' = target_intervals
         /\ o.end => /\ phase' \in {"finished", "failed"}
                     /\ UNCHANGED <<sim_time, finished_intervals, ckpts,
                                    bbv_file>>
         /\ ~o.end =>
              /\ phase' = "loop" /\ sim_time' = sim_time + 1
              /\ user' <=> o.user
              /\ current_bb_len' = IF Closes(o) THEN 0 ELSE BlockLength
              /\ interval_inst_count' = IF Full(o) THEN 0 ELSE Count(o)
              /\ finished_intervals' = IF Full(o) THEN finished_intervals + 1
                                       ELSE finished_intervals
              /\ config.mode = "GEN_BBV" =>
                   IF Full(o) THEN BbvBoundary(o) ELSE bbv_file' = bbv_file
              /\ config.mode = "GEN_CHECKPOINT" =>
                   IF Full(o) THEN CheckpointBoundary(o)
                   ELSE ckpts' = ckpts /\ sim_end' = sim_end
<1>1. CASE Halt(o)
  BY <1>1 DEF Halt, Execute, Verdict, pointVars, bbvVars
<1>2. CASE WithinInterval(o)
  BY <1>2 DEF WithinInterval, Retire, Execute, MeetSpecialTarget
<1>3. CASE BbvBoundary(o)
  BY <1>3 DEF BbvBoundary, AtBoundary, Retire, Execute
<1>4. CASE CheckpointBoundary(o)
  BY <1>4 DEF CheckpointBoundary, AtBoundary, Retire, Execute
<1>5. ~StopAtLimit(o) /\ ~PlainBoundary(o)
  BY DEF StopAtLimit, LimitReached, PlainBoundary
<1> QED
  BY <1>1, <1>2, <1>3, <1>4, <1>5 DEF Iterate

\* The next place is a place, no earlier than the one before.
LEMMA NextPlaceType ==
  ASSUME NEW tr, NEW n, NEW p \in Place
  PROVE  /\ NextPlace(tr, n, p) \in Place
         /\ NextPlace(tr, n, p).interval >= p.interval
<1>1. LenAt(tr, n, p) \in Nat /\ CountAt(tr, n, p) \in Nat
  BY DEF Place, LenAt, CountAt
<1> QED
  BY <1>1 DEF NextPlace, Place

\* A longer trace has the walk of the shorter one in it.
Prolongs(u, tr, o, h, N) ==
  /\ u \in Seq(Outcome) /\ Len(u) = N + 1
  /\ u[N + 1] = o
  /\ \A n \in 1 .. N : u[n] = tr[n]
  /\ \A n \in 0 .. N : UserAt(u, n) <=> UserAt(tr, n)
  /\ \A n \in 0 .. N - 1 : NextPlace(u, n, h[n]) = h[n + 1]

LEMMA TraceGrows ==
  ASSUME NEW tr, NEW h, NEW N \in Nat, Walk(tr, h, N), Len(tr) = N,
         NEW o \in Outcome
  PROVE  Prolongs(Append(tr, o), tr, o, h, N)
<1> DEFINE u == Append(tr, o)
<1>1. /\ u \in Seq(Outcome) /\ Len(u) = N + 1
      /\ u[N + 1] = o
      /\ \A n \in 1 .. N : u[n] = tr[n]
  BY DEF Walk
<1> HIDE DEF u
<1>2. \A n \in 0 .. N : UserAt(u, n) <=> UserAt(tr, n)
  BY <1>1 DEF UserAt
<1>3. ASSUME NEW n \in 0 .. N - 1 PROVE NextPlace(u, n, h[n]) = h[n + 1]
  <2>1. u[n + 1] = tr[n + 1] /\ n \in 0 .. N
    BY <1>1
  <2>2. /\ UserAt(u, n) <=> UserAt(tr, n)
        /\ ClosesAt(u, n) <=> ClosesAt(tr, n)
    BY <1>2, <2>1 DEF ClosesAt
  <2>3. /\ LenAt(u, n, h[n]) = LenAt(tr, n, h[n])
        /\ CountAt(u, n, h[n]) = CountAt(tr, n, h[n])
    BY <2>2 DEF LenAt, CountAt
  <2>4. NextPlace(u, n, h[n]) = NextPlace(tr, n, h[n])
    BY <2>2, <2>3 DEF NextPlace, FullAt
  <2> QED
    BY <2>4 DEF Walk
<1>4. Prolongs(u, tr, o, h, N)
  BY <1>1, <1>2, <1>3 DEF Prolongs
<1> QED
  BY <1>4 DEF u

\* The program ended with the last outcome: the walk is what it was.
LEMMA WalkEnds ==
  ASSUME NEW tr, NEW h, NEW N \in Nat, Walk(tr, h, N), Len(tr) = N,
         NEW o \in Outcome, o.end
  PROVE  Walk(Append(tr, o), h, N)
<1> DEFINE u == Append(tr, o)
<1>1. /\ u \in Seq(Outcome) /\ Len(u) = N + 1
      /\ u[N + 1] = o
      /\ \A n \in 1 .. N : u[n] = tr[n]
      /\ \A n \in 0 .. N - 1 : NextPlace(u, n, h[n]) = h[n + 1]
  BY TraceGrows DEF Prolongs
<1> HIDE DEF u
<1>2. Walk(u, h, N)
  BY <1>1 DEF Walk
<1> QED
  BY <1>2 DEF u

\* It did not: the walk goes on to the place that the outcome leads to.
Extend(h, N, p) == [n \in 0 .. N + 1 |-> IF n = N + 1 THEN p ELSE h[n]]

LEMMA ExtendIs ==
  ASSUME NEW h, NEW N \in Nat, NEW p
  PROVE  /\ \A n \in 0 .. N : Extend(h, N, p)[n] = h[n]
         /\ Extend(h, N, p)[N + 1] = p
BY DEF Extend

LEMMA WalkGoesOn ==
  ASSUME NEW tr, NEW h, NEW N \in Nat, Walk(tr, h, N), Len(tr) = N,
         NEW o \in Outcome, NEW u, u = Append(tr, o), ~o.end,
         NEW p, p = NextPlace(u, N, h[N])
  PROVE  Walk(u, Extend(h, N, p), N + 1)
<1> DEFINE g == Extend(h, N, p)
<1>1. /\ u \in Seq(Outcome) /\ Len(u) = N + 1
      /\ u[N + 1] = o
      /\ \A n \in 1 .. N : u[n] = tr[n]
      /\ \A n \in 0 .. N - 1 : NextPlace(u, n, h[n]) = h[n + 1]
  BY TraceGrows DEF Prolongs
<1>2. /\ \A n \in 0 .. N : g[n] = h[n] /\ h[n] \in Place
      /\ g[N + 1] = p
  BY ExtendIs DEF Walk
<1>3. p \in Place /\ p.interval >= h[N].interval
  <2>1. h[N] \in Place
    BY <1>2
  <2> QED
    BY <2>1, NextPlaceType
<1>4. g \in [0 .. N + 1 -> Place]
  <2>1. \A n \in 0 .. N + 1 : n # N + 1 => h[n] \in Place
    BY <1>2
  <2> QED
    BY <1>3, <2>1 DEF Extend
<1> HIDE DEF g
<1>5. ASSUME NEW n \in 0 .. (N + 1) - 1
      PROVE  g[n + 1] = NextPlace(u, n, g[n])
  <2>1. CASE n \in 0 .. N - 1
    <3>1. g[n] = h[n] /\ g[n + 1] = h[n + 1]
      BY <1>2, <2>1
    <3> QED
      BY <1>1, <2>1, <3>1
  <2>2. CASE n = N
    <3>1. g[n] = h[n] /\ g[n + 1] = p
      BY <1>2, <2>2
    <3> QED
      BY <2>2, <3>1
  <2> QED
    BY <2>1, <2>2
<1>6. ASSUME NEW m \in 0 .. N + 1, NEW n \in 0 .. N + 1, m <= n
      PROVE  g[m].interval <= g[n].interval
  <2>1. \A i \in 0 .. N + 1 : g[i].interval \in Nat
    BY <1>4 DEF Place
  <2>2. CASE n \in 0 .. N
    BY <1>2, <1>6, <2>2 DEF Walk
  <2>3. CASE n = N + 1 /\ m = N + 1
    BY <2>1, <2>3
  <2>4. CASE n = N + 1 /\ m \in 0 .. N
    <3>1. N \in 0 .. N /\ N + 1 \in 0 .. N + 1 /\ N \in 0 .. N + 1
      OBVIOUS
    <3>2. g[m].interval <= g[N].interval
      BY <1>2, <2>4, <3>1 DEF Walk
    <3>3. g[N].interval <= g[N + 1].interval
      BY <1>2, <1>3, <3>1, <2>1
    <3>4. /\ g[m].interval \in Nat /\ g[N].interval \in Nat
          /\ g[N + 1].interval \in Nat
      BY <2>1, <3>1
    <3> QED
      BY <2>4, <3>2, <3>3, <3>4
  <2> QED
    BY <2>2, <2>3, <2>4
<1>7. g[0] = BootPlace
  BY <1>2 DEF Walk
<1>8. \A n \in 1 .. N + 1 : ~u[n].end
  BY <1>1 DEF Walk
<1>9. N + 1 <= Len(u) /\ Len(u) <= (N + 1) + 1 /\ Len(u) # (N + 1) + 1
  BY <1>1
<1>10. Walk(u, g, N + 1)
  BY <1>1, <1>4, <1>5, <1>6, <1>7, <1>8, <1>9 DEF Walk
<1> QED
  BY <1>10 DEF g

\* What the loop counts with the next outcome is what the walk does with it.
LEMMA StepIsNext ==
  ASSUME NEW tr, NEW n \in Nat, NEW p \in Place, NEW o, tr[n + 1] = o,
         user <=> UserAt(tr, n), current_bb_len = p.len,
         interval_inst_count = p.count
  PROVE  /\ NextPlace(tr, n, p).len =
              (IF Closes(o) THEN 0 ELSE BlockLength)
         /\ NextPlace(tr, n, p).count = (IF Full(o) THEN 0 ELSE Count(o))
         /\ NextPlace(tr, n, p).interval =
              (IF Full(o) THEN p.interval + 1 ELSE p.interval)
<1>1. BlockLength = LenAt(tr, n, p)
  BY DEF BlockLength, LenAt
<1>2. Closes(o) <=> ClosesAt(tr, n)
  BY DEF Closes, ClosesAt
<1>3. Count(o) = CountAt(tr, n, p)
  BY <1>1, <1>2 DEF Count, CountAt
<1>4. Full(o) <=> FullAt(tr, n, p)
  BY <1>3 DEF Full, FullAt
<1> QED
  BY <1>1, <1>2, <1>3, <1>4 DEF NextPlace

\* A new interval is recorded where it begins.
LEMMA StartRecorded ==
  ASSUME NEW h, NEW N \in Nat, h \in [0 .. N -> Place], NEW p \in Place,
         NEW st, StartsIn(st, h, N), NEW nst,
         \/ p.interval = h[N].interval /\ nst = st
         \/ p.interval = h[N].interval + 1 /\ nst = Append(st, N + 1)
  PROVE  StartsIn(nst, Extend(h, N, p), N + 1)
<1> DEFINE g == Extend(h, N, p)
<1>1. (\A n \in 0 .. N : g[n] = h[n]) /\ g[N + 1] = p
  BY ExtendIs
<1> HIDE DEF g
<1>2. h[N] \in Place /\ h[N].interval \in Nat /\ N + 1 \in Nat
  BY DEF Place
<1>3. /\ st \in Seq(Nat) /\ Len(st) = h[N].interval + 1
      /\ \A k \in 1 .. h[N].interval :
           st[k + 1] \in 1 .. N /\ Begins(h, st[k + 1], k)
  BY DEF StartsIn
<1>4. ASSUME NEW k \in 1 .. h[N].interval
      PROVE  st[k + 1] \in 1 .. N + 1 /\ Begins(g, st[k + 1], k)
  <2>1. st[k + 1] \in 1 .. N /\ Begins(h, st[k + 1], k)
    BY <1>3
  <2>2. st[k + 1] \in 0 .. N /\ st[k + 1] - 1 \in 0 .. N
    BY <2>1
  <2> QED
    BY <1>1, <2>1, <2>2 DEF Begins
<1>5. CASE p.interval = h[N].interval /\ nst = st
  BY <1>1, <1>3, <1>4, <1>5 DEF StartsIn, g
<1>6. CASE p.interval = h[N].interval + 1 /\ nst = Append(st, N + 1)
  <2>1. /\ nst \in Seq(Nat) /\ Len(nst) = p.interval + 1
        /\ nst[p.interval + 1] = N + 1
        /\ \A k \in 1 .. h[N].interval : nst[k + 1] = st[k + 1]
    BY <1>2, <1>3, <1>6
  <2>2. Begins(g, N + 1, p.interval)
    BY <1>1, <1>2, <1>6 DEF Begins
  <2>3. ASSUME NEW k \in 1 .. p.interval
        PROVE  nst[k + 1] \in 1 .. N + 1 /\ Begins(g, nst[k + 1], k)
    <3>1. CASE k \in 1 .. h[N].interval
      BY <1>4, <2>1, <3>1
    <3>2. CASE k = p.interval
      BY <2>1, <2>2, <3>2
    <3>3. k \in 1 .. h[N].interval \/ k = p.interval
      BY <1>2, <1>6
    <3> QED
      BY <3>1, <3>2, <3>3
  <2> QED
    BY <1>1, <2>1, <2>3 DEF StartsIn, g
<1> QED
  BY <1>5, <1>6

\* What a step of the GEN_BBV run changes.
LEMMA BbvChanges ==
  ASSUME NEW h, NEW N, FlowAt(h, N), NEW o \in Outcome, BbvStep(o)
  PROVE  /\ run = "bbv" /\ run' = "bbv" /\ phase = "loop" /\ Here(h)
         /\ sim_time = N /\ N + 1 <= MaxSimTime /\ Len(trace) = N
         /\ finished_intervals = h[N].interval
         /\ config = FlowConfig("GEN_BBV", <<>>) /\ config' = config
         /\ trace' = Append(trace, o)
         /\ o.end => /\ phase' \in {"finished", "failed"}
                     /\ sim_time' = N /\ bbv_file' = bbv_file
                     /\ finished_intervals' = finished_intervals
         /\ ~o.end =>
              /\ phase' = "loop" /\ sim_time' = N + 1
              /\ user' <=> o.user
              /\ current_bb_len' = IF Closes(o) THEN 0 ELSE BlockLength
              /\ interval_inst_count' = IF Full(o) THEN 0 ELSE Count(o)
              /\ finished_intervals' = IF Full(o) THEN finished_intervals + 1
                                       ELSE finished_intervals
              /\ bbv_file' = IF Full(o)
                             THEN Append(bbv_file, Line(Counted(o)))
                             ELSE bbv_file
         /\ starts' = IF finished_intervals' > finished_intervals
                      THEN Append(starts, sim_time') ELSE starts
<1>1. /\ run = "bbv" /\ run' = "bbv" /\ Iterate(o)
      /\ trace' = Append(trace, o)
      /\ starts' = IF finished_intervals' > finished_intervals
                   THEN Append(starts, sim_time') ELSE starts
  BY DEF BbvStep
<1>2. /\ N \in Nat /\ BbvRun(N) /\ finished_intervals = h[sim_time].interval
      /\ phase \in {"init", "loop"} => Here(h)
  BY <1>1 DEF FlowAt
<1>3. /\ config = FlowConfig("GEN_BBV", <<>>) /\ sim_time = N
      /\ phase \in {"init", "loop"} => Len(trace) = N
  BY <1>2 DEF BbvRun
<1>4. config.mode = "GEN_BBV" /\ config.max_insts = 0 /\ config.bbv_opens
  BY <1>3 DEF FlowConfig
<1>5. /\ phase = "loop" /\ ~sim_end /\ sim_time < MaxSimTime
      /\ config' = config
      /\ o.end => /\ phase' \in {"finished", "failed"}
                  /\ UNCHANGED <<sim_time, finished_intervals, bbv_file>>
      /\ ~o.end =>
           /\ phase' = "loop" /\ sim_time' = sim_time + 1
           /\ user' <=> o.user
           /\ current_bb_len' = IF Closes(o) THEN 0 ELSE BlockLength
           /\ interval_inst_count' = IF Full(o) THEN 0 ELSE Count(o)
           /\ finished_intervals' = IF Full(o) THEN finished_intervals + 1
                                    ELSE finished_intervals
           /\ IF Full(o) THEN BbvBoundary(o) ELSE bbv_file' = bbv_file
  BY <1>1, <1>4, FlowIterate
<1>6. ~o.end => bbv_file' = IF Full(o)
                            THEN Append(bbv_file, Line(Counted(o)))
                            ELSE bbv_file
  BY <1>4, <1>5 DEF BbvBoundary
<1>7. N + 1 <= MaxSimTime
  BY <1>2, <1>3, <1>5, SimLoopAssumption
<1> QED
  BY <1>1, <1>2, <1>3, <1>5, <1>6, <1>7

\* The program ends, or its walk goes on by a place.
LEMMA BbvEnds ==
  ASSUME NEW h, NEW N, FlowAt(h, N), NEW o \in Outcome, BbvStep(o), o.end
  PROVE  FlowAt(h, N)'
<1>1. /\ N \in Nat /\ N <= MaxSimTime
      /\ Walk(trace, h, N) /\ StartsIn(starts, h, N)
      /\ finished_intervals = h[sim_time].interval
  BY DEF FlowAt
<1>2. /\ run' = "bbv" /\ sim_time = N /\ sim_time' = N
      /\ finished_intervals' = finished_intervals
      /\ phase' \in {"finished", "failed"} /\ bbv_file' = bbv_file
      /\ config' = FlowConfig("GEN_BBV", <<>>) /\ Len(trace) = N
      /\ trace' = Append(trace, o)
      /\ starts' = IF finished_intervals' > finished_intervals
                   THEN Append(starts, sim_time') ELSE starts
  BY BbvChanges
<1>3. Walk(trace', h, N)
  BY <1>1, <1>2, WalkEnds
<1>4. finished_intervals \in Nat
  BY <1>1, <1>2 DEF Walk, Place
<1>5. StartsIn(starts', h, N)
  BY <1>1, <1>2, <1>4
<1>6. (\E S : bbv_file \in Seq(S)) /\ Len(bbv_file) = finished_intervals
  <2>1. run = "bbv"
    BY BbvChanges
  <2> QED
    BY <2>1 DEF FlowAt, BbvRun
<1>7. BbvRun(N)'
  BY <1>2, <1>6 DEF BbvRun
<1> QED
  BY <1>1, <1>2, <1>3, <1>5, <1>7 DEF FlowAt, Phases

LEMMA BbvGoesOn ==
  ASSUME NEW h, NEW N, FlowAt(h, N), NEW o \in Outcome, BbvStep(o), ~o.end
  PROVE  FlowInv'
<1>a. PICK p : p = NextPlace(Append(trace, o), N, h[N])
  OBVIOUS
<1>b. PICK g : g = Extend(h, N, p)
  OBVIOUS
<1>1. /\ N \in Nat /\ Walk(trace, h, N) /\ StartsIn(starts, h, N)
      /\ finished_intervals = h[sim_time].interval
  BY DEF FlowAt
<1>2. /\ run = "bbv" /\ run' = "bbv" /\ phase' = "loop" /\ Here(h)
      /\ sim_time = N /\ sim_time' = N + 1 /\ N + 1 <= MaxSimTime
      /\ config' = FlowConfig("GEN_BBV", <<>>)
      /\ Len(trace) = N /\ trace' = Append(trace, o)
  BY BbvChanges
<1>3. /\ user' <=> o.user
      /\ current_bb_len' = IF Closes(o) THEN 0 ELSE BlockLength
      /\ interval_inst_count' = IF Full(o) THEN 0 ELSE Count(o)
      /\ finished_intervals' = IF Full(o) THEN finished_intervals + 1
                               ELSE finished_intervals
      /\ bbv_file' = IF Full(o) THEN Append(bbv_file, Line(Counted(o)))
                     ELSE bbv_file
      /\ starts' = IF finished_intervals' > finished_intervals
                   THEN Append(starts, sim_time') ELSE starts
  BY BbvChanges
<1>4. Prolongs(trace', trace, o, h, N)
  BY <1>1, <1>2, TraceGrows
<1>5. h[N] \in Place /\ h[N].interval \in Nat /\ h \in [0 .. N -> Place]
  BY <1>1 DEF Walk, Place
<1>6. trace'[N + 1] = o /\ (UserAt(trace', N) <=> UserAt(trace, N))
  BY <1>1, <1>4 DEF Prolongs
<1>7. /\ p.len = (IF Closes(o) THEN 0 ELSE BlockLength)
      /\ p.count = (IF Full(o) THEN 0 ELSE Count(o))
      /\ p.interval = (IF Full(o) THEN h[N].interval + 1 ELSE h[N].interval)
  <2>1. /\ user <=> UserAt(trace', N)
        /\ current_bb_len = h[N].len /\ interval_inst_count = h[N].count
    BY <1>2, <1>6 DEF Here
  <2>2. /\ NextPlace(trace', N, h[N]).len =
             (IF Closes(o) THEN 0 ELSE BlockLength)
        /\ NextPlace(trace', N, h[N]).count = (IF Full(o) THEN 0 ELSE Count(o))
        /\ NextPlace(trace', N, h[N]).interval =
             (IF Full(o) THEN h[N].interval + 1 ELSE h[N].interval)
    BY <1>1, <1>5, <1>6, <2>1, StepIsNext
  <2> QED
    BY <1>2, <1>a, <2>2
<1>8. p \in Place
  BY <1>5, <1>a, NextPlaceType
<1>9. Walk(trace', g, N + 1)
  BY <1>1, <1>2, <1>a, <1>b, WalkGoesOn
<1>10. (\A n \in 0 .. N : g[n] = h[n]) /\ g[N + 1] = p
  BY <1>1, <1>b, ExtendIs
<1>11. StartsIn(starts', g, N + 1)
  <2>1. \/ p.interval = h[N].interval /\ starts' = starts
        \/ p.interval = h[N].interval + 1 /\ starts' = Append(starts, N + 1)
    BY <1>1, <1>2, <1>3, <1>5, <1>7
  <2> QED
    BY <1>1, <1>5, <1>8, <1>b, <2>1, StartRecorded
<1>12. finished_intervals' = g[sim_time'].interval
  BY <1>1, <1>2, <1>3, <1>7, <1>10
<1>13. Here(g)'
  <2>1. UserAt(trace', N + 1) <=> o.user
    BY <1>1, <1>6 DEF UserAt
  <2> QED
    BY <1>2, <1>3, <1>7, <1>10, <2>1 DEF Here
<1>14. /\ \E S : bbv_file' \in Seq(S)
       /\ Len(bbv_file') = finished_intervals'
  <2>1. (\E S : bbv_file \in Seq(S)) /\ Len(bbv_file) = finished_intervals
    BY <1>2 DEF FlowAt, BbvRun
  <2>2. PICK S : bbv_file \in Seq(S)
    BY <2>1
  <2> DEFINE L == Line(Counted(o))
  <2> HIDE DEF L
  <2>3. bbv_file \in Seq(S \cup {L}) /\ L \in S \cup {L}
    BY <2>2
  <2>4. /\ Append(bbv_file, L) \in Seq(S \cup {L})
        /\ Len(Append(bbv_file, L)) = Len(bbv_file) + 1
    BY <2>3
  <2> QED
    BY <1>3, <2>1, <2>2, <2>4 DEF L
<1>15. Len(trace') = N + 1
  BY <1>4 DEF Prolongs
<1>16. BbvRun(N + 1)'
  BY <1>2, <1>14, <1>15 DEF BbvRun
<1>17. FlowAt(g, N + 1)'
  BY <1>1, <1>2, <1>9, <1>11, <1>12, <1>13, <1>16 DEF FlowAt, Phases
<1> QED
  BY <1>17 DEF FlowInv

\* Where the GEN_CHECKPOINT run is before a step.
LEMMA CkptBefore ==
  ASSUME NEW h, NEW N, FlowAt(h, N), CkptStep, NEW n, n = sim_time,
         NEW o, o = trace[n + 1]
  PROVE  /\ N \in Nat /\ n \in 0 .. N /\ o \in Outcome
         /\ Iterate(o) /\ run = "ckpt" /\ CkptRun(h, N) /\ Here(h)
         /\ Walk(trace, h, N) /\ h \in [0 .. N -> Place]
         /\ finished_intervals = h[n].interval
         /\ o.end => n = N
         /\ ~o.end => n \in 0 .. N - 1 /\ h[n + 1] = NextPlace(trace, n, h[n])
<1>1. /\ run = "ckpt" /\ sim_time < Len(trace) /\ Iterate(o)
  BY DEF CkptStep
<1>2. /\ N \in Nat /\ sim_time \in 0 .. N /\ Walk(trace, h, N)
      /\ finished_intervals = h[sim_time].interval /\ CkptRun(h, N)
      /\ phase \in {"init", "loop"} => Here(h)
  BY <1>1 DEF FlowAt
<1>3. /\ trace \in Seq(Outcome) /\ h \in [0 .. N -> Place]
      /\ Len(trace) <= N + 1
      /\ Len(trace) = N + 1 => trace[N + 1].end
      /\ \A i \in 1 .. N : ~trace[i].end
      /\ \A i \in 0 .. N - 1 : h[i + 1] = NextPlace(trace, i, h[i])
  BY <1>2 DEF Walk
<1>4. Len(trace) \in Nat
  BY <1>3
<1>5. n + 1 \in 1 .. Len(trace) /\ o \in Outcome
  BY <1>1, <1>2, <1>3, <1>4
<1>6. phase = "loop"
  <2>1. config.mode = "GEN_CHECKPOINT" /\ config.max_insts = 0
    BY <1>2 DEF CkptRun
  <2> QED
    BY <1>1, <1>5, <2>1, FlowIterate
<1>7. o.end => n = N
  BY <1>2, <1>3, <1>5
<1>8. ~o.end => n \in 0 .. N - 1
  <2>1. n = N => Len(trace) = N + 1
    BY <1>2, <1>3, <1>4, <1>5
  <2> QED
    BY <1>2, <1>3, <2>1
<1> QED
  BY <1>1, <1>2, <1>3, <1>5, <1>6, <1>7, <1>8

\* What a step of it changes.
LEMMA CkptChanges ==
  ASSUME NEW h, NEW N, FlowAt(h, N), CkptStep, NEW n, n = sim_time,
         NEW o, o = trace[n + 1]
  PROVE  /\ phase = "loop" /\ ~sim_end
         /\ run' = run /\ config' = config
         /\ trace' = trace /\ starts' = starts
         /\ target_intervals' = target_intervals
         /\ o.end => /\ phase' \in {"finished", "failed"}
                     /\ UNCHANGED <<sim_time, finished_intervals, ckpts>>
         /\ ~o.end =>
              /\ phase' = "loop" /\ sim_time' = n + 1
              /\ user' <=> o.user
              /\ current_bb_len' = h[n + 1].len
              /\ interval_inst_count' = h[n + 1].count
              /\ finished_intervals' = h[n + 1].interval
              /\ Count(o) \in Nat
              /\ IF Full(o)
                 THEN h[n + 1].interval = h[n].interval + 1
                      /\ CheckpointBoundary(o)
                 ELSE /\ h[n + 1].interval = h[n].interval
                      /\ ckpts' = ckpts /\ sim_end' = sim_end
<1>1. /\ N \in Nat /\ n \in 0 .. N /\ o \in Outcome
      /\ Iterate(o) /\ run = "ckpt" /\ CkptRun(h, N) /\ Here(h)
      /\ h \in [0 .. N -> Place]
      /\ finished_intervals = h[n].interval
      /\ ~o.end => n \in 0 .. N - 1 /\ h[n + 1] = NextPlace(trace, n, h[n])
  BY CkptBefore
<1>2. /\ config.mode = "GEN_CHECKPOINT" /\ config.max_insts = 0
  BY <1>1 DEF CkptRun
<1>3. /\ phase = "loop" /\ ~sim_end
      /\ config' = config /\ target_intervals' = target_intervals
      /\ o.end => /\ phase' \in {"finished", "failed"}
                  /\ UNCHANGED <<sim_time, finished_intervals, ckpts>>
      /\ ~o.end =>
           /\ phase' = "loop" /\ sim_time' = sim_time + 1
           /\ user' <=> o.user
           /\ current_bb_len' = IF Closes(o) THEN 0 ELSE BlockLength
           /\ interval_inst_count' = IF Full(o) THEN 0 ELSE Count(o)
           /\ finished_intervals' = IF Full(o) THEN finished_intervals + 1
                                    ELSE finished_intervals
           /\ IF Full(o) THEN CheckpointBoundary(o)
              ELSE ckpts' = ckpts /\ sim_end' = sim_end
  BY <1>1, <1>2, FlowIterate
<1>4. run' = run /\ trace' = trace /\ starts' = starts
  BY DEF CkptStep, flowVars
<1>5. /\ user <=> UserAt(trace, n)
      /\ current_bb_len = h[n].len /\ interval_inst_count = h[n].count
  BY <1>1 DEF Here
<1>6. h[n] \in Place /\ n \in Nat
  BY <1>1
<1>7. Count(o) \in Nat
  BY <1>5, <1>6 DEF Count, BlockLength, Place
<1>8. /\ NextPlace(trace, n, h[n]).len =
           (IF Closes(o) THEN 0 ELSE BlockLength)
      /\ NextPlace(trace, n, h[n]).count = (IF Full(o) THEN 0 ELSE Count(o))
      /\ NextPlace(trace, n, h[n]).interval =
           (IF Full(o) THEN h[n].interval + 1 ELSE h[n].interval)
  BY <1>5, <1>6, StepIsNext
<1> QED
  BY <1>1, <1>3, <1>4, <1>7, <1>8

\* Targets have their checkpoint from the boundary on that warms them up.
SavedBy(T, m) == {t \in T : t = 0 \/ (t >= 2 /\ t <= m + 1)}

LEMMA SavedByNext ==
  ASSUME NEW T \in SUBSET Nat, NEW m \in Nat
  PROVE  SavedBy(T, m + 1) = SavedBy(T, m) \cup (T \cap {m + 2})
<1>1. \A t \in T : t \in Nat
  OBVIOUS
<1>2. \A t \in T : t = 0 \/ (t >= 2 /\ t <= (m + 1) + 1)
                     <=> t = 0 \/ (t >= 2 /\ t <= m + 1) \/ t = m + 2
  BY <1>1
<1> QED
  BY <1>2 DEF SavedBy

\* A boundary of the GEN_CHECKPOINT run saves the target that it warms up.
LEMMA BoundarySaves ==
  ASSUME NEW h, NEW N \in Nat, h \in [0 .. N -> Place],
         NEW n \in 0 .. N - 1, NEW m, m = h[n].interval,
         h[n + 1].interval = m + 1, finished_intervals = m,
         ckpts \in Seq(Checkpoint), sim_time' = n + 1,
         \A i \in DOMAIN ckpts : Placed(h, N, ckpts[i]),
         Picked \subseteq Nat, Served(ckpts) = SavedBy(Picked, m),
         NEW o, Count(o) \in Nat, CheckpointBoundary(o)
  PROVE  /\ ckpts' \in Seq(Checkpoint)
         /\ \A i \in DOMAIN ckpts' : Placed(h, N, ckpts'[i])
         /\ Served(ckpts') = SavedBy(Picked, m + 1)
         /\ sim_end' => \A t \in Picked : t <= m + 2
<1> DEFINE c == Ckpt("warmup1", m + 2, n + 1, Count(o))
<1>1. /\ ckpts' = IF m + 2 \in Picked THEN Append(ckpts, c) ELSE ckpts
      /\ sim_end' = (m + 2 \in Picked /\ NoneAfter(m + 2))
  BY DEF CheckpointBoundary, TargetId, Picked
<1>2. m \in Nat
  BY DEF Place
<1>3. c \in Checkpoint /\ c.target = m + 2 /\ c.at = n + 1
  BY <1>2 DEF Ckpt, Checkpoint
<1> HIDE DEF c
<1>4. Placed(h, N, c)
  <2>1. (n + 1) - 1 = n /\ (m + 2) - 1 = m + 1 /\ (m + 1) - 1 = m
    BY <1>2
  <2>2. Begins(h, n + 1, m + 1)
    BY <2>1 DEF Begins
  <2> QED
    BY <1>2, <1>3, <2>1, <2>2 DEF Placed
<1>5. SavedBy(Picked, m + 1) = SavedBy(Picked, m) \cup (Picked \cap {m + 2})
  BY <1>2, SavedByNext
<1>6. CASE m + 2 \in Picked
  <2>1. ckpts' = Append(ckpts, c)
    BY <1>1, <1>6
  <2>2. /\ ckpts' \in Seq(Checkpoint)
        /\ \A i \in DOMAIN ckpts' :
             ckpts'[i] = c \/ (i \in DOMAIN ckpts /\ ckpts'[i] = ckpts[i])
    BY <1>3, <2>1
  <2>3. Served(ckpts') = Served(ckpts) \cup {m + 2}
    BY <1>3, <2>1, ServedAppend
  <2>4. sim_end' => \A t \in Picked : t <= m + 2
    BY <1>1 DEF NoneAfter, Picked
  <2> QED
    BY <1>4, <1>5, <1>6, <2>2, <2>3, <2>4
<1>7. CASE m + 2 \notin Picked
  BY <1>1, <1>5, <1>7
<1> QED
  BY <1>6, <1>7

LEMMA CkptEnds ==
  ASSUME NEW h, NEW N, FlowAt(h, N), CkptStep,
         trace[sim_time + 1].end
  PROVE  FlowAt(h, N)'
<1>1. PICK n : n = sim_time
  OBVIOUS
<1>2. PICK o : o = trace[n + 1]
  OBVIOUS
<1>3. /\ N \in Nat /\ run = "ckpt" /\ CkptRun(h, N)
      /\ finished_intervals = h[n].interval /\ n = N
  BY <1>1, <1>2, CkptBefore
<1>4. /\ phase = "loop" /\ run' = run /\ config' = config
      /\ trace' = trace /\ starts' = starts
      /\ target_intervals' = target_intervals
      /\ phase' \in {"finished", "failed"}
      /\ UNCHANGED <<sim_time, finished_intervals, ckpts>>
  BY <1>1, <1>2, CkptChanges
<1>5. /\ target_intervals = LoadSimpoints(config.points)
      /\ Served(ckpts) = {t \in Picked :
                            t = 0 \/ (t >= 2 /\ t <= finished_intervals + 1)}
  BY <1>3, <1>4 DEF CkptRun
<1>6. Picked' = Picked
  BY <1>4 DEF Picked
<1>7. h[N].interval \in Nat
  BY <1>3 DEF FlowAt, Walk, Place
<1>8. \A t \in Picked : t <= finished_intervals + 1
  <2>1. Picked \subseteq 0 .. h[N].interval - 1
    BY <1>3, <1>5 DEF CkptRun, Picked
  <2> QED
    BY <1>3, <1>7, <2>1
<1>9. Served(ckpts') =
        {t \in Picked' : t = 0 \/ (t >= 2 /\ t <= finished_intervals' + 1)}
  BY <1>4, <1>5, <1>6
<1>10. CkptRun(h, N)'
  <2>1. /\ config.mode = "GEN_CHECKPOINT" /\ config.max_insts = 0
        /\ DOMAIN LoadSimpoints(config.points) \subseteq 0 .. h[N].interval - 1
        /\ ckpts \in Seq(Checkpoint)
        /\ \A i \in DOMAIN ckpts : Placed(h, N, ckpts[i])
    BY <1>3 DEF CkptRun
  <2> QED
    BY <1>4, <1>5, <1>6, <1>8, <1>9, <2>1 DEF CkptRun
<1> QED
  BY <1>3, <1>4, <1>10 DEF FlowAt, Phases

LEMMA CkptGoesOn ==
  ASSUME NEW h, NEW N, FlowAt(h, N), CkptStep,
         ~trace[sim_time + 1].end
  PROVE  FlowAt(h, N)'
<1>1. PICK n : n = sim_time
  OBVIOUS
<1>2. PICK o : o = trace[n + 1]
  OBVIOUS
<1>3. /\ N \in Nat /\ o \in Outcome /\ run = "ckpt" /\ CkptRun(h, N)
      /\ h \in [0 .. N -> Place]
      /\ finished_intervals = h[n].interval /\ n \in 0 .. N - 1
  BY <1>1, <1>2, CkptBefore
<1>4. /\ phase = "loop" /\ ~sim_end /\ run' = run /\ config' = config
      /\ trace' = trace /\ starts' = starts
      /\ target_intervals' = target_intervals
      /\ phase' = "loop" /\ sim_time' = n + 1
      /\ user' <=> o.user
      /\ current_bb_len' = h[n + 1].len
      /\ interval_inst_count' = h[n + 1].count
      /\ finished_intervals' = h[n + 1].interval
      /\ Count(o) \in Nat
      /\ IF Full(o)
         THEN h[n + 1].interval = h[n].interval + 1 /\ CheckpointBoundary(o)
         ELSE /\ h[n + 1].interval = h[n].interval
              /\ ckpts' = ckpts /\ sim_end' = sim_end
  BY <1>1, <1>2, CkptChanges
<1>5. PICK m : m = h[n].interval
  OBVIOUS
<1>6. h[n] \in Place /\ m \in Nat /\ n \in 0 .. N
  <2>1. n \in 0 .. N
    BY <1>3
  <2> QED
    BY <1>3, <1>5, <2>1 DEF Place
<1>7. /\ config.mode = "GEN_CHECKPOINT" /\ config.max_insts = 0
      /\ DOMAIN LoadSimpoints(config.points) \subseteq 0 .. h[N].interval - 1
      /\ ckpts \in Seq(Checkpoint)
      /\ \A i \in DOMAIN ckpts : Placed(h, N, ckpts[i])
      /\ target_intervals = LoadSimpoints(config.points)
      /\ Served(ckpts) = {t \in Picked :
                            t = 0 \/ (t >= 2 /\ t <= finished_intervals + 1)}
  BY <1>3, <1>4 DEF CkptRun
<1>8. Picked \subseteq Nat /\ Picked' = Picked
  BY <1>4, <1>7 DEF Picked
<1>9. Served(ckpts) = SavedBy(Picked, m)
  BY <1>3, <1>5, <1>7 DEF SavedBy
<1>10. /\ ckpts' \in Seq(Checkpoint)
       /\ \A i \in DOMAIN ckpts' : Placed(h, N, ckpts'[i])
       /\ Served(ckpts') = SavedBy(Picked, h[n + 1].interval)
       /\ sim_end' => \A t \in Picked : t <= h[n + 1].interval + 1
  <2>1. CASE Full(o)
    <3>1. h[n + 1].interval = m + 1 /\ finished_intervals = m
          /\ CheckpointBoundary(o) /\ Count(o) \in Nat /\ sim_time' = n + 1
      BY <1>3, <1>4, <1>5, <2>1
    <3>2. /\ ckpts' \in Seq(Checkpoint)
          /\ \A i \in DOMAIN ckpts' : Placed(h, N, ckpts'[i])
          /\ Served(ckpts') = SavedBy(Picked, m + 1)
          /\ sim_end' => \A t \in Picked : t <= m + 2
      BY <1>3, <1>5, <1>7, <1>8, <1>9, <3>1, BoundarySaves
    <3>3. (m + 1) + 1 = m + 2
      BY <1>6
    <3> QED
      BY <3>1, <3>2, <3>3
  <2>2. CASE ~Full(o)
    BY <1>4, <1>5, <1>7, <1>9, <2>2
  <2> QED
    BY <2>1, <2>2
<1>11. CkptRun(h, N)'
  <2>1. Served(ckpts') = {t \in Picked' :
                            t = 0 \/ (t >= 2 /\ t <= finished_intervals' + 1)}
    BY <1>4, <1>8, <1>10 DEF SavedBy
  <2>2. sim_end' => \A t \in Picked' : t <= finished_intervals' + 1
    BY <1>4, <1>8, <1>10
  <2> QED
    BY <1>4, <1>7, <1>10, <2>1, <2>2 DEF CkptRun, Over
<1>12. Here(h)'
  <2>1. o.user <=> UserAt(trace, n + 1)
    BY <1>2, <1>3 DEF UserAt
  <2> QED
    BY <1>4, <2>1 DEF Here
<1>13. n + 1 \in 0 .. N
  BY <1>3
<1>14. /\ N <= MaxSimTime /\ Walk(trace, h, N) /\ StartsIn(starts, h, N)
  BY DEF FlowAt
<1> QED
  BY <1>3, <1>4, <1>11, <1>12, <1>13, <1>14 DEF FlowAt, Phases

\* The steps of a process before and after its loop.
LEMMA FlowStarts ==
  ASSUME NEW h, NEW N, FlowAt(h, N), Start, UNCHANGED flowVars
  PROVE  FlowAt(h, N)'
<1>1. /\ N \in Nat /\ N <= MaxSimTime
      /\ Walk(trace, h, N) /\ StartsIn(starts, h, N)
      /\ sim_time \in 0 .. N /\ finished_intervals = h[sim_time].interval
      /\ phase \in {"init", "loop"} => Here(h)
      /\ \/ run = "bbv" /\ BbvRun(N)
         \/ run = "ckpt" /\ CkptRun(h, N)
  BY DEF FlowAt
<1>2. run' = run /\ trace' = trace /\ starts' = starts
  BY DEF flowVars
<1>3. CASE run = "bbv" /\ BbvRun(N)
  <2>1. config = FlowConfig("GEN_BBV", <<>>) /\ config.mode = "GEN_BBV"
    BY <1>3 DEF BbvRun, FlowConfig
  <2>2. StartBbv
    BY <2>1 DEF Start, StartNormal, StartCheckpoint, StartSpecial,
       StartRestore
  <2>3. /\ phase = "init" /\ phase' = "loop" /\ config' = config
        /\ user' = user /\ sim_time' = sim_time
        /\ current_bb_len' = current_bb_len
        /\ interval_inst_count' = interval_inst_count
        /\ finished_intervals' = finished_intervals /\ bbv_file' = bbv_file
    BY <2>2 DEF StartBbv, cpuVars, bbVars
  <2>4. Here(h)'
    BY <1>1, <1>2, <2>3 DEF Here
  <2>5. BbvRun(N)'
    BY <1>2, <1>3, <2>3 DEF BbvRun
  <2> QED
    BY <1>1, <1>2, <1>3, <2>3, <2>4, <2>5 DEF FlowAt, Phases
<1>4. CASE run = "ckpt" /\ CkptRun(h, N)
  <2>1. config.mode = "GEN_CHECKPOINT"
    BY <1>4 DEF CkptRun
  <2>2. StartCheckpoint
    BY <2>1 DEF Start, StartNormal, StartBbv, StartSpecial, StartRestore
  <2>3. /\ phase = "init" /\ phase' = "loop" /\ config' = config
        /\ user' = user /\ sim_time' = sim_time /\ sim_end' = sim_end
        /\ current_bb_len' = current_bb_len
        /\ interval_inst_count' = interval_inst_count
        /\ finished_intervals' = finished_intervals
        /\ target_intervals' = LoadSimpoints(config.points)
        /\ ckpts' = IF 0 \in Picked'
                    THEN <<Ckpt("nowarmup", 0, sim_time, interval_inst_count)>>
                    ELSE <<>>
    BY <2>2 DEF StartCheckpoint, cpuVars, bbVars, Picked
  <2>4. sim_time = 0 /\ ~sim_end /\ Here(h) /\ h[0] = BootPlace
    BY <1>1, <1>4, <2>3 DEF CkptRun, Walk
  <2>5. finished_intervals = 0 /\ interval_inst_count = 0
    BY <1>1, <2>4 DEF Here, BootPlace
  <2> DEFINE c == Ckpt("nowarmup", 0, 0, 0)
  <2>6. c \in Checkpoint /\ c.target = 0 /\ c.at = 0
    BY DEF Ckpt, Checkpoint
  <2> HIDE DEF c
  <2>7. ckpts' = IF 0 \in Picked' THEN <<c>> ELSE <<>>
    BY <2>3, <2>4, <2>5 DEF c
  <2>8. /\ ckpts' \in Seq(Checkpoint)
        /\ \A i \in DOMAIN ckpts' : Placed(h, N, ckpts'[i])
    BY <2>6, <2>7 DEF Placed
  <2>9. /\ DOMAIN LoadSimpoints(config.points) \subseteq 0 .. h[N].interval - 1
        /\ config.max_insts = 0
    BY <1>4 DEF CkptRun
  <2>10. Picked' \subseteq Nat
    BY <2>3, <2>9 DEF Picked
  <2>11. Served(ckpts') = Picked' \cap {0}
    BY <2>6, <2>7, ServedFirst
  <2>12. Served(ckpts') = {t \in Picked' :
                            t = 0 \/ (t >= 2 /\ t <= finished_intervals' + 1)}
    <3>1. finished_intervals' = 0
      BY <2>3, <2>5
    <3>2. \A t \in Picked' :
            t = 0 <=> t = 0 \/ (t >= 2 /\ t <= finished_intervals' + 1)
      BY <2>10, <3>1
    <3> QED
      BY <2>11, <3>2
  <2>13. CkptRun(h, N)'
    BY <2>1, <2>3, <2>4, <2>8, <2>9, <2>12 DEF CkptRun, Over
  <2>14. Here(h)'
    BY <1>2, <2>3, <2>4 DEF Here
  <2> QED
    BY <1>1, <1>2, <1>4, <2>3, <2>13, <2>14 DEF FlowAt, Phases
<1> QED
  BY <1>1, <1>3, <1>4

LEMMA FlowLeaves ==
  ASSUME NEW h, NEW N, FlowAt(h, N), Leave, UNCHANGED flowVars
  PROVE  FlowAt(h, N)'
<1>1. /\ N \in Nat /\ N <= MaxSimTime
      /\ Walk(trace, h, N) /\ StartsIn(starts, h, N)
      /\ sim_time \in 0 .. N /\ finished_intervals = h[sim_time].interval
      /\ \/ run = "bbv" /\ BbvRun(N)
         \/ run = "ckpt" /\ CkptRun(h, N)
  BY DEF FlowAt
<1>2. run' = run /\ trace' = trace /\ starts' = starts
  BY DEF flowVars
<1>3. /\ phase = "loop" /\ (sim_end \/ sim_time >= MaxSimTime)
      /\ config' = config /\ sim_time' = sim_time /\ sim_end' = sim_end
      /\ finished_intervals' = finished_intervals /\ bbv_file' = bbv_file
      /\ target_intervals' = target_intervals /\ ckpts' = ckpts
  BY DEF Leave, bbvVars, pointVars
<1>4. phase' \in {"finished", "failed"}
  BY DEF Leave, Verdict
<1>5. CASE run = "bbv" /\ BbvRun(N)
  <2>1. BbvRun(N)'
    BY <1>3, <1>4, <1>5 DEF BbvRun
  <2> QED
    BY <1>1, <1>2, <1>3, <1>4, <1>5, <2>1 DEF FlowAt, Phases
<1>6. CASE run = "ckpt" /\ CkptRun(h, N)
  <2>1. /\ target_intervals = LoadSimpoints(config.points)
        /\ DOMAIN LoadSimpoints(config.points) \subseteq 0 .. h[N].interval - 1
        /\ sim_end => \A t \in Picked : t <= finished_intervals + 1
    BY <1>3, <1>6 DEF CkptRun
  <2>2. \A t \in Picked : t <= finished_intervals + 1
    <3>1. CASE sim_end
      BY <2>1, <3>1
    <3>2. CASE sim_time >= MaxSimTime
      <4>1. sim_time = N
        BY <1>1, <3>2, SimLoopAssumption
      <4>2. h[N].interval \in Nat
        BY <1>1 DEF Walk, Place
      <4>3. Picked \subseteq 0 .. h[N].interval - 1
        BY <2>1 DEF Picked
      <4> QED
        BY <1>1, <4>1, <4>2, <4>3
    <3> QED
      BY <1>3, <3>1, <3>2
  <2>3. Picked' = Picked
    BY <1>3 DEF Picked
  <2>4. CkptRun(h, N)'
    BY <1>3, <1>4, <1>6, <2>2, <2>3 DEF CkptRun
  <2> QED
    BY <1>1, <1>2, <1>3, <1>4, <1>6, <2>4 DEF FlowAt, Phases
<1> QED
  BY <1>1, <1>5, <1>6

\* The second run starts where the first one did.
LEMMA FlowRelaunches ==
  ASSUME NEW h, NEW N, FlowAt(h, N),
         NEW chosen \in SUBSET (0 .. Len(bbv_file) - 1),
         PickAndRelaunch(chosen)
  PROVE  FlowAt(h, N)'
<1>1. /\ run = "bbv" /\ run' = "ckpt" /\ phase' = "init"
      /\ config' = FlowConfig("GEN_CHECKPOINT", Points(chosen))
      /\ user' = FALSE /\ sim_time' = 0 /\ sim_end' = FALSE
      /\ current_bb_len' = 0 /\ interval_inst_count' = 0
      /\ finished_intervals' = 0 /\ ckpts' = <<>>
      /\ trace' = trace /\ starts' = starts
  BY DEF PickAndRelaunch
<1>2. /\ N \in Nat /\ N <= MaxSimTime
      /\ Walk(trace, h, N) /\ StartsIn(starts, h, N)
      /\ finished_intervals = h[sim_time].interval /\ BbvRun(N)
  BY <1>1 DEF FlowAt
<1>3. Len(bbv_file) = h[N].interval /\ h[N].interval \in Nat
  BY <1>2 DEF BbvRun, Walk, Place
<1>4. DOMAIN LoadSimpoints(Points(chosen)) \subseteq 0 .. h[N].interval - 1
  BY <1>3, PointsInFile
<1>5. h[0] = BootPlace
  BY <1>2 DEF Walk
<1>6. Here(h)'
  BY <1>1, <1>5 DEF Here, UserAt, BootPlace
<1>7. CkptRun(h, N)'
  <2>1. /\ config'.mode = "GEN_CHECKPOINT" /\ config'.max_insts = 0
        /\ config'.points = Points(chosen)
    BY <1>1 DEF FlowConfig
  <2> QED
    BY <1>1, <1>4, <2>1 DEF CkptRun, Over
<1>8. finished_intervals' = h[sim_time'].interval
  BY <1>1, <1>5 DEF BootPlace
<1> QED
  BY <1>1, <1>2, <1>6, <1>7, <1>8 DEF FlowAt, Phases

LEMMA InitFlow ==
  ASSUME FlowInit
  PROVE  FlowInv
<1>1. PICK h : h = [n \in 0 .. 0 |-> BootPlace]
  OBVIOUS
<1>2. h[0] = BootPlace /\ BootPlace \in Place /\ h \in [0 .. 0 -> Place]
  BY <1>1 DEF BootPlace, Place
<1>3. /\ trace = <<>> /\ starts = <<0>> /\ run = "bbv" /\ phase = "init"
      /\ config = FlowConfig("GEN_BBV", <<>>) /\ sim_time = 0
      /\ user = FALSE /\ current_bb_len = 0 /\ interval_inst_count = 0
      /\ finished_intervals = 0 /\ bbv_file = <<>>
  BY DEF FlowInit, Init
<1>4. Walk(trace, h, 0)
  BY <1>2, <1>3 DEF Walk, Place
<1>5. StartsIn(starts, h, 0)
  BY <1>2, <1>3 DEF StartsIn, BootPlace
<1>6. Here(h)
  BY <1>2, <1>3 DEF Here, UserAt, BootPlace
<1>7. BbvRun(0)
  <2>1. bbv_file \in Seq({}) /\ Len(bbv_file) = 0
    BY <1>3
  <2> QED
    BY <1>3, <2>1 DEF BbvRun
<1>8. FlowAt(h, 0)
  BY <1>2, <1>3, <1>4, <1>5, <1>6, <1>7, SimLoopAssumption
     DEF FlowAt, Phases, BootPlace
<1> QED
  BY <1>8 DEF FlowInv

LEMMA NextFlow ==
  ASSUME FlowInv, [FlowNext]_<<vars, flowVars>>
  PROVE  FlowInv'
<1>1. PICK h, N : FlowAt(h, N)
  BY DEF FlowInv
<1>2. CASE FlowControl
  BY <1>1, <1>2, FlowStarts, FlowLeaves DEF FlowControl, FlowInv
<1>3. CASE CkptStep
  BY <1>1, <1>3, CkptEnds, CkptGoesOn DEF FlowInv
<1>4. ASSUME NEW o \in Outcome, BbvStep(o) PROVE FlowInv'
  BY <1>1, <1>4, BbvEnds, BbvGoesOn DEF FlowInv
<1>5. ASSUME NEW chosen \in (SUBSET (0 .. Len(bbv_file) - 1)) \ {{}},
             PickAndRelaunch(chosen)
      PROVE  FlowInv'
  BY <1>1, <1>5, FlowRelaunches DEF FlowInv
<1>6. CASE UNCHANGED <<vars, flowVars>>
  <2>1. FlowAt(h, N)'
    BY <1>1, <1>6 DEF vars, flowVars, cpuVars, bbVars, bbvVars, pointVars,
       FlowAt, Here, BbvRun, CkptRun, Over, Picked
  <2> QED
    BY <2>1 DEF FlowInv
<1> QED
  BY <1>2, <1>3, <1>4, <1>5, <1>6 DEF FlowNext

\* An interval begins once.
LEMMA BeginsOnce ==
  ASSUME NEW tr, NEW h, NEW N \in Nat, Walk(tr, h, N), NEW k,
         NEW a \in 1 .. N, NEW b \in 1 .. N, Begins(h, a, k), Begins(h, b, k)
  PROVE  a = b
<1>1. ASSUME NEW i \in 1 .. N, NEW j \in 1 .. N, i < j,
             Begins(h, i, k), Begins(h, j, k)
      PROVE  FALSE
  <2>1. i \in 0 .. N /\ j - 1 \in 0 .. N /\ i <= j - 1
    BY <1>1
  <2>2. h[i].interval <= h[j - 1].interval
    BY <2>1 DEF Walk
  <2>3. h[i].interval \in Nat
    BY <2>1 DEF Walk, Place
  <2> QED
    BY <1>1, <2>2, <2>3 DEF Begins
<1>2. a < b \/ b < a \/ a = b
  OBVIOUS
<1> QED
  BY <1>1, <1>2

LEMMA FlowAligned ==
  ASSUME FlowInv
  PROVE  CkptsAreAligned
<1>1. PICK h, N : FlowAt(h, N)
  BY DEF FlowInv
<1>2. /\ N \in Nat /\ Walk(trace, h, N) /\ StartsIn(starts, h, N)
      /\ run = "ckpt" => CkptRun(h, N)
  BY <1>1 DEF FlowAt
<1>3. ASSUME run = "ckpt", NEW i \in DOMAIN ckpts
      PROVE  ckpts[i].at = IF ckpts[i].target = 0 THEN 0
                           ELSE starts[ckpts[i].target]
  <2>1. PICK t, a : t = ckpts[i].target /\ a = ckpts[i].at
    OBVIOUS
  <2>2. t \in Nat
    <3>1. ckpts \in Seq(Checkpoint)
      BY <1>2, <1>3 DEF CkptRun
    <3>2. ckpts[i] \in Checkpoint
      BY <1>3, <3>1
    <3> QED
      BY <2>1, <3>2 DEF Checkpoint
  <2>3. \/ t = 0 /\ a = 0
        \/ t >= 2 /\ a \in 1 .. N /\ Begins(h, a, t - 1)
    BY <1>2, <1>3, <2>1 DEF CkptRun, Placed
  <2>4. CASE t >= 2 /\ a \in 1 .. N /\ Begins(h, a, t - 1)
    <3>1. h[a].interval = t - 1 /\ h[a].interval <= h[N].interval
      <4>1. a \in 0 .. N /\ N \in 0 .. N /\ a <= N
        BY <1>2, <2>4
      <4> QED
        BY <1>2, <2>4, <4>1 DEF Walk, Begins
    <3>2. h[N].interval \in Nat
      BY <1>2 DEF Walk, Place
    <3>3. t - 1 \in 1 .. h[N].interval /\ (t - 1) + 1 = t
      BY <2>2, <2>4, <3>1, <3>2
    <3>4. starts[t] \in 1 .. N /\ Begins(h, starts[t], t - 1)
      BY <1>2, <3>3 DEF StartsIn
    <3>5. a = starts[t]
      BY <1>2, <2>4, <3>4, BeginsOnce
    <3> QED
      BY <2>1, <2>2, <2>4, <3>5
  <2> QED
    BY <2>1, <2>3, <2>4
<1> QED
  BY <1>3 DEF CkptsAreAligned

LEMMA FlowServed ==
  ASSUME FlowInv
  PROVE  LatePointsServed
<1>1. PICK h, N : FlowAt(h, N)
  BY DEF FlowInv
<1>2. ASSUME run = "ckpt", Over, NEW t \in Picked, t # 1
      PROVE  \E i \in DOMAIN ckpts : ckpts[i].target = t
  <2>1. CkptRun(h, N) /\ phase # "init"
    BY <1>1, <1>2 DEF FlowAt, Over
  <2>2. /\ Picked \subseteq 0 .. h[N].interval - 1
        /\ t <= finished_intervals + 1
        /\ Served(ckpts) = {s \in Picked :
                              s = 0 \/ (s >= 2 /\ s <= finished_intervals + 1)}
    BY <1>2, <2>1 DEF CkptRun, Picked
  <2>3. t = 0 \/ t >= 2
    BY <1>2, <2>2
  <2> QED
    BY <2>2, <2>3 DEF Served
<1> QED
  BY <1>2 DEF LatePointsServed, Over

\* A checkpoint is taken where the BBV run started the interval that warms
\* up its target, for every program and every choice of intervals.
THEOREM CkptsAligned == FlowSpec => []CkptsAreAligned
<1> QED
  BY InitFlow, NextFlow, FlowAligned, PTL DEF FlowSpec

\* Every interval SimPoint picked, but interval 1, has its checkpoint when
\* the second run is over.
THEOREM LateServed == FlowSpec => []LatePointsServed
<1> QED
  BY InitFlow, NextFlow, FlowServed, PTL DEF FlowSpec
=============================================================================
