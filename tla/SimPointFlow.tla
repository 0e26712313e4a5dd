---------------------------- MODULE SimPointFlow ----------------------------
(***************************************************************************)
(* The SimPoint flow of run_bbv.sh and run_ckpt.sh for one benchmark: a    *)
(* GEN_BBV run of SimLoop, the SimPoint tool, which picks intervals from   *)
(* the lines of the BBV file, and a GEN_CHECKPOINT run of the same image.  *)
(*                                                                         *)
(* The simulated program is deterministic (it sees no input and its timer  *)
(* is sim_time), so the second run repeats the steps of the first: they    *)
(* are recorded in trace and replayed.                                     *)
(***************************************************************************)
EXTENDS SimLoop

VARIABLES
  run,      (* "bbv" or "ckpt": the process under way                       *)
  trace,    (* the outcome of each step of the GEN_BBV run                  *)
  starts,   (* starts[k + 1]: the sim_time at which interval k started      *)
  boot_pc   (* the pc the image starts at                                   *)

flowVars == <<run, trace, starts, boot_pc>>

FlowConfig(mode, points) ==
  [mode |-> mode, points |-> points, max_insts |-> 0, bbv_opens |-> TRUE,
   saved_count |-> 0]

FlowInit == /\ Init
            /\ config = FlowConfig("GEN_BBV", <<>>)
            /\ run = "bbv"
            /\ trace = <<>>
            /\ starts = <<0>>
            /\ boot_pc = pc

\* The steps of either process before and after its loop.
FlowControl == /\ Start \/ Leave
               /\ UNCHANGED flowVars

BbvStep(o) == /\ run = "bbv"
              /\ Iterate(o)
              /\ trace' = Append(trace, o)
              /\ starts' = IF finished_intervals' > finished_intervals
                           THEN Append(starts, sim_time') ELSE starts
              /\ UNCHANGED <<run, boot_pc>>

\* Every line of the BBV file is an interval; each cluster is represented by
\* one of them and numbered.  The order of the lines of the points file is
\* immaterial (WarmupSchedule), so they are listed as numbered.
Points(chosen) ==
  [k \in 1 .. Cardinality(chosen) |->
     <<CHOOSE i \in chosen : Cardinality({j \in chosen : j < i}) = k - 1,
       k - 1>>]

\* The shell starts the second process even when the first one timed out:
\* only the existence of the BBV file is looked at.
PickAndRelaunch(chosen) ==
  /\ run = "bbv"
  /\ phase \in {"finished", "failed"}
  /\ run' = "ckpt"
  /\ config' = FlowConfig("GEN_CHECKPOINT", Points(chosen))
  /\ phase' = "init"
  /\ user' = FALSE
  /\ pc' = boot_pc
  /\ sim_time' = 0
  /\ sim_end' = FALSE
  /\ current_bb_head_pc' = boot_pc
  /\ current_bb_len' = 0
  /\ interval_inst_count' = 0
  /\ finished_intervals' = 0
  /\ restored_inst_count' = 0
  /\ global_pc_to_id' = <<>>
  /\ next_bb_id' = 1
  /\ bbv_counts' = <<>>
  /\ target_intervals' = <<>>
  /\ special_targets' = {}
  /\ ckpts' = <<>>
  /\ user_steps' = 0
  /\ closed_insts' = 0
  /\ UNCHANGED <<bbv_file, trace, starts, boot_pc>>

\* The file on disk outlives the process that wrote it: bbv_file stays.
CkptStep == /\ run = "ckpt"
            /\ sim_time < Len(trace)
            /\ Iterate(trace[sim_time + 1])
            /\ UNCHANGED flowVars

FlowNext ==
  \/ FlowControl
  \/ CkptStep
  \/ \E o \in Outcome : BbvStep(o)
  \/ \E chosen \in (SUBSET (0 .. Len(bbv_file) - 1)) \ {{}} :
       PickAndRelaunch(chosen)

FlowSpec == FlowInit /\ [][FlowNext]_<<vars, flowVars>>

Picked == DOMAIN target_intervals

\* A checkpoint captures the program where the BBV run started the interval
\* that warms up its target, so that the target is the interval the vector
\* on its line describes: the two runs count the same boundaries.
CkptsAreAligned ==
  run = "ckpt" =>
    \A i \in DOMAIN ckpts :
      LET t == ckpts[i].target
      IN  ckpts[i].at = IF t = 0 THEN 0 ELSE starts[t]

\* When the second run is over, every interval SimPoint picked has its
\* checkpoint, but for interval 1: the loop looks one interval past the one
\* that starts, and saves only 0 before it (exec.cpp:1296).
LatePointsServed ==
  run = "ckpt" /\ phase \in {"finished", "failed"} =>
    \A t \in Picked : t # 1 => \E i \in DOMAIN ckpts : ckpts[i].target = t
=============================================================================
