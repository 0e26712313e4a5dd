-------------------------- MODULE WarmupSchedule ---------------------------
(***************************************************************************)
(* What a checkpoint run promises, without instructions, blocks or         *)
(* counters: intervals follow one another; interval 0 can only be saved    *)
(* cold, at its own start, and every other target is saved at the start of *)
(* the interval before it, which becomes its warmup.  The first interval   *)
(* starts with the run, before any boundary, so that interval 1 is never   *)
(* saved.                                                                  *)
(***************************************************************************)
EXTENDS Naturals

VARIABLES
  status,    (* "idle", "running", "served" or "over"                       *)
  targets,   (* the intervals SimPoint chose                                *)
  interval,  (* the interval under way                                      *)
  saved      (* the targets that have a checkpoint                          *)

vars == <<status, targets, interval, saved>>

Init == /\ status = "idle"
        /\ targets = {}
        /\ interval = 0
        /\ saved = {}

Begin == /\ status = "idle"
         /\ status' = "running"
         /\ targets' \in SUBSET Nat
         /\ saved' = targets' \cap {0}
         /\ UNCHANGED interval

\* The run may stop by itself once the last target is saved, not earlier.
Advance ==
  LET warmed == interval + 2
  IN  /\ status = "running"
      /\ interval' = interval + 1
      /\ saved' = saved \cup (targets \cap {warmed})
      /\ status' = IF warmed \in targets /\ \A t \in targets : t <= warmed
                   THEN "served" ELSE "running"
      /\ UNCHANGED targets

Finish == /\ status \in {"running", "served"}
          /\ status' = "over"
          /\ UNCHANGED <<targets, interval, saved>>

Next == Begin \/ Advance \/ Finish

Spec == Init /\ [][Next]_vars

\* A saved target is interval 0 or one whose warmup has started, and every
\* target whose warmup has started at a boundary is saved.
SavedOnTime ==
  saved = {t \in targets : t = 0 \/ (t >= 2 /\ t <= interval + 1)}

\* "served" is only reported when nothing that can be saved is missing.
ServedIsComplete ==
  status = "served" => {t \in targets : t # 1} \subseteq saved

\* Nothing is chosen or saved before the run begins; with that, both are
\* inductive.
ScheduleInv == /\ targets \subseteq Nat
               /\ interval \in Nat
               /\ status = "idle" => targets = {} /\ interval = 0
               /\ SavedOnTime
               /\ ServedIsComplete
=============================================================================
