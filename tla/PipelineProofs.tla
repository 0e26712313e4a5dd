--------------------------- MODULE PipelineProofs ---------------------------
(* Theorems about the batch scripts, for all images, job limits and bounds:*)
(* the job limit holds (LimitInv), what the files of an image tell the     *)
(* next start about each other holds (FileInv), and no half-done file is   *)
(* taken for a whole one (WholeInv).                                       *)
EXTENDS Pipeline, FiniteSetTheorems, TLAPS

\* The script in the foreground is the one started last.
AtWork ==
  /\ script.kind = "none" => script = NoScript
  /\ script.kind # "none" => script.run = starts /\ starts > 0

-----------------------------------------------------------------------------
(* Types.                                                                  *)

LEMMA NoScriptType ==
  NoScript \in [kind : Scripts \cup {"none"}, run : 0 .. MaxStarts,
               todo : SUBSET Images,
               phase : {"read", "limit", "full", "drain"}]
BY PipelineAssumption DEF NoScript

\* A job in its next stage is a job, and comes from one that was running.
LEMMA NextStage ==
  ASSUME TypeOK, NEW j \in jobs, NEW content \in Content,
         NEW stage \in Stages \cup Ended
  PROVE  /\ Moved(j, stage) \subseteq Job
         /\ Reading(j, content, stage) \subseteq Job
         /\ jobs \ {j} \subseteq Job
BY ZenonT(60) DEF TypeOK, Job, Moved, Reading

LEMMA EndsType ==
  ASSUME TypeOK, NEW j \in jobs, NEW status \in Ended, Ends(j, status)
  PROVE  jobs' \subseteq Job
BY NextStage DEF Ends, Content

LEMMA JobStepType == ASSUME TypeOK, JobStep PROVE TypeOK'
<1>1. PICK j \in jobs :
        \/ BbvStart(j) \/ BbvEnd(j)
        \/ Process(j) \/ PointsSaved(j) \/ WeightsSaved(j)
        \/ LookIntoDir(j) \/ FirstCkpt(j) \/ CkptsSaved(j)
  BY DEF JobStep
<1>2. /\ j.img \in Images /\ j.input \in Content
      /\ bbv[j.img] \in Content /\ points[j.img] \in Content
  BY DEF TypeOK, Job
<1>3. /\ "ok" \in Ended /\ {"bad", "good"} \subseteq Content
      /\ \A s \in {"bbv", "points", "weights", "dir", "ckpt", "saving"} :
            s \in Stages \cup Ended
  BY DEF Ended, Content, Stages
<1>4. jobs' \subseteq Job
  <2>1. CASE BbvStart(j) BY <2>1, <1>3, NextStage DEF BbvStart
  <2>2. CASE BbvEnd(j) BY <2>2, <1>3, EndsType DEF BbvEnd
  <2>3. CASE Process(j)
    BY <2>3, <1>2, <1>3, EndsType, NextStage DEF Process
  <2>4. CASE PointsSaved(j) BY <2>4, <1>3, NextStage DEF PointsSaved
  <2>5. CASE WeightsSaved(j) BY <2>5, <1>3, NextStage DEF WeightsSaved
  <2>6. CASE LookIntoDir(j)
    BY <2>6, <1>2, <1>3, EndsType, NextStage DEF LookIntoDir
  <2>7. CASE FirstCkpt(j) BY <2>7, <1>3, NextStage DEF FirstCkpt
  <2>8. CASE CkptsSaved(j) BY <2>8, <1>3, EndsType DEF CkptsSaved
  <2>9. QED BY <1>1, <2>1, <2>2, <2>3, <2>4, <2>5, <2>6, <2>7, <2>8
<1>5. /\ bbv' \in [Images -> Content] /\ points' \in [Images -> Content]
      /\ weights' \in [Images -> Content] /\ spoilt' \subseteq Images
  BY <1>1, <1>2, <1>3 DEF TypeOK, files, saved, BbvStart, BbvEnd, Process,
     PointsSaved, WeightsSaved, LookIntoDir, FirstCkpt, CkptsSaved
<1>8. /\ ckpts' \in [Images -> Content \cup {"part"}]
      /\ complete' \in [Images -> 0 .. MaxStarts]
  <2>1. CASE FirstCkpt(j)
    BY <2>1, <1>3 DEF FirstCkpt, TypeOK
  <2>2. CASE CkptsSaved(j)
    BY <2>2, <1>3 DEF CkptsSaved, TypeOK, saved
  <2>3. CASE UNCHANGED saved
    BY <2>3 DEF TypeOK, saved
  <2>4. QED
    BY <1>1, <2>1, <2>2, <2>3 DEF BbvStart, BbvEnd, Process, PointsSaved,
       WeightsSaved, LookIntoDir, files
<1>6. UNCHANGED <<script, starts, faults, said>> BY DEF JobStep
<1>7. QED BY <1>4, <1>5, <1>6, <1>8 DEF TypeOK

LEMMA ScriptStepType == ASSUME TypeOK, AtWork, ScriptStep
                        PROVE  TypeOK' /\ AtWork'
<1> USE DEF TypeOK, AtWork, files, saved
<1>1. CASE Spawn
  <2>1. script.kind \in Scripts /\ script.run \in Runs
    BY <1>1, PipelineAssumption DEF Spawn, NoScript, Scripts, Runs
  <2>2. \A i \in script.todo :
          [run |-> script.run, kind |-> script.kind, img |-> i,
           stage |-> "start", input |-> "none"] \in Job
    BY <2>1 DEF Job, Stages, Content
  <2>3. jobs' \subseteq Job /\ spoilt' \subseteq Images
    BY <1>1, <2>2 DEF Spawn
  <2>4. PICK i \in script.todo :
          script' = [script EXCEPT !.todo = @ \ {i}, !.phase = "limit"]
    BY <1>1 DEF Spawn
  <2>5. script' \in [kind : Scripts \cup {"none"}, run : 0 .. MaxStarts,
                    todo : SUBSET Images,
                    phase : {"read", "limit", "full", "drain"}]
    BY <2>4
  <2>6. QED BY <1>1, <2>1, <2>3, <2>4, <2>5 DEF Spawn, Scripts
<1>2. CASE Limit BY <1>2 DEF Limit, NoScript
<1>3. CASE WaitNext
  <2>1. jobs' \subseteq Job BY <1>3 DEF WaitNext
  <2>2. \E p \in {"drain", "limit"} : script' = [script EXCEPT !.phase = p]
    BY <1>3 DEF WaitNext
  <2>3. QED BY <1>3, <2>1, <2>2 DEF WaitNext, NoScript
<1>4. CASE WaitAll BY <1>4 DEF WaitAll, NoScript
<1>5. CASE Complete
  <2>1. script.run \in Runs
    BY <1>5, PipelineAssumption DEF Complete, Scripts, Runs
  <2>2. TypeOK'
    BY <1>5, <2>1, NoScriptType DEF Complete, Running
  <2>3. QED BY <1>5, <2>2 DEF Complete, NoScript
<1>6. QED BY <1>1, <1>2, <1>3, <1>4, <1>5 DEF ScriptStep

LEMMA StartType == ASSUME TypeOK, AtWork, NEW kind \in Scripts, Start(kind)
                   PROVE  TypeOK' /\ AtWork'
BY PipelineAssumption DEF Start, TypeOK, AtWork, NoScript, files, saved, Scripts

LEMMA FaultType == ASSUME TypeOK, AtWork, Fail \/ Interrupt \/ Crash
                   PROVE  TypeOK' /\ AtWork'
<1>1. faults' \in 0 .. MaxFaults
  BY PipelineAssumption DEF TypeOK, Fail, Interrupt, Crash
<1>2. CASE Fail
  <2>1. PICK j \in jobs :
          /\ IF AfterFailure(j.stage) \in Ended
             THEN Ends(j, AfterFailure(j.stage))
             ELSE jobs' = Moved(j, AfterFailure(j.stage))
          /\ spoilt' = IF j.stage \in Fragile THEN spoilt \cup {j.img}
                       ELSE spoilt
    BY <1>2 DEF Fail
  <2>2. jobs' \subseteq Job
    BY <2>1, EndsType DEF AfterFailure, Ended
  <2>3. spoilt' \subseteq Images BY <2>1 DEF TypeOK, Job
  <2>4. QED BY <1>1, <1>2, <2>2, <2>3 DEF Fail, TypeOK, AtWork, files, saved
<1>3. CASE Interrupt
  <2>1. TypeOK'
    BY <1>1, <1>3, NoScriptType DEF Interrupt, Running, TypeOK, files, saved
  <2>2. QED BY <1>3, <2>1 DEF Interrupt, AtWork, NoScript
<1>4. CASE Crash
  <2>1. TypeOK'
    BY <1>1, <1>4, NoScriptType DEF Crash, TypeOK, Job, files, saved
  <2>2. QED BY <1>4, <2>1 DEF Crash, AtWork, NoScript
<1>5. QED BY <1>2, <1>3, <1>4

LEMMA TypesAndPlace == Spec => [](TypeOK /\ AtWork)
<1>1. Init => TypeOK /\ AtWork
  BY PipelineAssumption DEF Init, TypeOK, AtWork, NoScript, Content
<1>2. TypeOK /\ AtWork /\ [Next]_vars => TypeOK' /\ AtWork'
  <2> SUFFICES ASSUME TypeOK, AtWork, [Next]_vars PROVE TypeOK' /\ AtWork'
    OBVIOUS
  <2>1. CASE JobStep
    BY <2>1, JobStepType DEF JobStep, AtWork
  <2>2. CASE UNCHANGED vars
    BY <2>2 DEF vars, files, saved, TypeOK, AtWork
  <2>3. QED
    BY <2>1, <2>2, ScriptStepType, StartType, FaultType DEF Next
<1>3. QED BY <1>1, <1>2, PTL DEF Spec

\* Every variable keeps its type.
THEOREM TypeCorrect == Spec => []TypeOK
BY TypesAndPlace, PTL

-----------------------------------------------------------------------------
(* The job limit.  A step of a job puts another in its place, or none; only*)
(* Spawn adds one, and then the script has just seen that there is room.   *)

LimitInv ==
  /\ IsFiniteSet(jobs)
  /\ JobLimit
  /\ \A j \in jobs : j.run <= starts
  /\ \A j, k \in jobs : j.run = k.run => j.kind = k.kind
  /\ script.kind # "none" =>
       \A j \in jobs : j.run = script.run => j.kind = script.kind
  /\ script.kind # "none" /\ script.phase = "read" =>
       HasRoom(script.kind, script.run)

\* Jobs that are fewer, or one of them another, leave no run with more.
LEMMA NoMore ==
  ASSUME IsFiniteSet(jobs), NEW j \in Running, NEW k, k.run = j.run,
         jobs' \subseteq (jobs \ {j}) \cup {k}
  PROVE  /\ IsFiniteSet(jobs')
         /\ \A r : Cardinality(RunningOf(r)') <= Cardinality(RunningOf(r))
<1>1. IsFiniteSet((jobs \ {j}) \cup {k})
  BY FS_RemoveElement, FS_AddElement
<1>2. IsFiniteSet(jobs') BY <1>1, FS_Subset
<1>3. ASSUME NEW r
      PROVE  Cardinality(RunningOf(r)') <= Cardinality(RunningOf(r))
  <2> DEFINE R == RunningOf(r)
  <2>1. IsFiniteSet(R)
    BY FS_Subset DEF RunningOf, Running
  <2>2. CASE r = j.run
    <3>1. j \in R BY <2>2 DEF RunningOf
    <3>2. IsFiniteSet(R \ {j}) /\ Cardinality(R \ {j}) = Cardinality(R) - 1
      BY <2>1, <3>1, FS_RemoveElement
    <3>3. /\ IsFiniteSet((R \ {j}) \cup {k})
          /\ Cardinality((R \ {j}) \cup {k}) <= Cardinality(R \ {j}) + 1
      <4> DEFINE Less == R \ {j}
      <4>1. IsFiniteSet(Less) /\ Cardinality(Less) \in Nat
        BY <3>2, FS_CardinalityType
      <4>2. /\ IsFiniteSet(Less \cup {k})
            /\ Cardinality(Less \cup {k}) =
                 IF k \in Less THEN Cardinality(Less) ELSE Cardinality(Less) + 1
        <5> HIDE DEF Less
        <5> QED BY <4>1, FS_AddElement
      <4>3. Cardinality(Less \cup {k}) <= Cardinality(Less) + 1
        <5> HIDE DEF Less
        <5> QED BY <4>1, <4>2
      <4>4. QED BY <4>2, <4>3
    <3>4. RunningOf(r)' \subseteq (R \ {j}) \cup {k}
      BY DEF RunningOf, Running
    <3>5. Cardinality(RunningOf(r)') <= Cardinality((R \ {j}) \cup {k})
      BY <3>3, <3>4, FS_Subset
    <3>6. /\ Cardinality(R) \in Nat /\ Cardinality(RunningOf(r)') \in Nat
          /\ Cardinality((R \ {j}) \cup {k}) \in Nat
      BY <2>1, <3>3, <3>4, FS_Subset, FS_CardinalityType
    <3>7. QED BY <3>2, <3>3, <3>5, <3>6
  <2>3. CASE r # j.run
    <3>1. RunningOf(r)' \subseteq R BY <2>3 DEF RunningOf, Running
    <3>2. QED BY <2>1, <3>1, FS_Subset
  <2>4. QED BY <2>2, <2>3
<1>4. QED BY <1>2, <1>3

LEMMA FewerJobs ==
  ASSUME IsFiniteSet(jobs), jobs' \subseteq jobs
  PROVE  /\ IsFiniteSet(jobs')
         /\ \A r : Cardinality(RunningOf(r)') <= Cardinality(RunningOf(r))
<1>1. IsFiniteSet(jobs') BY FS_Subset
<1>2. \A r : IsFiniteSet(RunningOf(r)) /\ RunningOf(r)' \subseteq RunningOf(r)
  BY FS_Subset DEF RunningOf, Running
<1>3. QED BY <1>1, <1>2, FS_Subset

\* What a step of the jobs, a fault or the end of a wait makes of them keeps
\* LimitInv, if the script does not come to read from where it has not looked.
LEMMA JobsKeepLimit ==
  ASSUME TypeOK, TypeOK', LimitInv, starts' = starts,
         IsFiniteSet(jobs'),
         \A r : Cardinality(RunningOf(r)') <= Cardinality(RunningOf(r)),
         \A k \in jobs' : \E j \in jobs : j.run = k.run /\ j.kind = k.kind,
         script'.kind # "none" => /\ script'.kind = script.kind
                                  /\ script'.run = script.run,
         script'.kind # "none" /\ script'.phase = "read" =>
           HasRoom(script.kind, script.run)
  PROVE  LimitInv'
<1>1. \A r : Cardinality(RunningOf(r)) \in Nat
             /\ Cardinality(RunningOf(r)') \in Nat
  <2>1. \A r : IsFiniteSet(RunningOf(r)) /\ IsFiniteSet(RunningOf(r)')
    BY FS_Subset DEF LimitInv, RunningOf, Running
  <2>2. QED BY <2>1, FS_CardinalityType
<1>2. \A kind : MaxJobs(kind) \in Nat
  BY PipelineAssumption DEF MaxJobs
<1>3. JobLimit' BY <1>1, <1>2 DEF LimitInv, JobLimit
<1>4. script'.kind # "none" /\ script'.phase = "read" =>
        HasRoom(script.kind, script.run)'
  BY <1>1, <1>2 DEF HasRoom
<1>5. QED BY <1>3, <1>4 DEF LimitInv

\* A step of one job, whatever it moves to.
LEMMA OneJobKeepsLimit ==
  ASSUME TypeOK, TypeOK', LimitInv, UNCHANGED <<script, starts>>,
         NEW j \in Running, NEW k, k.run = j.run, k.kind = j.kind,
         jobs' \subseteq (jobs \ {j}) \cup {k}
  PROVE  LimitInv'
<1>1. /\ IsFiniteSet(jobs')
      /\ \A r : Cardinality(RunningOf(r)') <= Cardinality(RunningOf(r))
  BY NoMore DEF LimitInv
<1>2. \A m \in jobs' : \E l \in jobs : l.run = m.run /\ l.kind = m.kind
  BY DEF Running
<1>3. QED BY <1>1, <1>2, JobsKeepLimit DEF LimitInv

LEMMA NextStageIsAlike ==
  ASSUME TypeOK, NEW j \in jobs
  PROVE  /\ \A stage : \E k : /\ k.run = j.run /\ k.kind = j.kind
                              /\ Moved(j, stage) = (jobs \ {j}) \cup {k}
         /\ \A content, stage :
              \E k : /\ k.run = j.run /\ k.kind = j.kind
                    /\ Reading(j, content, stage) = (jobs \ {j}) \cup {k}
<1>1. j \in Job BY DEF TypeOK
<1>2. ASSUME NEW stage
      PROVE  LET k == [j EXCEPT !.stage = stage]
             IN  k.run = j.run /\ k.kind = j.kind
  BY <1>1 DEF Job
<1>3. ASSUME NEW stage, NEW content
      PROVE  LET k == [j EXCEPT !.stage = stage, !.input = content]
             IN  k.run = j.run /\ k.kind = j.kind
  BY <1>1 DEF Job
<1>4. QED BY <1>2, <1>3 DEF Moved, Reading

LEMMA EndsIsAlike ==
  ASSUME TypeOK, NEW j \in jobs, NEW status, Ends(j, status)
  PROVE  \E k : /\ k.run = j.run /\ k.kind = j.kind
               /\ jobs' \subseteq (jobs \ {j}) \cup {k}
BY NextStageIsAlike DEF Ends

LEMMA JobStepLimit == ASSUME TypeOK, LimitInv, JobStep PROVE LimitInv'
<1>1. PICK j \in jobs :
        \/ BbvStart(j) \/ BbvEnd(j)
        \/ Process(j) \/ PointsSaved(j) \/ WeightsSaved(j)
        \/ LookIntoDir(j) \/ FirstCkpt(j) \/ CkptsSaved(j)
  BY DEF JobStep
<1>2. j \in Running
  BY <1>1 DEF Running, Ended, BbvStart, BbvEnd, Process, PointsSaved,
     WeightsSaved, LookIntoDir, FirstCkpt, CkptsSaved
<1>3. PICK k : /\ k.run = j.run /\ k.kind = j.kind
               /\ jobs' \subseteq (jobs \ {j}) \cup {k}
  BY <1>1, NextStageIsAlike, EndsIsAlike DEF BbvStart, BbvEnd, Process,
     PointsSaved, WeightsSaved, LookIntoDir, FirstCkpt, CkptsSaved
<1>4. TypeOK' /\ UNCHANGED <<script, starts>>
  BY JobStepType DEF JobStep
<1>5. QED BY <1>2, <1>3, <1>4, OneJobKeepsLimit

LEMMA SpawnLimit ==
  ASSUME TypeOK, AtWork, LimitInv, Spawn, TypeOK' PROVE LimitInv'
<1>1. PICK i \in script.todo :
        /\ jobs' = jobs \cup {[run |-> script.run, kind |-> script.kind,
                               img |-> i, stage |-> "start",
                               input |-> "none"]}
        /\ script' = [script EXCEPT !.todo = @ \ {i}, !.phase = "limit"]
  BY DEF Spawn
<1> DEFINE new == [run |-> script.run, kind |-> script.kind, img |-> i,
                   stage |-> "start", input |-> "none"]
<1>2. /\ script.kind \in Scripts /\ script.run = starts
      /\ HasRoom(script.kind, script.run)
  BY <1>1 DEF Spawn, AtWork, NoScript, LimitInv, TypeOK
<1> PICK run : run = script.run OBVIOUS
<1>3. IsFiniteSet(jobs') BY <1>1, FS_AddElement DEF LimitInv
<1>4. \A r : IsFiniteSet(RunningOf(r)) /\ Cardinality(RunningOf(r)) \in Nat
  BY FS_Subset, FS_CardinalityType DEF LimitInv, RunningOf, Running
<1>5. Cardinality(RunningOf(run)') <= MaxJobs(script.kind)
  <2> DEFINE R == RunningOf(run)
  <2>1. RunningOf(run)' \subseteq R \cup {new}
    BY <1>1 DEF RunningOf, Running
  <2>2. /\ IsFiniteSet(R \cup {new})
        /\ Cardinality(R \cup {new}) =
             IF new \in R THEN Cardinality(R) ELSE Cardinality(R) + 1
    <3>1. IsFiniteSet(R) BY <1>4
    <3> HIDE DEF R, new
    <3>2. QED BY <3>1, FS_AddElement
  <2>3. Cardinality(RunningOf(run)') <= Cardinality(R \cup {new})
    BY <2>1, <2>2, FS_Subset
  <2>4. Cardinality(RunningOf(run)') \in Nat
    BY <2>1, <2>2, FS_Subset, FS_CardinalityType
  <2>5. Cardinality(R) \in Nat /\ MaxJobs(script.kind) \in Nat
        /\ Cardinality(R) < MaxJobs(script.kind)
    BY <1>2, <1>4, PipelineAssumption DEF HasRoom, MaxJobs
  <2> HIDE DEF R, new
  <2>6. QED BY <2>2, <2>3, <2>4, <2>5
<1>6. \A r : r # run => RunningOf(r)' = RunningOf(r)
  BY <1>1 DEF RunningOf, Running
<1>7. \A j \in jobs' : j \in jobs \/ j = new
  BY <1>1
<1>8. new.run = script.run /\ new.kind = script.kind /\ new.stage = "start"
  OBVIOUS
<1>9. script'.kind = script.kind /\ script'.run = script.run
      /\ script'.phase = "limit" /\ starts' = starts
  BY <1>1 DEF TypeOK, Spawn
<1> HIDE DEF new
<1>10. \A j \in jobs' : j.run = script.run => j.kind = script.kind
  BY <1>2, <1>7, <1>8 DEF LimitInv, Scripts
<1>11. \A j \in jobs' : /\ j.run <= starts
                        /\ j.run = script.run \/ j \in jobs
  BY <1>2, <1>7, <1>8 DEF LimitInv, TypeOK
<1>12. JobLimit'
  BY <1>5, <1>6, <1>10, <1>11 DEF JobLimit, LimitInv, MaxJobs
<1>13. \A j, k \in jobs' : j.run = k.run => j.kind = k.kind
  BY <1>10, <1>11 DEF LimitInv
<1>14. QED BY <1>3, <1>9, <1>10, <1>11, <1>12, <1>13 DEF LimitInv

LEMMA ScriptStepLimit ==
  ASSUME TypeOK, AtWork, LimitInv, ScriptStep, TypeOK' PROVE LimitInv'
<1>1. CASE Spawn BY <1>1, SpawnLimit
<1>2. CASE Limit
  <2>1. /\ jobs' = jobs /\ starts' = starts
        /\ script'.kind = script.kind /\ script'.run = script.run
        /\ script'.phase = "read" => HasRoom(script.kind, script.run)
    BY <1>2 DEF Limit, TypeOK
  <2>2. QED BY <2>1, FewerJobs, JobsKeepLimit DEF LimitInv
<1>3. CASE WaitNext \/ WaitAll
  <2>1. /\ jobs' \subseteq jobs /\ starts' = starts
        /\ script'.kind = script.kind /\ script'.run = script.run
        /\ script'.phase # "read"
    BY <1>3 DEF WaitNext, WaitAll, TypeOK
  <2>2. QED BY <2>1, FewerJobs, JobsKeepLimit DEF LimitInv
<1>4. CASE Complete
  <2>1. jobs' \subseteq jobs /\ starts' = starts /\ script'.kind = "none"
    BY <1>4 DEF Complete, Running, NoScript
  <2>2. QED BY <2>1, FewerJobs, JobsKeepLimit DEF LimitInv
<1>5. QED BY <1>1, <1>2, <1>3, <1>4 DEF ScriptStep

LEMMA StartLimit ==
  ASSUME TypeOK, LimitInv, NEW kind \in Scripts, Start(kind), TypeOK'
  PROVE  LimitInv'
<1>1. /\ jobs' = jobs /\ starts' = starts + 1 /\ starts \in Nat
      /\ script'.kind = kind /\ script'.run = starts + 1
  BY DEF Start, TypeOK
<1>2. \A j \in jobs : j.run \in Nat /\ j.run <= starts
  BY DEF TypeOK, Job, Runs, LimitInv
<1>3. \A j \in jobs : j.run # starts + 1
  BY <1>1, <1>2
<1>4. RunningOf(starts + 1) = {} BY <1>3 DEF RunningOf, Running
<1>5. HasRoom(script.kind, script.run)'
  <2>1. Cardinality({}) = 0 BY FS_EmptySet
  <2>2. PICK run : run = script'.run OBVIOUS
  <2>3. RunningOf(run)' = {} BY <1>1, <1>4, <2>2 DEF RunningOf, Running
  <2>4. QED BY <2>1, <2>2, <2>3, PipelineAssumption DEF HasRoom, MaxJobs
<1>6. JobLimit'
  BY <1>1 DEF LimitInv, JobLimit, RunningOf, Running
<1>7. \A j \in jobs' : j.run <= starts' BY <1>1, <1>2
<1>8. \A j \in jobs' : j.run # script'.run BY <1>1, <1>3
<1>9. QED BY <1>1, <1>5, <1>6, <1>7, <1>8 DEF LimitInv

LEMMA FaultLimit ==
  ASSUME TypeOK, LimitInv, Fail \/ Interrupt \/ Crash, TypeOK'
  PROVE  LimitInv'
<1>1. CASE Fail
  <2>1. PICK j \in jobs :
          /\ j.stage \in {"bbv", "points", "weights", "ckpt", "saving"}
          /\ IF AfterFailure(j.stage) \in Ended
             THEN Ends(j, AfterFailure(j.stage))
             ELSE jobs' = Moved(j, AfterFailure(j.stage))
    BY <1>1 DEF Fail
  <2>2. j \in Running BY <2>1 DEF Running, Ended
  <2>3. PICK k : /\ k.run = j.run /\ k.kind = j.kind
                 /\ jobs' \subseteq (jobs \ {j}) \cup {k}
    BY <2>1, EndsIsAlike DEF AfterFailure, Ended
  <2>4. QED BY <1>1, <2>2, <2>3, OneJobKeepsLimit DEF Fail
<1>2. CASE Interrupt \/ Crash
  <2>1. jobs' \subseteq jobs /\ starts' = starts /\ script'.kind = "none"
    BY <1>2 DEF Interrupt, Crash, Running, NoScript
  <2>2. QED BY <2>1, FewerJobs, JobsKeepLimit DEF LimitInv
<1>3. QED BY <1>1, <1>2

LEMMA LimitAlways == Spec => [](TypeOK /\ LimitInv)
<1>1. Init => LimitInv
  BY FS_EmptySet DEF Init, LimitInv, JobLimit, NoScript
<1>2. TypeOK /\ TypeOK' /\ AtWork /\ LimitInv /\ [Next]_vars => LimitInv'
  <2> SUFFICES ASSUME TypeOK, TypeOK', AtWork, LimitInv, [Next]_vars
               PROVE  LimitInv'
    OBVIOUS
  <2>1. CASE UNCHANGED vars
    BY <2>1 DEF vars, LimitInv, JobLimit, HasRoom, RunningOf, Running
  <2>2. QED
    BY <2>1, JobStepLimit, ScriptStepLimit, StartLimit, FaultLimit DEF Next
<1>3. QED BY <1>1, <1>2, TypesAndPlace, PTL DEF Spec

\* No run of either script has more than its MAX_JOBS jobs running.
THEOREM JobsAreLimited == Spec => []JobLimit
<1>1. LimitInv => JobLimit BY DEF LimitInv
<1>2. QED BY <1>1, LimitAlways, PTL

-----------------------------------------------------------------------------
(* What the files say of each other.  The stage of a job tells which files *)
(* are there; no checkpoints are complete while a job saves them, and a job*)
(* that is about to was there before they were.                            *)

JobFiles(j) ==
  /\ j.stage \in {"points", "weights"} =>
       j.input # "none" /\ points[j.img] # "none"
  /\ j.stage \in {"weights", "dir", "ckpt", "saving"} =>
       points[j.img] # "none" /\ weights[j.img] # "none"
  /\ j.stage = "saving" => ckpts[j.img] \in {"part", "bad"}
  /\ j.stage = "ckpt" /\ ckpts[j.img] = "good" => j.run <= complete[j.img]

FileInv == CkptsHaveWeights /\ \A j \in jobs : JobFiles(j)

LEMMA JobStepFiles ==
  ASSUME TypeOK, LimitInv, FileInv, JobStep
  PROVE  FileInv'
<1>1. PICK j \in jobs :
        \/ BbvStart(j) \/ BbvEnd(j)
        \/ Process(j) \/ PointsSaved(j) \/ WeightsSaved(j)
        \/ LookIntoDir(j) \/ FirstCkpt(j) \/ CkptsSaved(j)
  BY DEF JobStep
<1>2. /\ JobFiles(j) /\ j \in Job /\ \A m \in jobs : m \in Job
      /\ \A m \in jobs : m.img \in Images
  BY DEF FileInv, TypeOK, Job
<1>3. CASE BbvStart(j)
  <2>1. /\ \A m \in jobs' : JobFiles(m)'
        /\ UNCHANGED <<points, weights, saved>>
    BY <1>2, <1>3 DEF saved, BbvStart, Moved, FileInv, JobFiles, Job
  <2>2. QED BY <2>1 DEF FileInv, CkptsHaveWeights, saved
<1>4. CASE BbvEnd(j)
  <2>1. /\ \A m \in jobs' : JobFiles(m)'
        /\ UNCHANGED <<points, weights, saved>>
    BY <1>2, <1>4 DEF saved, BbvEnd, Ends, Moved, FileInv, JobFiles, Job
  <2>2. QED BY <2>1 DEF FileInv, CkptsHaveWeights, saved
<1>5. CASE Process(j)
  <2>1. /\ UNCHANGED <<weights, ckpts, complete>>
        /\ \A i \in Images : points[i] # "none" => points'[i] # "none"
    BY <1>5 DEF Process, TypeOK, saved
  <2>2. \A m \in jobs' : JobFiles(m)'
    <3>1. CASE Ends(j, "ok") /\ UNCHANGED points
      BY <1>2, <2>1, <3>1 DEF Ends, Moved, FileInv, JobFiles, Job
    <3>2. CASE /\ Analysed(j.img) /\ jobs' = Moved(j, "dir")
               /\ UNCHANGED points
      BY <1>2, <2>1, <3>2 DEF Analysed, Moved, FileInv, JobFiles, Job
    <3>3. CASE /\ bbv[j.img] # "none"
               /\ jobs' = Reading(j, bbv[j.img], "points")
               /\ points' = [points EXCEPT ![j.img] = "bad"]
      <4>1. PICK k : /\ k.img = j.img /\ k.stage = "points"
                     /\ k.input # "none"
                     /\ jobs' = (jobs \ {j}) \cup {k}
        BY <1>2, <3>3 DEF Job, Reading
      <4>2. JobFiles(k)'
        BY <1>2, <2>1, <3>3, <4>1 DEF JobFiles, TypeOK
      <4>3. ASSUME NEW m \in jobs \ {j} PROVE JobFiles(m)'
        <5>1. JobFiles(m) /\ m.img \in Images BY <1>2 DEF FileInv
        <5>2. QED BY <2>1, <5>1 DEF JobFiles
      <4>4. QED BY <4>1, <4>2, <4>3
    <3>4. QED BY <1>5, <3>1, <3>2, <3>3 DEF Process
  <2>3. QED BY <2>1, <2>2 DEF FileInv, CkptsHaveWeights
<1>6. CASE PointsSaved(j)
  <2>1. /\ UNCHANGED <<ckpts, complete>> /\ jobs' = Moved(j, "weights")
        /\ j.stage = "points" /\ j.input # "none"
        /\ points'[j.img] # "none" /\ weights'[j.img] # "none"
        /\ \A i \in Images : /\ points[i] # "none" => points'[i] # "none"
                             /\ weights[i] # "none" => weights'[i] # "none"
    BY <1>2, <1>6 DEF PointsSaved, TypeOK, JobFiles, saved
  <2>2. \A m \in jobs' : JobFiles(m)'
    <3>1. PICK k : /\ k.img = j.img /\ k.input = j.input
                   /\ k.stage = "weights"
                   /\ jobs' = (jobs \ {j}) \cup {k}
      BY <1>2, <2>1 DEF Job, Moved
    <3>2. JobFiles(k)'
      BY <2>1, <3>1 DEF JobFiles
    <3>3. ASSUME NEW m \in jobs \ {j} PROVE JobFiles(m)'
      <4>1. JobFiles(m) /\ m.img \in Images BY <1>2 DEF FileInv
      <4>2. QED BY <2>1, <4>1 DEF JobFiles
    <3>4. QED BY <3>1, <3>2, <3>3
  <2>3. QED BY <2>1, <2>2 DEF FileInv, CkptsHaveWeights
<1>7. CASE WeightsSaved(j)
  <2>1. /\ UNCHANGED <<points, ckpts, complete>> /\ jobs' = Moved(j, "dir")
        /\ points'[j.img] # "none" /\ weights'[j.img] # "none"
        /\ \A i \in Images : weights[i] # "none" => weights'[i] # "none"
    BY <1>2, <1>7 DEF WeightsSaved, TypeOK, JobFiles, saved
  <2>2. \A m \in jobs' : JobFiles(m)'
    <3>1. PICK k : k.img = j.img /\ k.stage = "dir" /\ jobs' = (jobs \ {j}) \cup {k}
      BY <1>2, <2>1 DEF Job, Moved
    <3>2. JobFiles(k)'
      BY <2>1, <3>1 DEF JobFiles
    <3>3. ASSUME NEW m \in jobs \ {j} PROVE JobFiles(m)'
      <4>1. JobFiles(m) /\ m.img \in Images BY <1>2 DEF FileInv
      <4>2. QED BY <2>1, <4>1 DEF JobFiles
    <3>4. QED BY <3>1, <3>2, <3>3
  <2>3. QED BY <2>1, <2>2 DEF FileInv, CkptsHaveWeights
<1>8. CASE LookIntoDir(j)
  <2>1. UNCHANGED <<points, weights, ckpts, complete>>
    BY <1>8 DEF LookIntoDir, files, saved
  <2>2. \A m \in jobs' : JobFiles(m)'
    <3>1. j.stage = "dir" /\ points[j.img] # "none" /\ weights[j.img] # "none"
      BY <1>2, <1>8 DEF LookIntoDir, JobFiles
    <3>2. \A m \in jobs \ {j} : JobFiles(m)'
      BY <1>2, <2>1 DEF FileInv, JobFiles
    <3>3. CASE Ends(j, "ok")
      BY <1>2, <2>1, <3>1, <3>2, <3>3 DEF Ends, Moved, JobFiles, Job
    <3>4. CASE NoCkpts(j.img) /\ jobs' = Reading(j, points[j.img], "ckpt")
      <4>1. PICK k : /\ k.img = j.img /\ k.stage = "ckpt"
                     /\ jobs' = (jobs \ {j}) \cup {k}
        BY <1>2, <3>4 DEF Job, Reading
      <4>2. ckpts[k.img] # "good"
        BY <3>4, <4>1 DEF NoCkpts
      <4>3. JobFiles(k)'
        BY <2>1, <3>1, <4>1, <4>2 DEF JobFiles
      <4>4. QED BY <3>2, <4>1, <4>3
    <3>5. QED BY <1>8, <3>3, <3>4 DEF LookIntoDir
  <2>3. QED BY <2>1, <2>2 DEF FileInv, CkptsHaveWeights
<1>9. CASE FirstCkpt(j)
  <2>1. /\ UNCHANGED <<points, weights, complete>> /\ jobs' = Moved(j, "saving")
        /\ points[j.img] # "none" /\ weights[j.img] # "none"
        /\ \A i \in Images : i # j.img => ckpts'[i] = ckpts[i]
        /\ ckpts'[j.img] \in {"part", "bad"}
    BY <1>2, <1>9 DEF FirstCkpt, JobFiles, TypeOK
  <2>2. \A m \in jobs \ {j} : JobFiles(m)'
    <3> SUFFICES ASSUME NEW m \in jobs \ {j} PROVE JobFiles(m)'
      OBVIOUS
    <3>1. JobFiles(m) /\ m.img \in Images
      BY <1>2 DEF FileInv
    <3>2. QED BY <2>1, <3>1 DEF JobFiles
  <2>3. PICK k : /\ k.img = j.img /\ k.stage = "saving"
                 /\ jobs' = (jobs \ {j}) \cup {k}
    BY <1>2, <2>1 DEF Job, Moved
  <2>4. JobFiles(k)'
    BY <2>1, <2>3 DEF JobFiles
  <2>5. CkptsHaveWeights'
    BY <2>1 DEF FileInv, CkptsHaveWeights
  <2>6. QED BY <2>2, <2>3, <2>4, <2>5 DEF FileInv
<1>10. CASE CkptsSaved(j)
  <2>1. UNCHANGED <<points, weights>> /\ Ends(j, "ok")
    BY <1>10 DEF CkptsSaved
  <2>2. CASE UNCHANGED saved
    <3>1. UNCHANGED <<ckpts, complete>>
      BY <2>2 DEF saved
    <3>2. \A m \in jobs' : JobFiles(m)'
      BY <1>2, <2>1, <3>1 DEF Ends, Moved, FileInv, JobFiles, Job
    <3>3. QED BY <2>1, <3>1, <3>2 DEF FileInv, CkptsHaveWeights
  <2>3. CASE /\ j.stage = "saving" /\ OthersAt(j, {"saving"}) = {}
             /\ ckpts' = [ckpts EXCEPT ![j.img] = "good"]
             /\ complete' = [complete EXCEPT ![j.img] = starts]
    <3>1. points[j.img] # "none" /\ weights[j.img] # "none"
      BY <1>2, <2>3 DEF JobFiles
    <3>2. \A m \in jobs \ {j} : JobFiles(m)'
      <4> SUFFICES ASSUME NEW m \in jobs \ {j} PROVE JobFiles(m)'
        OBVIOUS
      <4>1. JobFiles(m) /\ m.img \in Images /\ m.run <= starts
        BY <1>2 DEF FileInv, LimitInv
      <4>2. CASE m.img = j.img
        BY <2>1, <2>3, <4>1, <4>2 DEF OthersAt, JobFiles, TypeOK
      <4>3. CASE m.img # j.img
        BY <2>1, <2>3, <4>1, <4>3 DEF JobFiles, TypeOK
      <4>4. QED BY <4>2, <4>3
    <3>3. \A m \in jobs' : m \in jobs \ {j} \/ m.stage = "ok"
      BY <1>2, <2>1 DEF Ends, Moved, Job
    <3>4. \A m \in jobs' : JobFiles(m)'
      BY <3>2, <3>3 DEF JobFiles
    <3>5. CkptsHaveWeights'
      BY <2>1, <2>3, <3>1 DEF FileInv, CkptsHaveWeights, TypeOK
    <3>6. QED BY <3>4, <3>5 DEF FileInv
  <2>4. QED BY <1>10, <2>2, <2>3 DEF CkptsSaved
<1>11. QED
  BY <1>1, <1>3, <1>4, <1>5, <1>6, <1>7, <1>8, <1>9, <1>10

\* The other steps touch no file and begin or end a job, or end them all.
LEMMA OtherStepFiles ==
  ASSUME TypeOK, FileInv,
         ScriptStep \/ (\E kind \in Scripts : Start(kind))
         \/ Fail \/ Interrupt \/ Crash
  PROVE  FileInv' /\ UNCHANGED saved
<1>1. UNCHANGED <<points, weights, ckpts, complete>>
  BY DEF ScriptStep, Spawn, Limit, WaitNext, WaitAll, Complete, Start, Fail,
     Interrupt, Crash, files, saved
<1>2. \A m \in jobs' : m \in jobs \/ m.stage \in {"start", "ok", "failed"}
  <2>1. CASE Spawn BY <2>1 DEF Spawn
  <2>2. CASE Limit \/ WaitNext \/ WaitAll \/ Complete
             \/ (\E kind \in Scripts : Start(kind)) \/ Interrupt \/ Crash
    BY <2>2 DEF Limit, WaitNext, WaitAll, Complete, Start, Interrupt, Crash,
       Running
  <2>3. CASE Fail
    <3>1. PICK j \in jobs : Ends(j, AfterFailure(j.stage))
      BY <2>3 DEF Fail, AfterFailure, Ended
    <3>2. AfterFailure(j.stage) \in {"ok", "failed"} BY DEF AfterFailure
    <3>3. j \in Job BY DEF TypeOK
    <3>4. QED BY <3>1, <3>2, <3>3 DEF Ends, Moved, Job
  <2>4. QED BY <2>1, <2>2, <2>3 DEF ScriptStep
<1>3. \A m \in jobs' : JobFiles(m)'
  BY <1>1, <1>2 DEF FileInv, JobFiles
<1>4. QED BY <1>1, <1>3 DEF FileInv, CkptsHaveWeights, saved

LEMMA FileInvAlways == Spec => [](TypeOK /\ FileInv)
<1>1. Init => FileInv BY DEF Init, FileInv, CkptsHaveWeights
<1>2. TypeOK /\ LimitInv /\ FileInv /\ [Next]_vars => FileInv'
  <2>1. CASE UNCHANGED vars
    BY <2>1 DEF vars, files, saved, FileInv, CkptsHaveWeights, JobFiles
  <2>2. QED BY <2>1, JobStepFiles, OtherStepFiles DEF Next
<1>3. QED BY <1>1, <1>2, LimitAlways, PTL DEF Spec

\* Checkpoints are never there without points and weights.
THEOREM CkptsComeWithWeights == Spec => []CkptsHaveWeights
<1>1. FileInv => CkptsHaveWeights BY DEF FileInv
<1>2. QED BY <1>1, FileInvAlways, PTL

-----------------------------------------------------------------------------
(* Half-done files.  An image that is not spoilt has one running job at    *)
(* most; its stage tells which file is incomplete just now, and what it    *)
(* has read was whole.                                                     *)

WeightsHavePoints ==
  \A i \in Images : weights[i] # "none" => points[i] # "none"

At(i, stage) == \E j \in jobs : j.img = i /\ j.stage = stage

Alone(i) == \A j, k \in Running : j.img = i /\ k.img = i => j = k

FilesTold(i) ==
  /\ bbv[i] = "bad" => At(i, "bbv")
  /\ weights[i] = "bad" => At(i, "weights")
  /\ ckpts[i] # "bad" /\ (ckpts[i] = "part" => At(i, "saving"))
  /\ weights[i] = "good" => points[i] = "good"

JobTold(j) ==
  /\ j.stage = "points" => weights[j.img] = "none" /\ j.input = "good"
  /\ j.stage = "weights" => j.input = "good" /\ points[j.img] = "good"
  /\ j.stage \in {"dir", "ckpt", "saving"} => weights[j.img] = "good"
  /\ j.stage \in {"ckpt", "saving"} => j.input = "good"
  /\ j.stage = "ckpt" => ckpts[j.img] = "none"

Whole(i) == /\ Alone(i)
            /\ FilesTold(i)
            /\ \A j \in jobs : j.img = i => JobTold(j)

WholeInv == WeightsHavePoints /\ \A i \in Images \ spoilt : Whole(i)

\* Stages with something of their own to tell are those of running jobs.
LEMMA StagesTold ==
  /\ {"start", "bbv", "points", "weights", "dir", "ckpt", "saving"}
       \cap Ended = {}
  /\ \A j : j.stage \in Ended => JobTold(j)
BY DEF Ended, JobTold

\* The job of an image that is not spoilt tells what is incomplete.
LEMMA JobAtWork ==
  ASSUME NEW i, Whole(i), NEW j \in Running, j.img = i
  PROVE  /\ JobTold(j)
         /\ \A m \in Running : m.img = i => m = j
         /\ bbv[i] = "bad" => j.stage = "bbv"
         /\ weights[i] = "bad" => j.stage = "weights"
         /\ ckpts[i] # "bad" /\ (ckpts[i] = "part" => j.stage = "saving")
         /\ weights[i] = "good" => points[i] = "good"
<1>1. \A stage \in {"bbv", "weights", "saving"} : At(i, stage) => j.stage = stage
  BY StagesTold DEF Whole, Alone, At, Running
<1> QED
  BY <1>1 DEF Whole, FilesTold, Running, Alone

\* An image with no running job has no incomplete file.
LEMMA NoJobAtWork ==
  ASSUME NEW i, Whole(i), \A m \in Running : m.img # i
  PROVE  /\ bbv[i] # "bad" /\ weights[i] # "bad" /\ ckpts[i] \notin {"part", "bad"}
         /\ weights[i] = "good" => points[i] = "good"
<1>1. \A stage \in {"bbv", "weights", "saving"} : ~At(i, stage)
  BY StagesTold DEF At, Running
<1> QED
  BY <1>1 DEF Whole, FilesTold

\* The image is left with one job, k, and the files that k tells of.
LEMMA GoesOn ==
  ASSUME NEW i, NEW k \in jobs', k.img = i,
         \A m \in jobs' : m.img = i => m = k \/ m.stage \in Ended,
         JobTold(k)',
         bbv'[i] = "bad" => k.stage = "bbv",
         weights'[i] = "bad" => k.stage = "weights",
         ckpts'[i] # "bad" /\ (ckpts'[i] = "part" => k.stage = "saving"),
         weights'[i] = "good" => points'[i] = "good"
  PROVE  Whole(i)'
<1>1. Alone(i)'
  BY DEF Alone, Running
<1>2. FilesTold(i)'
  BY DEF FilesTold, At
<1>3. \A m \in jobs' : m.img = i => JobTold(m)'
  BY DEF JobTold, Ended
<1> QED
  BY <1>1, <1>2, <1>3 DEF Whole

\* The image is left with no running job and no incomplete file.
LEMMA ComesToRest ==
  ASSUME NEW i, \A m \in jobs' : m.img = i => m.stage \in Ended,
         bbv'[i] # "bad", weights'[i] # "bad", ckpts'[i] \notin {"part", "bad"},
         weights'[i] = "good" => points'[i] = "good"
  PROVE  Whole(i)'
<1>1. Alone(i)'
  BY DEF Alone, Running
<1>2. FilesTold(i)'
  BY DEF FilesTold
<1>3. \A m \in jobs' : m.img = i => JobTold(m)'
  BY DEF JobTold, Ended
<1> QED
  BY <1>1, <1>2, <1>3 DEF Whole

\* An image whose running jobs and files stay is as whole as it was.
LEMMA Untouched ==
  ASSUME NEW i, Whole(i),
         \A m : m.img = i => (m \in Running' <=> m \in Running),
         bbv'[i] = bbv[i], points'[i] = points[i],
         weights'[i] = weights[i], ckpts'[i] = ckpts[i]
  PROVE  Whole(i)'
<1>1. Alone(i)'
  BY DEF Whole, Alone, Running
<1>2. FilesTold(i)'
  <2>1. \A stage \in {"bbv", "weights", "saving"} : At(i, stage) => At(i, stage)'
    BY StagesTold DEF At, Running
  <2> QED
    BY <2>1 DEF Whole, FilesTold
<1>3. \A m \in jobs' : m.img = i => JobTold(m)'
  <2> SUFFICES ASSUME NEW m \in jobs', m.img = i PROVE JobTold(m)'
    OBVIOUS
  <2>1. CASE m.stage \in Ended
    BY <2>1 DEF JobTold, Ended
  <2>2. CASE m.stage \notin Ended
    <3>1. JobTold(m)
      BY <2>2 DEF Whole, Running
    <3> QED
      BY <3>1 DEF JobTold
  <2> QED
    BY <2>1, <2>2
<1> QED
  BY <1>1, <1>2, <1>3 DEF Whole

\* What a job does to the running jobs: they are those before but for j, and
\* the job it moved to.
LEMMA MovedJobs ==
  ASSUME TypeOK, NEW j \in jobs, NEW stage, NEW content
  PROVE  /\ \E k : /\ k.img = j.img /\ k.stage = stage /\ k.input = j.input
                   /\ Moved(j, stage) = (jobs \ {j}) \cup {k}
         /\ \E k : /\ k.img = j.img /\ k.stage = stage /\ k.input = content
                   /\ Reading(j, content, stage) = (jobs \ {j}) \cup {k}
<1>1. j \in Job BY DEF TypeOK
<1>2. LET k == [j EXCEPT !.stage = stage]
      IN  k.img = j.img /\ k.stage = stage /\ k.input = j.input
  BY <1>1 DEF Job
<1>3. LET k == [j EXCEPT !.stage = stage, !.input = content]
      IN  k.img = j.img /\ k.stage = stage /\ k.input = content
  BY <1>1 DEF Job
<1> QED BY <1>2, <1>3 DEF Moved, Reading

\* A job of another image changes nothing for this one.
LEMMA OtherImage ==
  ASSUME TypeOK, NEW j \in Running, NEW k, k.img = j.img,
         \/ jobs' = (jobs \ {j}) \cup {k}
         \/ jobs' = jobs \ {j},
         NEW i \in Images, i # j.img, Whole(i),
         bbv'[i] = bbv[i], points'[i] = points[i],
         weights'[i] = weights[i], ckpts'[i] = ckpts[i]
  PROVE  Whole(i)'
<1>1. \A m : m.img = i => (m \in Running' <=> m \in Running)
  BY DEF Running
<1> QED
  BY <1>1, Untouched

\* A job that ends, and what it leaves of its image.
LEMMA JobEnds ==
  ASSUME TypeOK, NEW j \in Running, NEW status \in Ended, Ends(j, status),
         NEW i \in Images
  PROVE  /\ i # j.img /\ Whole(i)
           /\ bbv'[i] = bbv[i] /\ points'[i] = points[i]
           /\ weights'[i] = weights[i] /\ ckpts'[i] = ckpts[i]
             => Whole(i)'
         /\ (\A m \in Running : m.img = i => m = j)
             => \A m \in jobs' : m.img = i => m.stage \in Ended
<1>1. j \in jobs
  BY DEF Running
<1>2. PICK k : /\ k.img = j.img /\ k.stage = status
               /\ Moved(j, status) = (jobs \ {j}) \cup {k}
  BY <1>1, MovedJobs
<1>3. jobs' = (jobs \ {j}) \cup {k} \/ jobs' = jobs \ {j}
  BY <1>2 DEF Ends
<1>4. ASSUME i # j.img, Whole(i),
             bbv'[i] = bbv[i], points'[i] = points[i],
             weights'[i] = weights[i], ckpts'[i] = ckpts[i]
      PROVE  Whole(i)'
  BY <1>2, <1>3, <1>4, OtherImage
<1>5. ASSUME \A m \in Running : m.img = i => m = j
      PROVE  \A m \in jobs' : m.img = i => m.stage \in Ended
  BY <1>2, <1>3, <1>5 DEF Running
<1> QED
  BY <1>4, <1>5

LEMMA BbvJobWhole ==
  ASSUME TypeOK, CkptsHaveWeights, WholeInv, NEW j \in Running,
         BbvStart(j) \/ BbvEnd(j), NEW i \in Images \ spoilt'
  PROVE  Whole(i)'
<1>1. j \in jobs /\ j.img \in Images /\ j.stage \notin Ended
  BY DEF TypeOK, Job, Running
<1>2. \A n \in Images : bbv[n] \in Content /\ n # j.img => bbv'[n] = bbv[n]
  BY DEF BbvStart, BbvEnd, TypeOK
<1>3. UNCHANGED <<points, weights, ckpts>>
  BY DEF BbvStart, BbvEnd, saved
<1>4. CASE BbvStart(j)
  <2>1. spoilt' = spoilt /\ Whole(i)
    BY <1>4 DEF BbvStart, WholeInv
  <2>0. jobs' = Moved(j, "bbv")
    BY <1>4 DEF BbvStart
  <2>2. PICK k : /\ k.img = j.img /\ k.stage = "bbv" /\ k.input = j.input
                 /\ jobs' = (jobs \ {j}) \cup {k}
    BY <1>1, <2>0, MovedJobs
  <2>3. CASE i # j.img
    BY <1>2, <1>3, <2>1, <2>2, <2>3, OtherImage DEF TypeOK
  <2>4. CASE i = j.img
    <3>1. /\ \A m \in Running : m.img = i => m = j
          /\ weights[i] # "bad" /\ ckpts[i] \notin {"part", "bad"}
          /\ weights[i] = "good" => points[i] = "good"
      BY <1>4, <2>1, <2>4, JobAtWork DEF BbvStart
    <3>2. \A m \in jobs' : m.img = i => m = k \/ m.stage \in Ended
      BY <2>2, <3>1 DEF Running
    <3>3. JobTold(k)'
      BY <2>2 DEF JobTold
    <3>4. k \in jobs' /\ k.img = i
      BY <2>2, <2>4
    <3> QED
      BY <1>3, <2>2, <3>1, <3>2, <3>3, <3>4, GoesOn
  <2> QED
    BY <2>3, <2>4
<1>5. CASE BbvEnd(j)
  <2>1. Ends(j, "ok") /\ "ok" \in Ended /\ j.stage = "bbv"
    BY <1>5 DEF BbvEnd, Ended
  <2>2. CASE i # j.img
    <3>1. Whole(i)
      BY <1>5, <2>2 DEF BbvEnd, WholeInv
    <3> QED
      BY <1>2, <1>3, <2>1, <2>2, <3>1, JobEnds DEF TypeOK
  <2>3. CASE i = j.img /\ i \notin spoilt
    <3>1. Whole(i)
      BY <2>3 DEF WholeInv
    <3>2. /\ \A m \in Running : m.img = i => m = j
          /\ weights[i] # "bad" /\ ckpts[i] \notin {"part", "bad"}
          /\ weights[i] = "good" => points[i] = "good"
      BY <2>1, <2>3, <3>1, JobAtWork
    <3>3. OthersAt(j, {"bbv"}) = {}
      BY <2>3, <3>2, StagesTold DEF OthersAt, Running
    <3>4. bbv'[i] = "good"
      BY <1>1, <1>5, <2>3, <3>3 DEF BbvEnd, TypeOK
    <3> QED
      BY <1>3, <2>1, <3>2, <3>4, JobEnds, ComesToRest
  <2>4. CASE i = j.img /\ i \in spoilt
    <3>1. OthersAt(j, Stages) = {} /\ weights[i] = "none"
      BY <1>5, <2>4 DEF BbvEnd
    <3>2. \A m \in jobs : m.stage \in Stages \cup Ended
      BY DEF TypeOK, Job
    <3>3. \A m \in Running : m.img = i => m = j
      BY <2>4, <3>1, <3>2 DEF OthersAt, Running
    <3>4. OthersAt(j, {"bbv"}) = {}
      BY <3>1 DEF OthersAt, Stages
    <3>5. bbv'[i] = "good"
      BY <1>1, <1>5, <2>4, <3>4 DEF BbvEnd, TypeOK
    <3>6. ckpts[i] = "none"
      BY <3>1 DEF CkptsHaveWeights
    <3> QED
      BY <1>3, <2>1, <3>1, <3>3, <3>5, <3>6, JobEnds, ComesToRest
  <2> QED
    BY <2>2, <2>3, <2>4
<1> QED
  BY <1>4, <1>5

\* A job that goes on as k, and what it makes of its image.
LEMMA JobGoesOn ==
  ASSUME TypeOK, NEW j \in Running, NEW k, k.img = j.img,
         jobs' = (jobs \ {j}) \cup {k},
         NEW i \in Images, Whole(i),
         i # j.img => /\ bbv'[i] = bbv[i] /\ points'[i] = points[i]
                      /\ weights'[i] = weights[i] /\ ckpts'[i] = ckpts[i],
         i = j.img => /\ JobTold(k)'
                      /\ bbv'[i] = "bad" => k.stage = "bbv"
                      /\ weights'[i] = "bad" => k.stage = "weights"
                      /\ ckpts'[i] # "bad" /\ (ckpts'[i] = "part" => k.stage = "saving")
                      /\ weights'[i] = "good" => points'[i] = "good"
  PROVE  Whole(i)'
<1>1. CASE i # j.img
  BY <1>1, OtherImage
<1>2. CASE i = j.img
  <2>1. \A m \in Running : m.img = i => m = j
    BY <1>2, JobAtWork
  <2>2. \A m \in jobs' : m.img = i => m = k \/ m.stage \in Ended
    BY <2>1 DEF Running
  <2> QED
    BY <1>2, <2>2, GoesOn
<1> QED
  BY <1>1, <1>2

LEMMA CkptJobWhole ==
  ASSUME TypeOK, FileInv, WholeInv, NEW j \in Running,
         \/ Process(j) \/ PointsSaved(j) \/ WeightsSaved(j)
         \/ LookIntoDir(j) \/ FirstCkpt(j) \/ CkptsSaved(j),
         NEW i \in Images \ spoilt'
  PROVE  Whole(i)'
<1>1. /\ j \in jobs /\ j.img \in Images /\ j.stage \notin Ended
      /\ JobFiles(j)
  BY DEF TypeOK, Job, Running, FileInv
<1>2. \A n \in Images : n # j.img =>
        /\ bbv'[n] = bbv[n] /\ points'[n] = points[n]
        /\ weights'[n] = weights[n] /\ ckpts'[n] = ckpts[n]
  BY DEF Process, PointsSaved, WeightsSaved, LookIntoDir, FirstCkpt,
         CkptsSaved, TypeOK, files, saved
<1>3. Whole(i) /\ "ok" \in Ended
  BY DEF Process, PointsSaved, WeightsSaved, LookIntoDir, FirstCkpt,
         CkptsSaved, WholeInv, Ended
<1>4. /\ bbv[i] \in Content /\ points[i] \in Content
      /\ weights[i] \in Content
  BY DEF TypeOK
<1>5. i = j.img =>
        /\ JobTold(j)
        /\ \A m \in Running : m.img = i => m = j
        /\ bbv[i] = "bad" => j.stage = "bbv"
        /\ weights[i] = "bad" => j.stage = "weights"
        /\ ckpts[i] # "bad" /\ (ckpts[i] = "part" => j.stage = "saving")
        /\ weights[i] = "good" => points[i] = "good"
  BY <1>3, JobAtWork
<1>6. ASSUME Ends(j, "ok"),
             i = j.img => /\ bbv'[i] # "bad" /\ weights'[i] # "bad"
                          /\ ckpts'[i] \notin {"part", "bad"}
                          /\ weights'[i] = "good" => points'[i] = "good"
      PROVE  Whole(i)'
  <2>1. CASE i # j.img
    BY <1>2, <1>3, <1>6, <2>1, JobEnds
  <2>2. CASE i = j.img
    BY <1>3, <1>5, <1>6, <2>2, JobEnds, ComesToRest
  <2> QED
    BY <2>1, <2>2
<1>7. CASE Process(j)
  <2>1. /\ j.stage = "start"
        /\ bbv' = bbv /\ weights' = weights /\ ckpts' = ckpts
    BY <1>7 DEF Process, saved
  <2>2. CASE Ends(j, "ok") /\ UNCHANGED points
    BY <1>5, <1>6, <2>1, <2>2
  <2>3. CASE /\ Analysed(j.img) /\ jobs' = Moved(j, "dir")
             /\ UNCHANGED points
    <3>1. PICK k : /\ k.img = j.img /\ k.stage = "dir" /\ k.input = j.input
                   /\ jobs' = (jobs \ {j}) \cup {k}
      BY <1>1, <2>3, MovedJobs
    <3>2. i = j.img => weights[i] = "good"
      BY <1>4, <1>5, <2>1, <2>3 DEF Analysed, Content
    <3>3. i = j.img => JobTold(k)'
      BY <2>1, <3>1, <3>2 DEF JobTold
    <3> QED
      BY <1>2, <1>3, <1>5, <2>1, <2>3, <3>1, <3>3, JobGoesOn
  <2>4. CASE /\ bbv[j.img] # "none" /\ ~Analysed(j.img)
             /\ jobs' = Reading(j, bbv[j.img], "points")
             /\ points' = [points EXCEPT ![j.img] = "bad"]
    <3>1. PICK k : /\ k.img = j.img /\ k.stage = "points"
                   /\ k.input = bbv[j.img]
                   /\ jobs' = (jobs \ {j}) \cup {k}
      BY <1>1, <2>4, MovedJobs
    <3>2. i = j.img => weights[i] = "none" /\ bbv[i] = "good"
      BY <1>4, <1>5, <2>1, <2>4 DEF Analysed, Content, WholeInv,
                                   WeightsHavePoints
    <3>3. i = j.img => JobTold(k)'
      BY <2>1, <3>1, <3>2 DEF JobTold
    <3> QED
      BY <1>2, <1>3, <1>5, <2>1, <3>1, <3>2, <3>3, JobGoesOn
  <2> QED
    BY <1>7, <2>2, <2>3, <2>4 DEF Process
<1>8. CASE PointsSaved(j)
  <2>1. /\ j.stage = "points" /\ jobs' = Moved(j, "weights")
        /\ points' = [points EXCEPT ![j.img] = j.input]
        /\ weights' = [weights EXCEPT ![j.img] = "bad"]
        /\ bbv' = bbv /\ ckpts' = ckpts
    BY <1>8 DEF PointsSaved, saved
  <2>2. PICK k : /\ k.img = j.img /\ k.stage = "weights" /\ k.input = j.input
                 /\ jobs' = (jobs \ {j}) \cup {k}
    BY <1>1, <2>1, MovedJobs
  <2>3. i = j.img => /\ j.input = "good" /\ points'[i] = "good"
                     /\ weights'[i] = "bad"
    BY <1>1, <1>5, <2>1 DEF JobTold, TypeOK
  <2>4. i = j.img => JobTold(k)'
    BY <2>2, <2>3 DEF JobTold
  <2> QED
    BY <1>2, <1>3, <1>5, <2>1, <2>2, <2>3, <2>4, JobGoesOn
<1>9. CASE WeightsSaved(j)
  <2>1. /\ j.stage = "weights" /\ jobs' = Moved(j, "dir")
        /\ weights' = [weights EXCEPT ![j.img] = j.input]
        /\ bbv' = bbv /\ points' = points /\ ckpts' = ckpts
    BY <1>9 DEF WeightsSaved, saved
  <2>2. PICK k : /\ k.img = j.img /\ k.stage = "dir" /\ k.input = j.input
                 /\ jobs' = (jobs \ {j}) \cup {k}
    BY <1>1, <2>1, MovedJobs
  <2>3. i = j.img => points'[i] = "good" /\ weights'[i] = "good"
    BY <1>1, <1>5, <2>1 DEF JobTold, TypeOK
  <2>4. i = j.img => JobTold(k)'
    BY <2>2, <2>3 DEF JobTold
  <2> QED
    BY <1>2, <1>3, <1>5, <2>1, <2>2, <2>3, <2>4, JobGoesOn
<1>10. CASE LookIntoDir(j)
  <2>1. /\ j.stage = "dir"
        /\ bbv' = bbv /\ points' = points /\ weights' = weights
        /\ ckpts' = ckpts
    BY <1>10 DEF LookIntoDir, files, saved
  <2>2. CASE Ends(j, "ok")
    BY <1>5, <1>6, <2>1, <2>2
  <2>3. CASE NoCkpts(j.img) /\ jobs' = Reading(j, points[j.img], "ckpt")
    <3>1. PICK k : /\ k.img = j.img /\ k.stage = "ckpt"
                   /\ k.input = points[j.img]
                   /\ jobs' = (jobs \ {j}) \cup {k}
      BY <1>1, <2>3, MovedJobs
    <3>2. i = j.img => /\ weights[i] = "good" /\ points[i] = "good"
                       /\ ckpts[i] = "none"
      BY <1>5, <2>1, <2>3 DEF JobTold, NoCkpts
    <3>3. i = j.img => JobTold(k)'
      BY <2>1, <3>1, <3>2 DEF JobTold
    <3> QED
      BY <1>2, <1>3, <1>5, <2>1, <3>1, <3>3, JobGoesOn
  <2> QED
    BY <1>10, <2>2, <2>3 DEF LookIntoDir
<1>11. CASE FirstCkpt(j)
  <2>1. /\ j.stage = "ckpt" /\ jobs' = Moved(j, "saving")
        /\ ckpts' = [ckpts EXCEPT ![j.img] =
                       IF j.input = "good" /\ @ # "bad" THEN "part" ELSE "bad"]
        /\ bbv' = bbv /\ points' = points /\ weights' = weights
    BY <1>11 DEF FirstCkpt
  <2>2. PICK k : /\ k.img = j.img /\ k.stage = "saving" /\ k.input = j.input
                 /\ jobs' = (jobs \ {j}) \cup {k}
    BY <1>1, <2>1, MovedJobs
  <2>3. i = j.img => JobTold(k)'
    BY <1>5, <2>1, <2>2 DEF JobTold
  <2>4. i = j.img => ckpts'[i] = "part"
    BY <1>1, <1>5, <2>1 DEF JobTold, TypeOK
  <2> QED
    BY <1>2, <1>3, <1>5, <2>1, <2>2, <2>3, <2>4, JobGoesOn
<1>12. CASE CkptsSaved(j)
  <2>1. /\ Ends(j, "ok") /\ j.stage \in {"ckpt", "saving"}
        /\ bbv' = bbv /\ points' = points /\ weights' = weights
    BY <1>12 DEF CkptsSaved
  <2>2. i = j.img => ckpts'[i] \notin {"part", "bad"}
    <3> SUFFICES ASSUME i = j.img PROVE ckpts'[i] = "good"
      OBVIOUS
    <3>1. j.input = "good"
      BY <1>5, <2>1 DEF JobTold
    <3>2. OthersAt(j, {"saving"}) = {}
      BY <1>5, StagesTold DEF OthersAt, Running
    <3>3. j.stage = "saving"
      BY <1>12, <3>1 DEF CkptsSaved
    <3>4. ckpts[j.img] = "part"
      BY <1>1, <1>5, <3>3 DEF JobFiles
    <3>5. ckpts' = [ckpts EXCEPT ![j.img] = "good"]
      BY <1>12, <3>1, <3>2, <3>4 DEF CkptsSaved
    <3> QED
      BY <1>1, <3>5 DEF TypeOK
  <2> QED
    BY <1>5, <1>6, <2>1, <2>2
<1> QED
  BY <1>7, <1>8, <1>9, <1>10, <1>11, <1>12

LEMMA JobStepWhole ==
  ASSUME TypeOK, FileInv, WholeInv, JobStep PROVE WholeInv'
<1>1. PICK j \in jobs :
        \/ BbvStart(j) \/ BbvEnd(j)
        \/ Process(j) \/ PointsSaved(j) \/ WeightsSaved(j)
        \/ LookIntoDir(j) \/ FirstCkpt(j) \/ CkptsSaved(j)
  BY DEF JobStep
<1>2. j \in Running /\ JobFiles(j)
  BY <1>1 DEF Running, Ended, BbvStart, BbvEnd, Process, PointsSaved,
     WeightsSaved, LookIntoDir, FirstCkpt, CkptsSaved, FileInv
<1>3. \A i \in Images \ spoilt' : Whole(i)'
  BY <1>1, <1>2, BbvJobWhole, CkptJobWhole DEF FileInv
<1>4. WeightsHavePoints'
  <2>1. CASE PointsSaved(j)
    BY <1>2, <2>1 DEF PointsSaved, JobFiles, WholeInv, WeightsHavePoints, TypeOK
  <2>2. CASE WeightsSaved(j)
    BY <1>2, <2>2 DEF WeightsSaved, JobFiles, WholeInv, WeightsHavePoints, TypeOK
  <2>3. CASE \/ BbvStart(j) \/ BbvEnd(j) \/ Process(j)
             \/ LookIntoDir(j) \/ FirstCkpt(j) \/ CkptsSaved(j)
    <3>1. /\ weights' = weights
          /\ \A i \in Images : points[i] # "none" => points'[i] # "none"
      BY <2>3 DEF BbvStart, BbvEnd, Process, LookIntoDir, FirstCkpt,
         CkptsSaved, files, saved, TypeOK
    <3> QED
      BY <3>1 DEF WholeInv, WeightsHavePoints
  <2> QED
    BY <1>1, <2>1, <2>2, <2>3
<1> QED
  BY <1>3, <1>4 DEF WholeInv

\* A job that fails where it leaves something incomplete spoils its image;
\* elsewhere it leaves the image as it was.
LEMMA FailWhole ==
  ASSUME TypeOK, WholeInv, Fail, NEW i \in Images \ spoilt'
  PROVE  Whole(i)'
<1>1. PICK j \in jobs :
        /\ j.stage \in {"bbv", "points", "weights", "ckpt", "saving"}
        /\ Ends(j, AfterFailure(j.stage))
        /\ spoilt' = IF j.stage \in Fragile THEN spoilt \cup {j.img}
                     ELSE spoilt
  BY DEF Fail, AfterFailure, Ended
<1>2. /\ j \in Running /\ AfterFailure(j.stage) \in Ended
      /\ bbv' = bbv /\ points' = points /\ weights' = weights
      /\ ckpts' = ckpts
  BY <1>1 DEF Running, AfterFailure, Ended, Fail, files, saved
<1>3. Whole(i) /\ (i = j.img => j.stage \in {"points", "ckpt"})
  BY <1>1 DEF WholeInv, Fragile
<1>4. CASE i # j.img
  BY <1>1, <1>2, <1>3, <1>4, JobEnds
<1>5. CASE i = j.img
  <2>1. /\ \A m \in Running : m.img = i => m = j
        /\ bbv[i] # "bad" /\ weights[i] # "bad" /\ ckpts[i] \notin {"part", "bad"}
        /\ weights[i] = "good" => points[i] = "good"
    BY <1>2, <1>3, <1>5, JobAtWork
  <2> QED
    BY <1>1, <1>2, <2>1, JobEnds, ComesToRest
<1> QED
  BY <1>4, <1>5

\* When the machine goes down, an image that is not spoilt by that had no job
\* at a stage that leaves something incomplete.
LEMMA CrashWhole ==
  ASSUME TypeOK, WholeInv, Crash, NEW i \in Images \ spoilt'
  PROVE  Whole(i)'
<1>1. /\ jobs' = {}
      /\ bbv' = bbv /\ points' = points /\ weights' = weights
      /\ ckpts' = ckpts
  BY DEF Crash, files, saved
<1>2. Whole(i) /\ \A j \in jobs : j.img = i => j.stage \notin Fragile
  BY DEF Crash, WholeInv
<1>3. \A stage \in {"bbv", "weights", "saving"} : ~At(i, stage)
  BY <1>2 DEF At, Fragile
<1>4. /\ bbv[i] # "bad" /\ weights[i] # "bad" /\ ckpts[i] \notin {"part", "bad"}
      /\ weights[i] = "good" => points[i] = "good"
  BY <1>2, <1>3 DEF Whole, FilesTold
<1> QED
  BY <1>1, <1>4, ComesToRest

\* A second job on an image spoils it; the first has nothing to tell yet.
LEMMA SpawnWhole ==
  ASSUME TypeOK, WholeInv, Spawn, NEW i \in Images \ spoilt'
  PROVE  Whole(i)'
<1>1. PICK n \in script.todo :
        /\ jobs' = jobs \cup {[run |-> script.run, kind |-> script.kind,
                               img |-> n, stage |-> "start",
                               input |-> "none"]}
        /\ spoilt' = IF \E j \in Running : j.img = n
                     THEN spoilt \cup {n} ELSE spoilt
  BY DEF Spawn
<1>2. PICK k : /\ k.img = n /\ k.stage = "start"
               /\ jobs' = jobs \cup {k}
  BY <1>1
<1>3. /\ Whole(i)
      /\ bbv' = bbv /\ points' = points /\ weights' = weights
      /\ ckpts' = ckpts
  BY <1>1 DEF WholeInv, Spawn, files, saved
<1>4. CASE i # n
  <2>1. \A m : m.img = i => (m \in Running' <=> m \in Running)
    BY <1>2, <1>4 DEF Running
  <2> QED
    BY <1>3, <2>1, Untouched
<1>5. CASE i = n
  <2>1. \A m \in Running : m.img # i
    BY <1>1, <1>5
  <2>2. JobTold(k)'
    BY <1>2 DEF JobTold
  <2>3. \A m \in jobs' : m.img = i => m = k \/ m.stage \in Ended
    BY <1>2, <2>1 DEF Running
  <2> QED
    BY <1>2, <1>3, <1>5, <2>1, <2>2, <2>3, NoJobAtWork, GoesOn
<1> QED
  BY <1>4, <1>5

\* The other steps of the scripts forget only jobs that have ended.
LEMMA OtherStepWhole ==
  ASSUME TypeOK, WholeInv,
         \/ Limit \/ WaitNext \/ WaitAll \/ Complete \/ Interrupt
         \/ \E kind \in Scripts : Start(kind),
         NEW i \in Images \ spoilt'
  PROVE  Whole(i)'
<1>1. /\ spoilt' = spoilt
      /\ bbv' = bbv /\ points' = points /\ weights' = weights
      /\ ckpts' = ckpts
  BY DEF Limit, WaitNext, WaitAll, Complete, Interrupt, Start, files, saved
<1>2. Running' = Running
  <2>1. CASE WaitAll
    BY <2>1 DEF WaitAll, RunningOf, Running
  <2>2. CASE \/ Limit \/ WaitNext \/ Complete \/ Interrupt
             \/ \E kind \in Scripts : Start(kind)
    BY <2>2 DEF Limit, WaitNext, Complete, Interrupt, Start, Running
  <2> QED
    BY <2>1, <2>2
<1> QED
  BY <1>1, <1>2, Untouched DEF WholeInv

LEMMA NextWhole ==
  ASSUME TypeOK, FileInv, WholeInv, [Next]_vars PROVE WholeInv'
<1>1. CASE JobStep
  BY <1>1, JobStepWhole
<1>2. CASE ScriptStep \/ (\E kind \in Scripts : Start(kind))
           \/ Fail \/ Interrupt \/ Crash
  <2>1. UNCHANGED <<points, weights>>
    BY <1>2 DEF ScriptStep, Spawn, Limit, WaitNext, WaitAll, Complete, Start,
       Fail, Interrupt, Crash, files, saved
  <2>2. \A i \in Images \ spoilt' : Whole(i)'
    BY <1>2, SpawnWhole, OtherStepWhole, FailWhole, CrashWhole DEF ScriptStep
  <2> QED
    BY <2>1, <2>2 DEF WholeInv, WeightsHavePoints
<1>3. CASE UNCHANGED vars
  <2>1. \A i \in Images \ spoilt' : Whole(i)'
    BY <1>3, Untouched DEF WholeInv, vars, files, saved, Running
  <2> QED
    BY <1>3, <2>1 DEF WholeInv, WeightsHavePoints, vars, files, saved
<1> QED
  BY <1>1, <1>2, <1>3 DEF Next

LEMMA WholeAlways == Spec => [](TypeOK /\ FileInv /\ WholeInv)
<1>1. Init => WholeInv
  BY DEF Init, WholeInv, WeightsHavePoints, Whole, Alone, FilesTold, Running
<1>2. TypeOK /\ FileInv /\ WholeInv /\ [Next]_vars => WholeInv'
  BY NextWhole
<1> QED
  BY <1>1, <1>2, FileInvAlways, PTL DEF Spec

\* Of an image that nothing spoilt, no half-done file is left to be taken for
\* a whole one.
THEOREM NoneHalfDone == Spec => []NothingHalfDone
<1>1. WholeInv => NothingHalfDone
  BY NoJobAtWork DEF WholeInv, NothingHalfDone
<1> QED
  BY <1>1, WholeAlways, PTL

\* Only a job that had found the directory empty before they were complete
\* writes over complete checkpoints, and then two jobs had the image at once.
Overwritten(i) ==
  ckpts[i] = "good" /\ ckpts'[i] # "good" =>
    /\ i \in spoilt
    /\ \E j \in Running : /\ j.img = i /\ j.stage = "ckpt"
                         /\ j.run <= complete[i]

LEMMA StepOverwrites ==
  ASSUME TypeOK, FileInv, WholeInv, [Next]_vars, NEW i \in Images
  PROVE  Overwritten(i)
<1>1. CASE UNCHANGED saved
  BY <1>1 DEF saved, Overwritten
<1>2. ASSUME NEW j \in jobs, FirstCkpt(j) PROVE Overwritten(i)
  <2>1. JobFiles(j) /\ j.img \in Images /\ j.stage = "ckpt" /\ j \in Running
    BY <1>2 DEF FileInv, TypeOK, Job, FirstCkpt, Running, Ended
  <2>2. CASE i # j.img
    BY <1>2, <2>1, <2>2 DEF FirstCkpt, TypeOK, Overwritten
  <2>3. CASE i = j.img
    <3>1. i \notin spoilt => ckpts[i] = "none"
      BY <2>1, <2>3, JobAtWork DEF WholeInv, JobTold
    <3> QED
      BY <2>1, <2>3, <3>1 DEF JobFiles, Overwritten
  <2> QED
    BY <2>2, <2>3
<1>3. ASSUME NEW j \in jobs, CkptsSaved(j) PROVE Overwritten(i)
  <2>1. ckpts'[i] \in {ckpts[i], "good"}
    BY <1>3 DEF CkptsSaved, TypeOK, saved
  <2> QED
    BY <2>1 DEF Overwritten
<1>4. \/ UNCHANGED saved
      \/ \E j \in jobs : FirstCkpt(j) \/ CkptsSaved(j)
  <2>1. CASE JobStep
    BY <2>1 DEF JobStep, BbvStart, BbvEnd, Process, PointsSaved, WeightsSaved,
       LookIntoDir, files
  <2>2. CASE UNCHANGED vars
    BY <2>2 DEF vars, files
  <2>3. CASE ScriptStep \/ (\E kind \in Scripts : Start(kind))
             \/ Fail \/ Interrupt \/ Crash
    BY <2>3 DEF ScriptStep, Spawn, Limit, WaitNext, WaitAll, Complete, Start,
       Fail, Interrupt, Crash, files
  <2> QED
    BY <2>1, <2>2, <2>3 DEF Next
<1> QED
  BY <1>1, <1>2, <1>3, <1>4

\* Complete checkpoints are not touched by a later start, nor by any job when
\* no two had the image at once.
THEOREM CompleteCkptsStay == Spec => GoodCkptsAreKept
<1>1. TypeOK /\ FileInv /\ WholeInv /\ [Next]_vars =>
        [\A i \in Images :
           ckpts[i] = "good" /\ ckpts'[i] # "good" =>
             /\ i \in spoilt
             /\ \E j \in Running :
                  /\ j.img = i /\ j.stage = "ckpt"
                  /\ j.run <= complete[i]]_vars
  <2> SUFFICES ASSUME TypeOK, FileInv, WholeInv, [Next]_vars,
                      NEW i \in Images, ckpts[i] = "good", ckpts'[i] # "good"
               PROVE  /\ i \in spoilt
                      /\ \E j \in Running :
                           /\ j.img = i /\ j.stage = "ckpt"
                           /\ j.run <= complete[i]
    OBVIOUS
  <2> QED
    BY StepOverwrites DEF Overwritten
<1> QED
  BY <1>1, WholeAlways, PTL DEF Spec, GoodCkptsAreKept
=============================================================================
