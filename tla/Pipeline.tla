------------------------------ MODULE Pipeline ------------------------------
(***************************************************************************)
(* The two batch scripts: run_bbv.sh makes a BBV file of every image, and  *)
(* run_ckpt.sh makes of each BBV file the SimPoint points and weights and  *)
(* of the points the checkpoints.  Each image is a background job; a script*)
(* holds the number of its jobs down to MAX_JOBS.                          *)
(*                                                                         *)
(* A file is "none", "good", or "bad": incomplete, or made from something  *)
(* that was.  A directory of checkpoints may also be "part": what it holds *)
(* of them is good, but a job is not through with them, or never will be.  *)
(* Base names are taken to be distinct, so an image stands for its files.  *)
(*                                                                         *)
(* Simulators and SimPoint may fail, the machine may go down with all its  *)
(* processes, and Ctrl-C ends a script alone: background jobs of a script  *)
(* ignore SIGINT.  What was written stays, and a script may be run again.  *)
(*                                                                         *)
(* said, spoilt and complete are history variables.                        *)
(***************************************************************************)
EXTENDS FiniteSets, Integers

CONSTANTS
  Images,
  BbvMaxJobs, CkptMaxJobs,   (* MAX_JOBS of the two scripts                 *)
  MaxStarts, MaxFaults       (* bounds: starts of a script, and faults      *)

ASSUME PipelineAssumption ==
  /\ IsFiniteSet(Images)
  /\ BbvMaxJobs \in Nat \ {0} /\ CkptMaxJobs \in Nat \ {0}
  /\ MaxStarts \in Nat /\ MaxFaults \in Nat

Content == {"none", "bad", "good"}
Scripts == {"bbv", "ckpt"}
Runs    == 1 .. MaxStarts

VARIABLES
  bbv, points, weights,   (* bbv_log/<image>.bbv, .points, .weights         *)
  ckpts,                  (* ckpts/<image>/                                 *)
  jobs,                   (* the background jobs of every script run        *)
  script,                 (* the script in the foreground, and its place    *)
  starts, faults,
  said,                   (* the runs that have printed they are complete   *)
  spoilt,                 (* images of a job killed while it wrote, or that *)
                          (* two jobs were given at once                    *)
  complete                (* the starts made when an image's checkpoints    *)
                          (* were last complete                             *)

saved == <<ckpts, complete>>
files == <<bbv, points, weights, saved>>
vars  == <<files, jobs, script, starts, faults, said, spoilt>>

NoScript == [kind |-> "none", run |-> 0, todo |-> {}, phase |-> "read"]

Init ==
  /\ bbv = [i \in Images |-> "none"]
  /\ points = [i \in Images |-> "none"]
  /\ weights = [i \in Images |-> "none"]
  /\ ckpts = [i \in Images |-> "none"]
  /\ jobs = {}
  /\ script = NoScript
  /\ starts = 0
  /\ faults = 0
  /\ said = {}
  /\ spoilt = {}
  /\ complete = [i \in Images |-> 0]

-----------------------------------------------------------------------------
(* Jobs.  A job that has ended stays in jobs, as "ok" or "failed", until   *)
(* its shell forgets it.                                                   *)

Stages == {"start", "bbv", "points", "weights", "dir", "ckpt", "saving"}
Ended  == {"ok", "failed"}

Running    == {j \in jobs : j.stage \notin Ended}
RunningOf(r) == {j \in Running : j.run = r}

MaxJobs(kind) == IF kind = "bbv" THEN BbvMaxJobs ELSE CkptMaxJobs

\* Mutant: -le for -lt.
HasRoomOneMore(kind, r) == Cardinality(RunningOf(r)) <= MaxJobs(kind)
\* jobs -r against MAX_JOBS.
HasRoom(kind, r) == Cardinality(RunningOf(r)) < MaxJobs(kind)

Moved(j, stage) == (jobs \ {j}) \cup {[j EXCEPT !.stage = stage]}
Reading(j, content, stage) ==
  (jobs \ {j}) \cup {[j EXCEPT !.stage = stage, !.input = content]}

\* The end of a job.  The shell of run_ckpt.sh keeps its status for wait -n,
\* or has forgotten it when that is called.
Ends(j, status) ==
  \/ /\ script.kind = "ckpt" /\ script.run = j.run
     /\ jobs' = Moved(j, status)
  \/ jobs' = jobs \ {j}

-----------------------------------------------------------------------------
(* A job of run_bbv.sh.                                                    *)

\* The jobs, other than j, that write the files of j's image at the stages.
OthersAt(j, stages) ==
  {k \in jobs \ {j} : k.img = j.img /\ k.stage \in stages}

\* The simulator truncates the file ...
BbvStart(j) ==
  /\ j.kind = "bbv" /\ j.stage = "start"
  /\ bbv' = [bbv EXCEPT ![j.img] = "bad"]
  /\ jobs' = Moved(j, "bbv")
  /\ UNCHANGED <<points, weights, saved, spoilt>>

\* ... and has written all of it.  Nothing is lost when nothing was made of
\* an earlier, incomplete one.
BbvEnd(j) ==
  /\ j.stage = "bbv"
  /\ LET alone == OthersAt(j, {"bbv"}) = {}
         first == OthersAt(j, Stages) = {} /\ weights[j.img] = "none"
     IN /\ bbv' = [bbv EXCEPT ![j.img] = IF alone THEN "good" ELSE "bad"]
        /\ spoilt' = IF first THEN spoilt \ {j.img} ELSE spoilt
  /\ Ends(j, "ok")
  /\ UNCHANGED <<points, weights, saved>>

-----------------------------------------------------------------------------
(* A job of run_ckpt.sh: process_benchmark.                                *)

\* Mutant: && for || in the test that they are missing.
AnalysedEither(i) == points[i] # "none" \/ weights[i] # "none"
\* Points and weights are kept if both are there.
Analysed(i) == points[i] # "none" /\ weights[i] # "none"

\* Mutant: the directory is not looked at.
NoCkptsAlways(i) == TRUE
\* The directory is empty.
NoCkpts(i) == ckpts[i] = "none"

Process(j) ==
  /\ j.kind = "ckpt" /\ j.stage = "start"
  /\ \/ bbv[j.img] = "none" /\ Ends(j, "ok") /\ UNCHANGED points
     \/ /\ bbv[j.img] # "none" /\ Analysed(j.img)
        /\ jobs' = Moved(j, "dir")
        /\ UNCHANGED points
     \/ /\ bbv[j.img] # "none" /\ ~Analysed(j.img)
        /\ jobs' = Reading(j, bbv[j.img], "points")
        /\ points' = [points EXCEPT ![j.img] = "bad"]
  /\ UNCHANGED <<bbv, weights, saved, spoilt>>

\* SimPoint saves the points, then the weights.
PointsSaved(j) ==
  /\ j.stage = "points"
  /\ points' = [points EXCEPT ![j.img] = j.input]
  /\ weights' = [weights EXCEPT ![j.img] = "bad"]
  /\ jobs' = Moved(j, "weights")
  /\ UNCHANGED <<bbv, saved, spoilt>>

WeightsSaved(j) ==
  /\ j.stage = "weights"
  /\ weights' = [weights EXCEPT ![j.img] = j.input]
  /\ jobs' = Moved(j, "dir")
  /\ UNCHANGED <<bbv, points, saved, spoilt>>

LookIntoDir(j) ==
  /\ j.stage = "dir"
  /\ \/ ~NoCkpts(j.img) /\ Ends(j, "ok")
     \/ /\ NoCkpts(j.img)
        /\ jobs' = Reading(j, points[j.img], "ckpt")
  /\ UNCHANGED <<files, spoilt>>

\* The first file is truncated, whoever else has written it.
FirstCkpt(j) ==
  /\ j.stage = "ckpt"
  /\ ckpts' = [ckpts EXCEPT ![j.img] =
                  IF j.input = "good" /\ @ # "bad" THEN "part" ELSE "bad"]
  /\ jobs' = Moved(j, "saving")
  /\ UNCHANGED <<bbv, points, weights, spoilt, complete>>

\* The simulator ends well.  The set is whole unless another job is writing
\* the same files.  With bad points there may have been nothing to save.
CkptsSaved(j) ==
  /\ \/ /\ j.stage = "saving"
        /\ IF ckpts[j.img] = "part" /\ OthersAt(j, {"saving"}) = {}
             THEN /\ ckpts' = [ckpts EXCEPT ![j.img] = "good"]
                  /\ complete' = [complete EXCEPT ![j.img] = starts]
             ELSE UNCHANGED saved
     \/ j.stage = "ckpt" /\ j.input = "bad" /\ UNCHANGED saved
  /\ Ends(j, "ok")
  /\ UNCHANGED <<bbv, points, weights, spoilt>>

JobStep ==
  /\ \E j \in jobs :
       \/ BbvStart(j) \/ BbvEnd(j)
       \/ Process(j) \/ PointsSaved(j) \/ WeightsSaved(j)
       \/ LookIntoDir(j) \/ FirstCkpt(j) \/ CkptsSaved(j)
  /\ UNCHANGED <<script, starts, faults, said>>

-----------------------------------------------------------------------------
(* The scripts.                                                            *)

Start(kind) ==
  /\ script = NoScript
  /\ starts < MaxStarts
  /\ starts' = starts + 1
  /\ script' = [kind |-> kind, run |-> starts + 1, todo |-> Images,
                phase |-> "read"]
  /\ UNCHANGED <<files, jobs, faults, said, spoilt>>

\* The next image that find names; ( ... ) & .
Spawn ==
  /\ script.phase = "read"
  /\ \E i \in script.todo :
       /\ jobs' = jobs \cup {[run |-> script.run, kind |-> script.kind,
                              img |-> i, stage |-> "start",
                              input |-> "none"]}
       /\ script' = [script EXCEPT !.todo = @ \ {i}, !.phase = "limit"]
       /\ spoilt' = IF \E j \in Running : j.img = i
                    THEN spoilt \cup {i} ELSE spoilt
  /\ UNCHANGED <<files, starts, faults, said>>

\* The loop that counts the jobs: run_bbv.sh sleeps and counts again,
\* run_ckpt.sh goes into wait -n.
Limit ==
  /\ script.phase = "limit"
  /\ LET room == HasRoom(script.kind, script.run)
     IN /\ room \/ script.kind = "ckpt"
        /\ script' = [script EXCEPT !.phase = IF room THEN "read" ELSE "full"]
  /\ UNCHANGED <<files, jobs, starts, faults, said, spoilt>>

\* Mutant: a wait that blocks when every job has ended.
ChildlessNever(r) == FALSE
\* No job is left that wait -n could wait for; it fails at once.
Childless(r) == {j \in jobs : j.run = r} = {}

\* wait -n || wait: the end of a job that failed, or none to wait for, leads
\* to the wait for all of them.
WaitNext ==
  /\ script.phase = "full"
  /\ \/ \E j \in jobs :
          /\ j.run = script.run /\ j.stage \in Ended
          /\ jobs' = jobs \ {j}
          /\ script' = [script EXCEPT !.phase =
                          IF j.stage = "failed" THEN "drain" ELSE "limit"]
     \/ /\ Childless(script.run)
        /\ script' = [script EXCEPT !.phase = "drain"]
        /\ UNCHANGED jobs
  /\ UNCHANGED <<files, starts, faults, said, spoilt>>

WaitAll ==
  /\ script.phase = "drain"
  /\ RunningOf(script.run) = {}
  /\ jobs' = {j \in jobs : j.run # script.run}
  /\ script' = [script EXCEPT !.phase = "limit"]
  /\ UNCHANGED <<files, starts, faults, said, spoilt>>

\* The wait at the end.  The jobs of run_ckpt.sh are children of the subshell
\* its loop is in, behind the pipe: the script itself has none to wait for.
WaitsForJobs(kind) == kind = "bbv"

Complete ==
  /\ script.kind \in Scripts
  /\ script.phase = "read" /\ script.todo = {}
  /\ WaitsForJobs(script.kind) => RunningOf(script.run) = {}
  /\ said' = said \cup {script.run}
  /\ jobs' = Running
  /\ script' = NoScript
  /\ UNCHANGED <<files, starts, faults, spoilt>>

ScriptStep == Spawn \/ Limit \/ WaitNext \/ WaitAll \/ Complete

-----------------------------------------------------------------------------
(* Faults.                                                                 *)

\* What a job leaves behind, killed at one of these, is not made again.
Fragile == {"bbv", "weights", "saving"}

\* Mutant: the failure of SimPoint is only logged.
AfterFailureLogged(stage) ==
  CASE stage = "bbv" -> "ok"
    [] stage \in {"points", "weights"} -> "dir"
    [] OTHER -> "failed"
\* A simulator or SimPoint fails.  run_bbv.sh only logs the exit code;
\* process_benchmark returns 1.
AfterFailure(stage) == IF stage = "bbv" THEN "ok" ELSE "failed"

Fail ==
  /\ faults < MaxFaults
  /\ \E j \in jobs :
       /\ j.stage \in {"bbv", "points", "weights", "ckpt", "saving"}
       /\ LET after == AfterFailure(j.stage)
          IN IF after \in Ended THEN Ends(j, after) ELSE jobs' = Moved(j, after)
       /\ spoilt' = IF j.stage \in Fragile THEN spoilt \cup {j.img} ELSE spoilt
  /\ faults' = faults + 1
  /\ UNCHANGED <<files, script, starts, said>>

Interrupt ==
  /\ faults < MaxFaults
  /\ script.kind \in Scripts
  /\ script' = NoScript
  /\ jobs' = Running
  /\ faults' = faults + 1
  /\ UNCHANGED <<files, starts, said, spoilt>>

Crash ==
  /\ faults < MaxFaults
  /\ spoilt' = spoilt \cup {j.img : j \in {k \in jobs : k.stage \in Fragile}}
  /\ jobs' = {}
  /\ script' = NoScript
  /\ faults' = faults + 1
  /\ UNCHANGED <<files, starts, said>>

Next ==
  \/ \E kind \in Scripts : Start(kind)
  \/ ScriptStep
  \/ JobStep
  \/ Fail \/ Interrupt \/ Crash

\* The machine runs the scripts, and every simulation and analysis ends.
Fairness == WF_vars(ScriptStep) /\ WF_vars(JobStep)

Spec == Init /\ [][Next]_vars /\ Fairness
-----------------------------------------------------------------------------
(* Properties.                                                             *)

Job == [run : Runs, kind : Scripts, img : Images, stage : Stages \cup Ended,
        input : Content]

\* Every variable has its type.  A job has an input from the time it reads.
TypeOK ==
  /\ bbv \in [Images -> Content]
  /\ points \in [Images -> Content] /\ weights \in [Images -> Content]
  /\ ckpts \in [Images -> Content \cup {"part"}]
  /\ complete \in [Images -> 0 .. MaxStarts]
  /\ jobs \subseteq Job
  /\ script \in [kind : Scripts \cup {"none"}, run : 0 .. MaxStarts,
                 todo : SUBSET Images,
                 phase : {"read", "limit", "full", "drain"}]
  /\ starts \in 0 .. MaxStarts
  /\ faults \in 0 .. MaxFaults
  /\ said \subseteq Runs
  /\ spoilt \subseteq Images

\* A run of a script never has more than MAX_JOBS jobs running, whatever
\* fails: also when the wait for all of them follows the failure of one
\* (run_ckpt.sh:166, run_bbv.sh:65).
JobLimit ==
  \A j \in jobs : Cardinality(RunningOf(j.run)) <= MaxJobs(j.kind)

\* Of an image no job of which was killed or failed while it wrote, and that
\* no two jobs worked on at once, no half-done file is left for the next
\* start to take for a whole one, however often the scripts were run,
\* interrupted or killed in between (run_ckpt.sh:92, :125, run_bbv.sh:57).
NothingHalfDone ==
  \A i \in Images \ spoilt :
    (\A j \in Running : j.img # i) =>
      /\ bbv[i] # "bad" /\ weights[i] # "bad"
      /\ ckpts[i] \notin {"part", "bad"}
      /\ weights[i] = "good" => points[i] = "good"

\* Checkpoints are made only once SimPoint has come to its weights: none is
\* left without the weight it is used with (SIMPOINT_SPECINT2006.md:185).
CkptsHaveWeights ==
  \A i \in Images :
    ckpts[i] # "none" => points[i] # "none" /\ weights[i] # "none"

\* A script that has said it is done is: none of the jobs it started is still
\* running.  True of run_bbv.sh; run_ckpt.sh says "All tasks completed."
\* (run_ckpt.sh:175).
CompletedMeansDone == \A r \in said : RunningOf(r) = {}

\* Complete checkpoints of an image are made once: no start made after they
\* were complete touches them, whatever was killed or interrupted before; nor
\* does any job, when no two had the image at once.  A job that had found the
\* directory empty before another filled it still writes them all over again
\* (run_ckpt.sh:125): that case is left out by name.
GoodCkptsAreKept ==
  [][\A i \in Images :
       ckpts[i] = "good" /\ ckpts'[i] # "good" =>
         /\ i \in spoilt
         /\ \E j \in Running :
              /\ j.img = i /\ j.stage = "ckpt"
              /\ j.run <= complete[i]]_vars

\* A script comes to its end, also when the jobs that hold it up fail or are
\* those of a start before it (run_ckpt.sh:166, run_bbv.sh:65).
ScriptsEnd == \A r \in Runs : (script.run = r) ~> (script.run # r)
=============================================================================
