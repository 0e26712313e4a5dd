----------------------------- MODULE MCSimLoop -----------------------------
(* Instances of SimLoop for TLC: the configurations of the runs. *)
EXTENDS SimLoop

Cfg(mode, points, max_insts) ==
  [mode |-> mode, points |-> points, max_insts |-> max_insts,
   bbv_opens |-> TRUE, saved_count |-> 0]

Limits == {0, 3, 5}

BbvConfigs == {[Cfg("GEN_BBV", <<>>, m) EXCEPT !.bbv_opens = b] :
                 m \in Limits, b \in BOOLEAN}

\* Unordered files, repeated intervals, a target that is never reached.
PointFiles == {<< <<0, 2>> >>, << <<2, 0>>, <<1, 1>> >>,
               << <<0, 0>>, <<3, 1>>, <<2, 2>> >>,
               << <<2, 0>>, <<9, 1>>, <<2, 2>> >>}

CkptConfigs == {Cfg("GEN_CHECKPOINT", f, m) : f \in PointFiles, m \in Limits}

SpecialFiles == {<<>>, << <<0, 1>> >>, << <<2, 1>> >>,
                 << <<4, 1>>, <<0, 2>>, <<4, 3>>, <<3, 4>> >>,
                 << <<1, 1>>, <<2, 2>>, <<99, 3>> >>}

SpecialConfigs == {Cfg("GEN_SPECIAL_CHECKPOINT", f, m) :
                     f \in SpecialFiles, m \in Limits}

RestoreConfigs == {[Cfg("RESTORE", <<>>, m) EXCEPT !.saved_count = n] :
                     m \in Limits, n \in {0, 1, 3}}

AllConfigs == BbvConfigs \cup CkptConfigs \cup SpecialConfigs
              \cup RestoreConfigs \cup {Cfg("NORMAL", <<>>, m) : m \in Limits}
=============================================================================
