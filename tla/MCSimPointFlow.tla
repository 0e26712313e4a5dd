-------------------------- MODULE MCSimPointFlow ---------------------------
(* Instances of SimPointFlow for TLC. *)
EXTENDS SimPointFlow

OneBbvRun == {FlowConfig("GEN_BBV", <<>>)}
=============================================================================
