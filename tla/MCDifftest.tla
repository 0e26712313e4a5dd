---------------------------- MODULE MCDifftest -----------------------------
(* The instance of Difftest for TLC. *)
EXTENDS Difftest
=============================================================================
