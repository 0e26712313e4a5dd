---------------------------- MODULE MCPipeline -----------------------------
(* The instances of Pipeline for TLC.                                      *)
EXTENDS Pipeline
=============================================================================
