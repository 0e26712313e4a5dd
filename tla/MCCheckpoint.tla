---------------------------- MODULE MCCheckpoint ----------------------------
(* Instances of Checkpoint for TLC: the builds whose files are found. *)
EXTENDS Checkpoint

\* An older version without SDRAM, one that is unknown, and builds with
\* another size of a memory or of a device range.
Builds ==
  {[version |-> 2, differs |-> {}], [version |-> 1, differs |-> {}],
   [version |-> 3, differs |-> {"sdram"}], [version |-> 2, differs |-> {"ram"}],
   [version |-> 3, differs |-> {"ocsdc"}]}

NoBuilds == {}
=============================================================================
