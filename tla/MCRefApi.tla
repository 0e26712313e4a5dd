----------------------------- MODULE MCRefApi ------------------------------
(* The instance of RefApi for TLC: what one host does, by the part of the  *)
(* API it is about, so that not every call meets every other.              *)
EXTENDS RefApi, TLC

\* The contexts are alike.
Symmetry == Permutations(Contexts)

MCHosts ==
  { \* the timer of two contexts, by stores and by synchronisation
    {"init", "destroy", "effects", "sim_time", "store"},
    {"init", "effects", "sim_time", "guest_store", "set_io_word", "sync"},
    \* the copy of a context: what it shows, and MTIP
    {"init", "get_state", "set_state", "copy_io_word", "sync", "both",
     "guest_store"},
    {"init", "get_state", "set_state", "sim_time", "set_io_word", "sync"},
    \* the CPU's state and the value for the next read of a CSR
    {"init", "clear_io_words", "sync", "effects", "delivery", "get_state",
     "set_state", "forced", "next_csr_read", "csr"} }
=============================================================================
