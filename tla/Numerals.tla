------------------------------ MODULE Numerals ------------------------------
(***************************************************************************)
(* Numbers in binary.  The powers are a function of this module's own,     *)
(* because the provers know nothing of the ^ of Naturals.                  *)
(***************************************************************************)
EXTENDS Integers

Pow2[n \in Nat] == IF n = 0 THEN 1 ELSE 2 * Pow2[n - 1]

\* The number whose bits below n are those in x.
NumberOf(x, n) ==
  LET upto[k \in Nat] ==
        IF k = 0 THEN 0
        ELSE upto[k - 1] + (IF k - 1 \in x THEN Pow2[k - 1] ELSE 0)
  IN upto[n]
=============================================================================
