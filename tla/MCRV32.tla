------------------------------- MODULE MCRV32 -------------------------------
(* The instance of RV32Laws for TLC: words of 8 bits with a float of 3     *)
(* bits of exponent, and the operands at whose edges the instructions      *)
(* change what they do: zeros, ones, the ends of the signed words, amounts *)
(* around the width, infinities and NaNs of both kinds.                    *)
EXTENDS RV32Laws

MCOperands ==
  {0, 1, 2, 7, 8, 9, 37,
   SignBit - 1, SignBit, SignBit + 1, 170, Ones - 1, Ones,
   Infinity, Infinity + 1, CanonicalNan, SignBit + Infinity,
   SignBit + Infinity + 1}
=============================================================================
