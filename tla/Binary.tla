------------------------------- MODULE Binary -------------------------------
(* Powers of two, for the shifts, masks and widths of impl/kern; a function  *)
(* of its own, for the proofs.                                               *)
EXTENDS Naturals

Pow2[n \in Nat] == IF n = 0 THEN 1 ELSE 2 * Pow2[n - 1]
=============================================================================
