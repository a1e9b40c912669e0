--------------------------- MODULE MCSlotRuntime ---------------------------
(* Instances of SlotRuntime for TLC. *)
EXTENDS SlotRuntime, TLC

\* one account on a slot of the operator, two that share one of their own, one on a lazy slot
CONSTANTS s1, s2, s3, a1, a2, a3, a4
MCHome == (a1 :> s1) @@ (a2 :> s2) @@ (a3 :> s2) @@ (a4 :> s3)
Symmetry == Permutations(Call)
=============================================================================
