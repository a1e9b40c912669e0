---------------------------- MODULE MCSourceCache ----------------------------
(* Instances of SourceCache for TLC. *)
EXTENDS SourceCache, TLC

CONSTANTS Items   \* how many

MCItem == 1..Items
Symmetry == Permutations(Run)
=============================================================================
