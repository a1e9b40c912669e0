-------------------------- MODULE MCAccountSharing --------------------------
(* Instances of AccountSharing for TLC. *)
EXTENDS AccountSharing, TLC

MCLinks == [sharing: Sharing, cap: {0}, policy: {"default"}]

\* any sharing, alone or with a cap, or with a cap and a policy for it
MCEdits ==
  [sharing: Sharing, cap: {Unset}, policy: {Unset}] \cup
  [sharing: Sharing \cup {Unset}, cap: {1}, policy: {"enforce-now", Unset}]

Symmetry == Permutations(Call)
=============================================================================
