---------------------------- MODULE MCDelivery ----------------------------
(* Instances of Delivery for TLC. *)
EXTENDS Delivery, TLC

CONSTANTS PolicyLimit

\* the policy of an account, with an override for the account "b"
MCAccountPolicy == [id \in AccountId |-> IF id = "b" THEN PolicyLimit + 1 ELSE PolicyLimit]

Symmetry == Permutations(Session) \cup Permutations(Member)
=============================================================================
