---------------------------- MODULE MCAuthSession ----------------------------
(* Instances of AuthSession for TLC. *)
EXTENDS AuthSession, TLC

CONSTANTS c1, c2

(* The shipped defaults; durable stores under a generated and under a      *)
(* pinned instance key; a pinned key with the cache in memory.             *)
MCConfigs ==
  {[pinned |-> FALSE, sealedCache |-> FALSE,
     keepsUsers |-> FALSE, keepsSessions |-> FALSE, keepsBlobs |-> FALSE],
   [pinned |-> FALSE, sealedCache |-> TRUE,
     keepsUsers |-> TRUE, keepsSessions |-> TRUE, keepsBlobs |-> TRUE],
   [pinned |-> TRUE, sealedCache |-> TRUE,
     keepsUsers |-> TRUE, keepsSessions |-> TRUE, keepsBlobs |-> TRUE],
   [pinned |-> TRUE, sealedCache |-> FALSE,
     keepsUsers |-> TRUE, keepsSessions |-> TRUE, keepsBlobs |-> TRUE]}

Symmetry == Permutations(Conn)
=============================================================================
