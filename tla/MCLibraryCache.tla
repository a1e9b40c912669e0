-------------------------- MODULE MCLibraryCache --------------------------
(* Instances of LibraryCache for TLC. *)
EXTENDS LibraryCache

CONSTANTS u1, u2, a1, r1, e1

=============================================================================
