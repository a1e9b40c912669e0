------------------------------ MODULE MCPacing ------------------------------
(* Instances of Pacing for TLC. *)
EXTENDS Pacing

\* a rate, which outranks the delay, one call at a time and a retry
MCBudgets == {[rate |-> 2, concurrent |-> 1, spacing |-> 1, retries |-> 1]}
=============================================================================
