--------------------------- MODULE IdentityHistory ---------------------------
(***************************************************************************)
(* What the item registry promises of the past (docs/PLAN.md 2.3, 5.3):    *)
(* entries are never destroyed, and the entries an item has belonged to    *)
(* are a list that only grows at its end, so that whatever refers to an    *)
(* older one still finds it.                                               *)
(***************************************************************************)
EXTENDS Sequences

CONSTANTS Entry, Item

VARIABLES
  known,  \* entries ever created
  trail   \* of each item: the entries it has belonged to, in order

TypeOK == known \subseteq Entry /\ trail \in [Item -> Seq(Entry)]

Init == known = {} /\ trail = [i \in Item |-> <<>>]

Create(e) == known' = known \cup {e} /\ UNCHANGED trail

Belong(i, e) ==
  /\ e \in known
  /\ trail' = [trail EXCEPT ![i] = Append(@, e)]
  /\ UNCHANGED known

Next == \E e \in Entry : Create(e) \/ \E i \in Item : Belong(i, e)

Spec == Init /\ [][Next]_<<known, trail>>

=============================================================================
