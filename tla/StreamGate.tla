---------------------------- MODULE StreamGate ----------------------------
(***************************************************************************)
(* What the delivery engine promises about concurrent-stream quotas, and   *)
(* nothing else: a set of held stream slots.  A slot is taken in one step, *)
(* only while its member and its account are both below their limits, and  *)
(* slots are given back in any number at any time (completion, revocation, *)
(* eviction by the watchdog).  Delivery.tla implements this specification. *)
(*                                                                         *)
(* The account limit belongs to the slot, not to the account: the engine   *)
(* reads it once per start, and the owner may change it afterwards.        *)
(***************************************************************************)
EXTENDS Integers, FiniteSets

CONSTANTS Session,      \* identities a start may mint
          Member,       \* users sessions are attributed to
          Account,      \* (provider, account id) pairs
          MemberLimit,  \* the instance policy's concurrentStreams
          Limits        \* the values an account limit takes

\* What the quotas ask of the constants; Delivery's constants satisfy it
LimitsAreNatural == MemberLimit \in Nat /\ Limits \subseteq Nat

VARIABLE held           \* the slots taken and not given back

Slot == [session: Session, member: Member, account: Account, limit: Limits]

HeldBy(m) == {h \in held : h.member = m}
HeldOn(a) == {h \in held : h.account = a}

Init == held = {}

Admit(h) ==
  /\ h.session \notin {g.session : g \in held}
  /\ Cardinality(HeldBy(h.member)) < MemberLimit
  /\ Cardinality(HeldOn(h.account)) < h.limit
  /\ held' = held \cup {h}

Release == \E gone \in SUBSET held : held' = held \ gone

Next == (\E h \in Slot : Admit(h)) \/ Release

Spec == Init /\ [][Next]_held

TypeOK == held \in SUBSET Slot

(* No member holds more slots than the instance policy allows, whatever    *)
(* accounts they are spread over.                                          *)
MemberQuota == \A m \in Member : Cardinality(HeldBy(m)) <= MemberLimit

(* Any group of slots held together on one account contains one that was   *)
(* admitted under a limit at least as large as the group: limits that were *)
(* lowered later never let a fresh start through, and limits that were     *)
(* raised later explain every slot above the old one.                      *)
AccountQuota ==
  \A a \in Account : \A group \in SUBSET HeldOn(a) :
    group # {} => \E h \in group : Cardinality(group) <= h.limit
=============================================================================
