------------------------------- MODULE Pacing -------------------------------
(***************************************************************************)
(* Pacing of the calls of one provider slot: the limiter of each account   *)
(* and the governor of the slot (core/internal/pacing/pacing.go), and the  *)
(* client that routes every call through both                              *)
(* (core/internal/slotwiring/pacing.go).                                   *)
(*                                                                         *)
(* Time is relative: a lead, a wait and a backoff are the ticks that are   *)
(* left of them, and every tick takes one off. The code only ever compares *)
(* such an instant with now, so nothing else of the clock matters, and     *)
(* time needs no bound. A sleeper may wake late, never early.              *)
(***************************************************************************)
EXTENDS Integers, FiniteSets

CONSTANTS
  Caller,     \* calls: user traffic, refreshes, deliveries
  Account,
  Budgets,    \* the budgets an operator may declare
  Spacing,    \* ticks between two calls of the slot, 0 without a rate
  Base, Max,  \* of the backoff
  Width,      \* bits of a duration
  MaxHangUps, \* bound (model checking only)
  None        \* no limiter yet

BudgetType == [rate: Nat, concurrent: Nat, spacing: Nat, retries: Nat]
LimiterState == [budget: BudgetType, inflight: Nat, lead: Nat]
\* the zero Budget: no limit on any axis
Off == [rate |-> 0, concurrent |-> 0, spacing |-> 0, retries |-> 0]

ASSUME ConstantsAssumption ==
  /\ IsFiniteSet(Caller) /\ Budgets \subseteq BudgetType
  /\ {Spacing, Base, Max, Width, MaxHangUps} \subseteq Nat /\ Base > 0 /\ Max >= Base
  /\ None \notin LimiterState

\* the interval of a budget: a rate outranks a delay between requests
Interval(b) == IF b.rate > 0 THEN b.rate ELSE b.spacing

Stage == {"idle", "entering", "asking", "sleeping", "admitted", "parked", "calling",
          "releasing", "noting", "done"}
CallState ==
  [account: Account, stage: Stage,
   retries: Nat,       \* of the budget the call works under
   attempt: Nat,
   wait: Nat,          \* until its slot
   slept: BOOLEAN,     \* it took its concurrency slot after a wait
   result: {"none", "ok", "failed", "cancelled", "busy"}, \* busy: turned away by the governor
   gone: BOOLEAN]      \* its caller's context is cancelled

Blank(a, stage) ==
  [account |-> a, stage |-> stage, retries |-> 0, attempt |-> 0, wait |-> 0, slept |-> FALSE,
   result |-> "none", gone |-> FALSE]

VARIABLES
  budget,    \* what the slot's client holds of each account
  limiter,   \* of each account: its budget, the calls in flight, the lead of the next slot
  lead,      \* of the governor: ticks until its next slot
  fails, backoff, \* of the governor
  waiters,   \* callers parked in the governor
  call,
  hangups    \* bound (model checking only)

governor == <<lead, fails, backoff, waiters>>
vars == <<budget, limiter, lead, fails, backoff, waiters, call, hangups>>

\* all but the counters of errors and hang-ups, and the backoff that grows with the errors
TypeOK ==
  /\ budget \in [Account -> BudgetType]
  /\ limiter \in [Account -> LimiterState \cup {None}]
  /\ lead \in Nat /\ waiters \in Nat
  /\ call \in [Caller -> CallState]

Init ==
  /\ budget \in [Account -> Budgets \cup {Off}]
  /\ limiter = [a \in Account |-> None]
  /\ lead = 0 /\ fails = 0 /\ backoff = 0 /\ waiters = 0
  /\ call \in [Caller -> {Blank(a, "idle") : a \in Account}]
  /\ hangups = 0

Less(n) == IF n > 0 THEN n - 1 ELSE 0
Tick ==
  /\ limiter' = [a \in Account |-> IF limiter[a] = None THEN None
                                   ELSE [limiter[a] EXCEPT !.lead = Less(@)]]
  /\ lead' = Less(lead) /\ backoff' = Less(backoff)
  /\ call' = [c \in Caller |-> [call[c] EXCEPT !.wait = Less(@)]]
  /\ UNCHANGED <<budget, fails, waiters, hangups>>

\* external: a caller hangs up
HangUp(c) ==
  /\ call[c].stage \notin {"idle", "done"} /\ ~call[c].gone
  /\ hangups < MaxHangUps /\ hangups' = hangups + 1
  /\ call' = [call EXCEPT ![c].gone = TRUE]
  /\ UNCHANGED <<budget, limiter, governor>>

-----------------------------------------------------------------------------
(* The slot's client.                                                      *)

\* a runtime link registers the budget of an account; a limiter made before keeps its own
SetBudget(a, b) ==
  /\ budget' = [budget EXCEPT ![a] = b]
  /\ UNCHANGED <<limiter, governor, call, hangups>>

\* the limiter is made when first asked for ...
Enter(c) ==
  LET a == call[c].account IN
  /\ call[c].stage = "idle"
  /\ limiter' = [limiter EXCEPT ![a] =
       IF @ = None THEN [budget |-> budget[a], inflight |-> 0, lead |-> 0] ELSE @]
  /\ call' = [call EXCEPT ![c].stage = "entering"]
  /\ UNCHANGED <<budget, governor, hangups>>

\* ... and the budget is read again for the retries: what it is by then
ReadBudget(c) ==
  /\ call[c].stage = "entering"
  /\ call' = [call EXCEPT ![c].stage = "asking", ![c].retries = budget[call[c].account].retries]
  /\ UNCHANGED <<budget, limiter, governor, hangups>>

-----------------------------------------------------------------------------
(* Limiter.                                                                *)

\* a slip: off by one
BugFull(l) == l.budget.concurrent > 0 /\ l.inflight > l.budget.concurrent
Full(l) == l.budget.concurrent > 0 /\ l.inflight >= l.budget.concurrent
\* the lead once a caller took the next slot: it is reserved before the caller sleeps into it
BugReserved(l) == Interval(l.budget)
Reserved(l) == l.lead + Interval(l.budget)

\* a slot that is free is taken, a future one reserved; a full limiter is polled
Ask(c) ==
  LET a == call[c].account  l == limiter[a] IN
  /\ call[c].stage = "asking" /\ ~Full(l)
  /\ limiter' = [limiter EXCEPT ![a].lead = IF Interval(l.budget) = 0 THEN @ ELSE Reserved(l),
                                ![a].inflight = IF l.lead = 0 THEN @ + 1 ELSE @]
  /\ call' = [call EXCEPT ![c].stage = IF l.lead = 0 THEN "admitted" ELSE "sleeping",
                          ![c].wait = l.lead, ![c].slept = FALSE]
  /\ UNCHANGED <<budget, governor, hangups>>

\* the sleeper enters without looking again
Wake(c) ==
  /\ call[c].stage = "sleeping" /\ call[c].wait = 0
  /\ limiter' = [limiter EXCEPT ![call[c].account].inflight = @ + 1]
  /\ call' = [call EXCEPT ![c].stage = "admitted", ![c].slept = TRUE]
  /\ UNCHANGED <<budget, governor, hangups>>

\* of a call that returned nothing is left
Over(c) == [call EXCEPT ![c] = Blank(@.account, "done")]

\* a poller or a sleeper whose context ends leaves; the slot it reserved stays reserved
GiveUp(c) ==
  /\ call[c].gone
  /\ \/ call[c].stage = "asking" /\ Full(limiter[call[c].account])
     \/ call[c].stage = "sleeping"
  /\ call' = Over(c)
  /\ UNCHANGED <<budget, limiter, governor, hangups>>

\* a slip: a call the governor turned away keeps its place
BugRelease(c) ==
  LET a == call[c].account IN
  /\ call[c].stage = "releasing"
  /\ limiter' = [limiter EXCEPT ![a].inflight = IF call[c].result = "busy" THEN @ ELSE Less(@)]
  /\ call' = IF call[c].result = "busy" THEN Over(c) ELSE [call EXCEPT ![c].stage = "noting"]
  /\ UNCHANGED <<budget, governor, hangups>>
Release(c) ==
  LET a == call[c].account IN
  /\ call[c].stage = "releasing"
  /\ limiter' = [limiter EXCEPT ![a].inflight = Less(@)]
  /\ call' = IF call[c].result = "busy" THEN Over(c) ELSE [call EXCEPT ![c].stage = "noting"]
  /\ UNCHANGED <<budget, governor, hangups>>

-----------------------------------------------------------------------------
(* Governor.                                                               *)

\* a provider in backoff turns a call away at once ...
Refuse(c) ==
  /\ call[c].stage = "admitted" /\ backoff > 0
  /\ call' = [call EXCEPT ![c].stage = "releasing", ![c].result = "busy"]
  /\ UNCHANGED <<budget, limiter, governor, hangups>>

\* ... or the call takes the next slot of the provider, and is parked until it comes
Pass(c) ==
  /\ call[c].stage = "admitted" /\ backoff = 0
  /\ lead' = IF Spacing = 0 THEN lead ELSE lead + Spacing
  /\ waiters' = IF lead = 0 THEN waiters ELSE waiters + 1
  /\ call' = [call EXCEPT ![c].stage = IF lead = 0 THEN "calling" ELSE "parked", ![c].wait = lead]
  /\ UNCHANGED <<budget, limiter, fails, backoff, hangups>>

\* a slot that was reserved is used, whatever became of the provider since
Unpark(c) ==
  /\ call[c].stage = "parked" /\ call[c].wait = 0
  /\ waiters' = waiters - 1
  /\ call' = [call EXCEPT ![c].stage = "calling"]
  /\ UNCHANGED <<budget, limiter, lead, fails, backoff, hangups>>

LeavePark(c) ==
  /\ call[c].stage = "parked" /\ call[c].gone
  /\ waiters' = waiters - 1
  /\ call' = [call EXCEPT ![c].stage = "releasing", ![c].result = "busy", ![c].wait = 0]
  /\ UNCHANGED <<budget, limiter, lead, fails, backoff, hangups>>

\* external: the provider answers, or the call ends with a context: the caller's, or a deadline
\* the provider's own client sets while the caller still waits
Answer(c, result) ==
  /\ call[c].stage = "calling"
  /\ result \in {"ok", "failed", "cancelled"}
  /\ call' = [call EXCEPT ![c].stage = "releasing", ![c].result = result]
  /\ UNCHANGED <<budget, limiter, governor, hangups>>

\* base << (f - 1) in a signed integer of Width bits
Shifted(f) ==
  LET bits == (Base * 2^(f - 1)) % 2^Width IN
  IF bits >= 2^(Width - 1) THEN bits - 2^Width ELSE bits
\* a slip: an overflow is taken for a short backoff
BugDelay(f) == IF Shifted(f) > Max THEN Max ELSE Shifted(f)
Delay(f) == IF Shifted(f) > Max \/ Shifted(f) <= 0 THEN Max ELSE Shifted(f)

\* one more error; beyond the width of a duration the count no longer tells
NoteError ==
  LET f == IF fails <= Width THEN fails + 1 ELSE fails IN
  fails' = f /\ backoff' = IF Delay(f) > 0 THEN Delay(f) ELSE 0

NoteSuccess == fails' = 0 /\ backoff' = 0

\* the answer is noted in the governor; an error is retried within the budget, but not
\* a context that ended, whosever it was
Note(c) ==
  LET again == call[c].result = "failed" /\ call[c].attempt < call[c].retries IN
  /\ call[c].stage = "noting"
  /\ IF call[c].result = "ok" THEN NoteSuccess ELSE NoteError
  /\ call' = IF ~again THEN Over(c) ELSE
       [call EXCEPT ![c].stage = "asking", ![c].attempt = @ + 1, ![c].result = "none", ![c].slept = FALSE]
  /\ UNCHANGED <<budget, limiter, lead, waiters, hangups>>

-----------------------------------------------------------------------------
CallStep(c) ==
  \/ Enter(c) \/ ReadBudget(c) \/ Ask(c) \/ Wake(c) \/ GiveUp(c) \/ Release(c) \/ Refuse(c) \/ Pass(c)
  \/ Unpark(c) \/ LeavePark(c) \/ Note(c)
  \/ \E result \in {"ok", "failed", "cancelled"} : Answer(c, result)

Next ==
  \/ Tick
  \/ \E a \in Account, b \in Budgets : SetBudget(a, b)
  \/ \E c \in Caller : HangUp(c) \/ CallStep(c)

Spec == Init /\ [][Next]_vars

\* time passes, timers fire, and a provider's client answers or times out
FairSpec == Spec /\ WF_vars(Tick) /\ \A c \in Caller : WF_vars(CallStep(c))

-----------------------------------------------------------------------------
(* Properties.                                                             *)

Holders(a) ==
  {c \in Caller : call[c].account = a
                  /\ call[c].stage \in {"admitted", "parked", "calling", "releasing"}}

\* The books balance: the count of a limiter is the number of calls between their admission
\* and their release, whichever of the ways out they took (Gate), and the governor counts
\* exactly the calls that are parked, the position a busy answer reports.
BooksBalance ==
  /\ \A a \in Account : limiter[a] # None => limiter[a].inflight = Cardinality(Holders(a))
  /\ waiters = Cardinality({c \in Caller : call[c].stage = "parked"})

Sleeping(a) == {c \in Caller : call[c].account = a /\ call[c].stage = "sleeping" /\ call[c].wait > 0}
Parked == {c \in Caller : call[c].stage = "parked" /\ call[c].wait > 0}
Apart(C, gap, next) ==
  /\ \A c \in C : call[c].wait + gap <= next
  /\ \A c, d \in C : c # d => call[c].wait + gap <= call[d].wait \/ call[d].wait + gap <= call[c].wait

\* Every caller has a slot of its own: the slots reserved in a limiter are an interval of its
\* budget apart and the next one comes after them all; so are the slots of the governor,
\* across accounts, even as callers leave and their slots stay reserved.
SlotsAreApart ==
  /\ \A a \in Account : limiter[a] # None =>
       Apart(Sleeping(a), Interval(limiter[a].budget), limiter[a].lead)
  /\ Apart(Parked, Spacing, lead)

\* Only a caller that slept for its slot can be in flight beyond the concurrency of the budget:
\* those that entered at once are never more than it allows.
OnlySleepersExceed ==
  \A a \in Account : limiter[a] # None /\ limiter[a].budget.concurrent > 0 =>
    Cardinality({c \in Holders(a) : ~call[c].slept}) <= limiter[a].budget.concurrent

\* An error never shortens the backoff of the provider, however many came before it: the
\* doubling stops at the maximum and its overflow is not taken for a short wait.
ErrorsNeverShortenBackoff ==
  [][\A c \in Caller : call[c].stage = "noting" /\ call'[c].stage # "noting"
       /\ call[c].result # "ok" => backoff' >= backoff]_vars

\* No caller waits for ever: a call that entered the gate is answered, turned away or gives
\* up, if providers answer or time out; no way out keeps a place that others wait for.
CallsReturn == \A c \in Caller : call[c].stage # "idle" ~> call[c].stage = "done"
=============================================================================
