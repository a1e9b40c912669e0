----------------------------- MODULE PacingProofs -----------------------------
(* Theorems about the pacing of a slot, for any number of callers and        *)
(* accounts, any budgets and any schedule of ticks.                          *)
EXTENDS Pacing, FiniteSetTheorems, TLAPS

LEMMA Bounds == Spacing \in Nat /\ MaxHangUps \in Nat /\ IsFiniteSet(Caller) /\ None \notin LimiterState
BY ConstantsAssumption

Held == {"admitted", "parked", "calling", "releasing"}

\* a call that is under way has a limiter
Entered == \A c \in Caller : call[c].stage \notin {"idle", "done"} => limiter[call[c].account] # None

Waiting == {c \in Caller : call[c].stage = "parked"}

Inv == TypeOK /\ Entered /\ BooksBalance

-----------------------------------------------------------------------------
LEMMA BlankIsTyped ==
  ASSUME NEW a \in Account
  PROVE  Blank(a, "idle") \in CallState /\ Blank(a, "done") \in CallState
BY DEF Blank, CallState, Stage

LEMMA FieldsAreTyped ==
  ASSUME TypeOK, NEW c \in Caller
  PROVE  /\ call[c] \in CallState /\ call[c].account \in Account /\ call[c].wait \in Nat
         /\ call[c].attempt \in Nat /\ call[c].retries \in Nat /\ call[c].attempt + 1 \in Nat
         /\ limiter[call[c].account] \in LimiterState \cup {None}
         /\ budget[call[c].account] \in BudgetType /\ budget[call[c].account].retries \in Nat
BY DEF TypeOK, CallState, BudgetType

LEMMA LimitersAreTyped ==
  ASSUME NEW l \in LimiterState
  PROVE  /\ l.budget \in BudgetType /\ l.inflight \in Nat /\ l.lead \in Nat
         /\ Interval(l.budget) \in Nat /\ l.budget.concurrent \in Nat
         /\ Reserved(l) \in Nat /\ Less(l.lead) \in Nat /\ Less(l.inflight) \in Nat
BY DEF LimiterState, BudgetType, Interval, Reserved, Less

(* Counting: one more, one less.                                             *)
LEMMA OneMore ==
  ASSUME NEW S, IsFiniteSet(S), NEW x, x \notin S
  PROVE  Cardinality(S \cup {x}) = Cardinality(S) + 1 /\ Cardinality(S) \in Nat
BY FS_AddElement, FS_CardinalityType

LEMMA OneLess ==
  ASSUME NEW S, IsFiniteSet(S), NEW x \in S
  PROVE  /\ Cardinality(S \ {x}) = Cardinality(S) - 1 /\ Cardinality(S) \in Nat
         /\ Cardinality(S) > 0
<1>1. IsFiniteSet(S \ {x}) /\ Cardinality(S \ {x}) = Cardinality(S) - 1
  BY FS_RemoveElement
<1>2. Cardinality(S \ {x}) \in Nat /\ Cardinality(S) \in Nat
  BY <1>1, FS_CardinalityType
<1> QED BY <1>1, <1>2

LEMMA HoldersAreFinite == \A a \in Account : IsFiniteSet(Holders(a))
BY Bounds, FS_Subset DEF Holders

LEMMA WaitingIsFinite == IsFiniteSet(Waiting)
BY Bounds, FS_Subset DEF Waiting

-----------------------------------------------------------------------------
(* What one call's step does to the counts.                                  *)
LEMMA CallMoves ==
  ASSUME TypeOK, NEW c \in Caller, NEW q \in CallState, q.account = call[c].account,
         call' = [call EXCEPT ![c] = q]
  PROVE  /\ call' \in [Caller -> CallState]
         /\ call'[c] = q /\ \A d \in Caller \ {c} : call'[d] = call[d]
         /\ \A a \in Account : a # q.account => Holders(a)' = Holders(a)
         /\ Holders(q.account)' = IF q.stage \in Held THEN Holders(q.account) \cup {c}
                                  ELSE Holders(q.account) \ {c}
         /\ Waiting' = IF q.stage = "parked" THEN Waiting \cup {c} ELSE Waiting \ {c}
         /\ c \in Holders(q.account) <=> call[c].stage \in Held
         /\ c \in Waiting <=> call[c].stage = "parked"
<1>1. call' \in [Caller -> CallState] /\ call'[c] = q /\ \A d \in Caller \ {c} : call'[d] = call[d]
  BY DEF TypeOK
<1> QED BY <1>1 DEF Holders, Waiting, Held

LEMMA BooksKept ==
  ASSUME Inv, NEW c \in Caller, NEW q \in CallState, q.account = call[c].account,
         call' = [call EXCEPT ![c] = q],
         limiter' \in [Account -> LimiterState \cup {None}],
         \A a \in Account : a # q.account => limiter'[a] = limiter[a],
         limiter[q.account] # None, limiter'[q.account] # None,
         \/ /\ call[c].stage \notin Held /\ q.stage \in Held
            /\ limiter'[q.account].inflight = limiter[q.account].inflight + 1
         \/ /\ call[c].stage \in Held /\ q.stage \notin Held
            /\ limiter'[q.account].inflight = Less(limiter[q.account].inflight)
         \/ /\ call[c].stage \in Held <=> q.stage \in Held
            /\ limiter'[q.account].inflight = limiter[q.account].inflight,
         \/ call[c].stage # "parked" /\ q.stage = "parked" /\ waiters' = waiters + 1
         \/ call[c].stage = "parked" /\ q.stage # "parked" /\ waiters' = waiters - 1
         \/ (call[c].stage = "parked" <=> q.stage = "parked") /\ waiters' = waiters
  PROVE  BooksBalance' /\ Entered' /\ waiters' \in Nat
<1> DEFINE a == q.account
<1>1. TypeOK /\ a \in Account /\ limiter[a] \in LimiterState /\ limiter'[a] \in LimiterState
  BY DEF Inv, TypeOK, CallState
<1>2. /\ call'[c] = q /\ \A d \in Caller \ {c} : call'[d] = call[d]
      /\ \A b \in Account : b # a => Holders(b)' = Holders(b)
      /\ Holders(a)' = IF q.stage \in Held THEN Holders(a) \cup {c} ELSE Holders(a) \ {c}
      /\ Waiting' = IF q.stage = "parked" THEN Waiting \cup {c} ELSE Waiting \ {c}
      /\ c \in Holders(a) <=> call[c].stage \in Held
      /\ c \in Waiting <=> call[c].stage = "parked"
  BY <1>1, CallMoves
<1>3. limiter[a].inflight = Cardinality(Holders(a)) /\ limiter[a].inflight \in Nat
      /\ waiters = Cardinality(Waiting) /\ IsFiniteSet(Holders(a)) /\ IsFiniteSet(Waiting)
  BY <1>1, HoldersAreFinite, WaitingIsFinite DEF Inv, BooksBalance, Waiting, LimiterState
<1>4. limiter'[a].inflight = Cardinality(Holders(a)')
  <2>1. CASE call[c].stage \notin Held /\ q.stage \in Held
    <3>1. Holders(a)' = Holders(a) \cup {c} /\ c \notin Holders(a)
      BY <1>2, <2>1
    <3> QED BY <1>3, <2>1, <3>1, OneMore
  <2>2. CASE call[c].stage \in Held /\ q.stage \notin Held
    <3>1. Holders(a)' = Holders(a) \ {c} /\ c \in Holders(a)
      BY <1>2, <2>2
    <3>2. Cardinality(Holders(a) \ {c}) = Cardinality(Holders(a)) - 1 /\ Cardinality(Holders(a)) > 0
      BY <1>3, <3>1, OneLess
    <3> QED BY <1>3, <2>2, <3>1, <3>2 DEF Less
  <2>3. CASE call[c].stage \in Held <=> q.stage \in Held
    <3>1. Holders(a)' = Holders(a)
      BY <1>2, <2>3
    <3> QED BY <1>3, <2>3, <3>1
  <2> QED BY <2>1, <2>2, <2>3
<1>5. waiters' = Cardinality(Waiting') /\ waiters' \in Nat
  <2>1. CASE call[c].stage # "parked" /\ q.stage = "parked"
    <3>1. Waiting' = Waiting \cup {c} /\ c \notin Waiting
      BY <1>2, <2>1
    <3>2. waiters' = waiters + 1
      BY <2>1
    <3>3. Cardinality(Waiting \cup {c}) = Cardinality(Waiting) + 1 /\ Cardinality(Waiting) \in Nat
      BY <1>3, <3>1, OneMore
    <3> QED BY <1>3, <3>1, <3>2, <3>3
  <2>2. CASE call[c].stage = "parked" /\ q.stage # "parked"
    <3>1. Waiting' = Waiting \ {c} /\ c \in Waiting
      BY <1>2, <2>2
    <3>2. Cardinality(Waiting \ {c}) = Cardinality(Waiting) - 1 /\ Cardinality(Waiting) > 0
          /\ Cardinality(Waiting) \in Nat
      BY <1>3, <3>1, OneLess
    <3> QED BY <1>3, <2>2, <3>1, <3>2
  <2>3. CASE call[c].stage = "parked" <=> q.stage = "parked"
    <3>1. Waiting' = Waiting
      BY <1>2, <2>3
    <3> QED BY <1>1, <1>3, <2>3, <3>1 DEF TypeOK
  <2> QED BY <2>1, <2>2, <2>3
<1> HIDE DEF a
<1>6. ASSUME NEW b \in Account, limiter'[b] # None PROVE limiter'[b].inflight = Cardinality(Holders(b)')
  BY <1>2, <1>4, <1>6 DEF Inv, BooksBalance, a
<1>7. BooksBalance'
  BY <1>5, <1>6 DEF BooksBalance, Waiting
<1>8. Entered'
  <2>1. ASSUME NEW d \in Caller, call'[d].stage \notin {"idle", "done"} PROVE limiter'[call'[d].account] # None
    <3>1. CASE d = c
      BY <1>2, <3>1 DEF a
    <3>2. CASE d # c
      <4>1. call'[d] = call[d] /\ call[d].account \in Account
        BY <1>1, <1>2, <3>2 DEF TypeOK, CallState
      <4> QED BY <2>1, <4>1 DEF Inv, Entered, a
    <3> QED BY <3>1, <3>2
  <2> QED BY <2>1 DEF Entered
<1> QED BY <1>5, <1>7, <1>8

LEMMA InvInit == Init => Inv
<1> SUFFICES ASSUME Init PROVE Inv
  OBVIOUS
<1>1. call \in [Caller -> CallState] /\ \A c \in Caller : call[c].stage = "idle"
  <2>1. \A a \in Account : Blank(a, "idle") \in CallState /\ Blank(a, "idle").stage = "idle"
    BY BlankIsTyped DEF Blank
  <2> QED BY <2>1 DEF Init
<1>2. budget \in [Account -> BudgetType]
  <2>1. Off \in BudgetType /\ Budgets \subseteq BudgetType
    BY ConstantsAssumption DEF Off, BudgetType
  <2> QED BY <2>1 DEF Init
<1>3. TypeOK
  BY <1>1, <1>2 DEF Init, TypeOK
<1>4. BooksBalance
  <2>1. Waiting = {}
    BY <1>1 DEF Waiting
  <2>2. waiters = Cardinality({c \in Caller : call[c].stage = "parked"})
    BY <2>1, FS_EmptySet DEF Init, Waiting
  <2> QED BY <2>2 DEF Init, BooksBalance
<1> QED BY <1>1, <1>3, <1>4 DEF Inv, Entered

\* steps that keep every call where it is
LEMMA NobodyMoves ==
  ASSUME Inv, call' \in [Caller -> CallState], UNCHANGED waiters,
         \A c \in Caller : call'[c].account = call[c].account /\ call'[c].stage = call[c].stage,
         limiter' \in [Account -> LimiterState \cup {None}],
         \A a \in Account : (limiter'[a] = None <=> limiter[a] = None)
                            /\ (limiter[a] # None => limiter'[a].inflight = limiter[a].inflight)
  PROVE  BooksBalance' /\ Entered'
<1>1. \A a \in Account : Holders(a)' = Holders(a)
  BY DEF Holders
<1>2. Waiting' = Waiting
  BY DEF Waiting
<1>3. BooksBalance'
  BY <1>1, <1>2 DEF Inv, BooksBalance, Waiting
<1>4. Entered'
  BY DEF Inv, Entered, TypeOK, CallState
<1> QED BY <1>3, <1>4

LEMMA TickStep == Inv /\ Tick => Inv'
<1> SUFFICES ASSUME Inv, Tick PROVE Inv'
  OBVIOUS
<1>1. \A a \in Account : limiter[a] # None =>
        /\ limiter'[a] = [limiter[a] EXCEPT !.lead = Less(limiter[a].lead)]
        /\ limiter'[a] \in LimiterState /\ limiter'[a].inflight = limiter[a].inflight
  BY LimitersAreTyped DEF Tick, Inv, TypeOK, LimiterState, Less
<1>2. limiter' \in [Account -> LimiterState \cup {None}]
      /\ \A a \in Account : limiter'[a] = None <=> limiter[a] = None
  BY <1>1, Bounds DEF Tick
<1>3. \A c \in Caller : /\ call'[c] \in CallState /\ call'[c].stage = call[c].stage
                        /\ call'[c].account = call[c].account
  <2> SUFFICES ASSUME NEW c \in Caller
               PROVE  /\ call'[c] \in CallState /\ call'[c].stage = call[c].stage
                      /\ call'[c].account = call[c].account
    OBVIOUS
  <2>1. call[c] \in CallState /\ call'[c] = [call[c] EXCEPT !.wait = Less(call[c].wait)]
    BY DEF Tick, Inv, TypeOK
  <2>2. Less(call[c].wait) \in Nat
    BY <2>1 DEF CallState, Less
  <2> QED BY <2>1, <2>2 DEF CallState
<1>4. call' \in [Caller -> CallState] /\ UNCHANGED <<waiters, budget>>
  BY <1>3 DEF Tick
<1>5. lead' \in Nat
  BY DEF Tick, Less, Inv, TypeOK
<1> QED BY <1>1, <1>2, <1>3, <1>4, <1>5, NobodyMoves DEF Inv, TypeOK

LEMMA OutsideStep ==
  ASSUME Inv, (\E c \in Caller : HangUp(c)) \/ (\E a \in Account, b \in Budgets : SetBudget(a, b))
  PROVE  Inv'
<1>1. ASSUME NEW c \in Caller, HangUp(c) PROVE Inv'
  <2>1. call[c] \in CallState /\ call' = [call EXCEPT ![c] = [call[c] EXCEPT !.gone = TRUE]]
    BY <1>1 DEF HangUp, Inv, TypeOK
  <2>2. LET q == [call[c] EXCEPT !.gone = TRUE]
        IN  q \in CallState /\ q.stage = call[c].stage /\ q.account = call[c].account
    BY <2>1 DEF CallState
  <2>3. call' \in [Caller -> CallState] /\
        \A d \in Caller : call'[d].account = call[d].account /\ call'[d].stage = call[d].stage
    BY <2>1, <2>2 DEF Inv, TypeOK
  <2> QED BY <1>1, <2>3, NobodyMoves DEF HangUp, governor, Inv, TypeOK
<1>2. ASSUME NEW a \in Account, NEW b \in Budgets, SetBudget(a, b) PROVE Inv'
  <2>1. b \in BudgetType
    BY ConstantsAssumption
  <2>2. budget' \in [Account -> BudgetType] /\ UNCHANGED <<limiter, lead, waiters, call>>
    BY <1>2, <2>1 DEF SetBudget, governor, Inv, TypeOK
  <2> QED BY <2>2, NobodyMoves DEF Inv, TypeOK
<1> QED BY <1>1, <1>2

\* the limiter of one account is replaced
LEMMA LimiterReplaced ==
  ASSUME TypeOK, NEW a \in Account, NEW l \in LimiterState, limiter' = [limiter EXCEPT ![a] = l]
  PROVE  /\ limiter' \in [Account -> LimiterState \cup {None}]
         /\ limiter'[a] = l /\ limiter'[a] # None
         /\ \A b \in Account : b # a => limiter'[b] = limiter[b]
BY Bounds DEF TypeOK

LEMMA EnterStep == ASSUME Inv, NEW c \in Caller, Enter(c) PROVE Inv'
<1> DEFINE a == call[c].account
           l == [budget |-> budget[a], inflight |-> 0, lead |-> 0]
<1>1. TypeOK /\ call[c] \in CallState /\ a \in Account /\ budget[a] \in BudgetType
      /\ limiter[a] \in LimiterState \cup {None}
  BY FieldsAreTyped DEF Inv
<1>2. call[c].stage = "idle" /\ UNCHANGED <<budget, lead, waiters>>
  BY DEF Enter, governor
<1>3. PICK q \in CallState : q.stage = "entering" /\ q.account = a /\ call' = [call EXCEPT ![c] = q]
  <2> DEFINE r == [call[c] EXCEPT !.stage = "entering"]
  <2>1. call' = [call EXCEPT ![c] = r]
    BY <1>1 DEF Enter, TypeOK
  <2>2. r \in CallState /\ r.stage = "entering" /\ r.account = a
    BY <1>1 DEF CallState, Stage
  <2> QED BY <2>1, <2>2
<1>5. l \in LimiterState /\ l.inflight = 0
  BY <1>1 DEF LimiterState
<1>6. CASE limiter[a] # None
  <2>1. limiter' = limiter
    BY <1>1, <1>6 DEF Enter, TypeOK
  <2>2. BooksBalance' /\ Entered' /\ waiters' \in Nat
    BY <1>1, <1>2, <1>3, <1>6, <2>1, BooksKept DEF Held, TypeOK
  <2> QED BY <1>1, <1>2, <1>3, <2>1, <2>2 DEF Inv, TypeOK
<1>7. CASE limiter[a] = None
  <2>1. limiter' = [limiter EXCEPT ![a] = l]
    BY <1>7 DEF Enter
  <2> HIDE DEF l
  <2>2. /\ limiter' \in [Account -> LimiterState \cup {None}]
        /\ limiter'[a] = l /\ limiter'[a] # None
        /\ \A b \in Account : b # a => limiter'[b] = limiter[b]
    BY <1>1, <1>5, <2>1, LimiterReplaced
  <2>3. /\ call' \in [Caller -> CallState]
        /\ call'[c] = q /\ \A d \in Caller \ {c} : call'[d] = call[d]
        /\ \A b \in Account : b # q.account => Holders(b)' = Holders(b)
        /\ Holders(q.account)' = IF q.stage \in Held THEN Holders(q.account) \cup {c}
                                 ELSE Holders(q.account) \ {c}
        /\ Waiting' = IF q.stage = "parked" THEN Waiting \cup {c} ELSE Waiting \ {c}
        /\ c \in Holders(q.account) <=> call[c].stage \in Held
        /\ c \in Waiting <=> call[c].stage = "parked"
    BY <1>1, <1>3, CallMoves
  <2>4. Waiting' = Waiting
    BY <1>2, <1>3, <2>3
  <2>5. Holders(q.account) = {}
    BY <1>3, <1>7 DEF Holders, Inv, Entered
  <2>6. Holders(q.account)' = {}
    BY <1>3, <2>3, <2>5 DEF Held
  <2>7. \A b \in Account : limiter'[b] # None => limiter'[b].inflight = Cardinality(Holders(b)')
    <3>1. limiter'[q.account].inflight = Cardinality(Holders(q.account)')
      BY <1>3, <1>5, <2>2, <2>6, FS_EmptySet
    <3> QED BY <1>3, <2>2, <2>3, <3>1 DEF Inv, BooksBalance
  <2>8. BooksBalance'
    BY <1>2, <2>4, <2>7 DEF BooksBalance, Waiting, Inv
  <2>9. Entered'
    <3> SUFFICES ASSUME NEW d \in Caller, call'[d].stage \notin {"idle", "done"}
                 PROVE  limiter'[call'[d].account] # None
      BY DEF Entered
    <3>1. CASE d = c
      BY <1>3, <2>2, <2>3, <3>1
    <3>2. CASE d # c
      <4>1. call'[d] = call[d] /\ call[d].account \in Account /\ limiter[call[d].account] # None
        BY <1>1, <2>3, <3>2 DEF Inv, Entered, TypeOK, CallState
      <4> QED BY <2>2, <4>1
    <3> QED BY <3>1, <3>2
  <2> QED BY <1>1, <1>2, <2>2, <2>3, <2>8, <2>9 DEF Inv, TypeOK
<1> QED BY <1>6, <1>7

LEMMA AskStep == ASSUME Inv, NEW c \in Caller, Ask(c) PROVE Inv'
<1> DEFINE a == call[c].account
           l == limiter[a]
           s == IF l.lead = 0 THEN "admitted" ELSE "sleeping"
           n == IF l.lead = 0 THEN l.inflight + 1 ELSE l.inflight
           v == IF Interval(l.budget) = 0 THEN l.lead ELSE Reserved(l)
           q == [call[c] EXCEPT !.stage = s, !.wait = l.lead, !.slept = FALSE]
           k == [l EXCEPT !.lead = v, !.inflight = n]
<1>1. TypeOK /\ call[c] \in CallState /\ a \in Account /\ l \in LimiterState /\ l # None
  BY FieldsAreTyped DEF Inv, Ask, Entered
<1>2. call[c].stage = "asking" /\ UNCHANGED <<budget, lead, waiters>>
  BY DEF Ask, governor
<1>3. l.lead \in Nat /\ v \in Nat /\ n \in Nat /\ s \in Stage
  BY <1>1, LimitersAreTyped DEF Stage
<1>4. call' = [call EXCEPT ![c] = q]
  BY <1>1 DEF Ask, TypeOK
<1>5. limiter' = [limiter EXCEPT ![a] = k]
  BY <1>1 DEF Ask, TypeOK
<1>6. s \in {"admitted", "sleeping"} /\ (s = "admitted" => n = l.inflight + 1)
      /\ (s = "sleeping" => n = l.inflight)
  OBVIOUS
<1> HIDE DEF s, n, v
<1>7. q \in CallState /\ q.stage = s /\ q.account = a
  BY <1>1, <1>3 DEF CallState
<1>8. k \in LimiterState /\ k.inflight = n
  BY <1>1, <1>3 DEF LimiterState
<1> HIDE DEF q, k
<1>9. /\ limiter' \in [Account -> LimiterState \cup {None}]
      /\ limiter'[a] = k /\ limiter'[a] # None
      /\ \A b \in Account : b # a => limiter'[b] = limiter[b]
  BY <1>1, <1>5, <1>8, LimiterReplaced
<1>10. BooksBalance' /\ Entered' /\ waiters' \in Nat
  BY <1>1, <1>2, <1>4, <1>6, <1>7, <1>8, <1>9, BooksKept DEF Held
<1>11. call' \in [Caller -> CallState]
  BY <1>1, <1>4, <1>7 DEF TypeOK
<1> QED BY <1>1, <1>2, <1>9, <1>10, <1>11 DEF Inv, TypeOK

\* a call goes on, and its limiter does not count it in or out
LEMMA GoesOn ==
  ASSUME Inv, NEW c \in Caller, NEW q \in CallState, q.account = call[c].account,
         call' = [call EXCEPT ![c] = q], UNCHANGED <<budget, limiter>>, lead' \in Nat,
         call[c].stage \notin {"idle", "done"},
         call[c].stage \in Held <=> q.stage \in Held,
         \/ call[c].stage # "parked" /\ q.stage = "parked" /\ waiters' = waiters + 1
         \/ call[c].stage = "parked" /\ q.stage # "parked" /\ waiters' = waiters - 1
         \/ (call[c].stage = "parked" <=> q.stage = "parked") /\ waiters' = waiters
  PROVE  Inv'
<1>1. TypeOK /\ limiter[q.account] # None
  BY DEF Inv, Entered
<1>2. call' \in [Caller -> CallState]
  BY <1>1 DEF TypeOK
<1>3. BooksBalance' /\ Entered' /\ waiters' \in Nat
  BY <1>1, BooksKept DEF TypeOK
<1> QED BY <1>1, <1>2, <1>3 DEF Inv, TypeOK

\* a call goes on, counted in or out by its limiter
LEMMA CountedInOrOut ==
  ASSUME Inv, NEW c \in Caller, NEW q \in CallState, q.account = call[c].account,
         call' = [call EXCEPT ![c] = q], UNCHANGED <<budget, lead, waiters>>,
         call[c].stage \notin {"idle", "done", "parked"}, q.stage # "parked",
         NEW l \in LimiterState, limiter' = [limiter EXCEPT ![q.account] = l],
         \/ call[c].stage \notin Held /\ q.stage \in Held
            /\ l.inflight = limiter[q.account].inflight + 1
         \/ call[c].stage \in Held /\ q.stage \notin Held
            /\ l.inflight = Less(limiter[q.account].inflight)
  PROVE  Inv'
<1>1. TypeOK /\ limiter[q.account] # None /\ q.account \in Account
  BY DEF Inv, Entered, CallState
<1>2. call' \in [Caller -> CallState]
  BY <1>1 DEF TypeOK
<1>3. /\ limiter' \in [Account -> LimiterState \cup {None}]
      /\ limiter'[q.account] = l /\ limiter'[q.account] # None
      /\ \A b \in Account : b # q.account => limiter'[b] = limiter[b]
  BY <1>1, LimiterReplaced
<1>4. BooksBalance' /\ Entered' /\ waiters' \in Nat
  BY <1>1, <1>3, BooksKept DEF TypeOK
<1> QED BY <1>1, <1>2, <1>3, <1>4 DEF Inv, TypeOK

LEMMA WakeStep == ASSUME Inv, NEW c \in Caller, Wake(c) PROVE Inv'
<1> DEFINE l == limiter[call[c].account]
           q == [call[c] EXCEPT !.stage = "admitted", !.slept = TRUE]
           k == [l EXCEPT !.inflight = l.inflight + 1]
<1>1. call[c] \in CallState /\ l \in LimiterState /\ call[c].stage = "sleeping"
  BY FieldsAreTyped DEF Inv, Entered, Wake
<1>2. q \in CallState /\ q.stage = "admitted" /\ q.account = call[c].account /\ call' = [call EXCEPT ![c] = q]
  BY <1>1 DEF CallState, Stage, Wake, Inv, TypeOK
<1>3. k \in LimiterState /\ k.inflight = l.inflight + 1 /\ limiter' = [limiter EXCEPT ![call[c].account] = k]
  BY <1>1 DEF LimiterState, Wake, Inv, TypeOK
<1>4. UNCHANGED <<budget, lead, waiters>>
  BY DEF Wake, governor
<1> HIDE DEF q, k
<1> QED BY <1>1, <1>2, <1>3, <1>4, CountedInOrOut DEF Held

LEMMA ReleaseStep == ASSUME Inv, NEW c \in Caller, Release(c) PROVE Inv'
<1> DEFINE l == limiter[call[c].account]
           k == [l EXCEPT !.inflight = Less(l.inflight)]
<1>1. call[c] \in CallState /\ l \in LimiterState /\ call[c].stage = "releasing"
  BY FieldsAreTyped DEF Inv, Entered, Release
<1>2. PICK q \in CallState : q.stage \in {"done", "noting"} /\ q.account = call[c].account
                             /\ call' = [call EXCEPT ![c] = q]
  <2>1. CASE call[c].result = "busy"
    <3>1. call' = [call EXCEPT ![c] = Blank(call[c].account, "done")]
      BY <2>1 DEF Release, Over, Inv, TypeOK
    <3>2. Blank(call[c].account, "done") \in CallState
      BY <1>1, BlankIsTyped DEF CallState
    <3> QED BY <3>1, <3>2 DEF Blank
  <2>2. CASE call[c].result # "busy"
    <3>1. call' = [call EXCEPT ![c] = [call[c] EXCEPT !.stage = "noting"]]
      BY <2>2 DEF Release, Inv, TypeOK
    <3>2. [call[c] EXCEPT !.stage = "noting"] \in CallState
          /\ [call[c] EXCEPT !.stage = "noting"].stage = "noting"
          /\ [call[c] EXCEPT !.stage = "noting"].account = call[c].account
      BY <1>1 DEF CallState, Stage
    <3> QED BY <3>1, <3>2
  <2> QED BY <2>1, <2>2
<1>3. k \in LimiterState /\ k.inflight = Less(l.inflight) /\ limiter' = [limiter EXCEPT ![call[c].account] = k]
  <2>1. Less(l.inflight) \in Nat
    BY <1>1, LimitersAreTyped
  <2> QED BY <1>1, <2>1 DEF LimiterState, Release, Inv, TypeOK
<1>4. UNCHANGED <<budget, lead, waiters>>
  BY DEF Release, governor
<1> HIDE DEF k
<1> QED BY <1>1, <1>2, <1>3, <1>4, CountedInOrOut DEF Held

LEMMA GiveUpStep == ASSUME Inv, NEW c \in Caller, GiveUp(c) PROVE Inv'
<1> DEFINE q == Blank(call[c].account, "done")
<1>1. q \in CallState /\ q.stage = "done" /\ q.account = call[c].account
  BY BlankIsTyped, FieldsAreTyped DEF Inv, Blank
<1>2. call' = [call EXCEPT ![c] = q]
  BY DEF GiveUp, Over, Inv, TypeOK
<1>3. call[c].stage \in {"asking", "sleeping"} /\ UNCHANGED <<budget, limiter, lead, waiters>>
  BY DEF GiveUp, governor
<1> HIDE DEF q
<1> QED BY <1>1, <1>2, <1>3, GoesOn DEF Held, Inv, TypeOK

LEMMA RefuseStep == ASSUME Inv, NEW c \in Caller, Refuse(c) PROVE Inv'
<1> DEFINE q == [call[c] EXCEPT !.stage = "releasing", !.result = "busy"]
<1>1. q \in CallState /\ q.stage = "releasing" /\ q.account = call[c].account
      /\ call' = [call EXCEPT ![c] = q]
  BY FieldsAreTyped DEF CallState, Stage, Refuse, Inv, TypeOK
<1>2. call[c].stage = "admitted" /\ UNCHANGED <<budget, limiter, lead, waiters>>
  BY DEF Refuse, governor
<1> HIDE DEF q
<1> QED BY <1>1, <1>2, GoesOn DEF Held, Inv, TypeOK

LEMMA PassStep == ASSUME Inv, NEW c \in Caller, Pass(c) PROVE Inv'
<1> DEFINE s == IF lead = 0 THEN "calling" ELSE "parked"
           q == [call[c] EXCEPT !.stage = s, !.wait = lead]
<1>1. s \in {"calling", "parked"} /\ s \in Stage /\ waiters' = IF s = "parked" THEN waiters + 1 ELSE waiters
  BY DEF Stage, Pass
<1>2. call' = [call EXCEPT ![c] = q] /\ call[c].stage = "admitted" /\ UNCHANGED <<budget, limiter>>
  BY DEF Pass, Inv, TypeOK
<1>3. lead' \in Nat
  BY Bounds DEF Pass, Inv, TypeOK
<1> HIDE DEF s
<1>4. q \in CallState /\ q.stage = s /\ q.account = call[c].account
  BY <1>1, FieldsAreTyped DEF CallState, Inv, TypeOK
<1> HIDE DEF q
<1> QED BY <1>1, <1>2, <1>3, <1>4, GoesOn DEF Held

LEMMA UnparkStep == ASSUME Inv, NEW c \in Caller, Unpark(c) \/ LeavePark(c) PROVE Inv'
<1>1. PICK q \in CallState : q.stage \in {"calling", "releasing"} /\ q.account = call[c].account
                             /\ call' = [call EXCEPT ![c] = q]
  <2>0. call[c] \in CallState
    BY FieldsAreTyped DEF Inv
  <2>1. CASE Unpark(c)
    <3> DEFINE r == [call[c] EXCEPT !.stage = "calling"]
    <3>1. r \in CallState /\ r.stage = "calling" /\ r.account = call[c].account
      BY <2>0 DEF CallState, Stage
    <3>2. call' = [call EXCEPT ![c] = r]
      BY <2>1 DEF Unpark, Inv, TypeOK
    <3> QED BY <3>1, <3>2
  <2>2. CASE LeavePark(c)
    <3> DEFINE r == [call[c] EXCEPT !.stage = "releasing", !.result = "busy", !.wait = 0]
    <3>1. r \in CallState /\ r.stage = "releasing" /\ r.account = call[c].account
      BY <2>0 DEF CallState, Stage
    <3>2. call' = [call EXCEPT ![c] = r]
      BY <2>2 DEF LeavePark, Inv, TypeOK
    <3> QED BY <3>1, <3>2
  <2> QED BY <2>1, <2>2
<1>2. call[c].stage = "parked" /\ UNCHANGED <<budget, limiter, lead>> /\ waiters' = waiters - 1
  BY DEF Unpark, LeavePark
<1>3. lead' \in Nat
  BY <1>2 DEF Inv, TypeOK
<1> QED BY <1>1, <1>2, <1>3, GoesOn DEF Held

LEMMA AnswerStep ==
  ASSUME Inv, NEW c \in Caller, NEW result \in {"ok", "failed", "cancelled"}, Answer(c, result) PROVE Inv'
<1> DEFINE q == [call[c] EXCEPT !.stage = "releasing", !.result = result]
<1>1. q \in CallState /\ q.stage = "releasing" /\ q.account = call[c].account
      /\ call' = [call EXCEPT ![c] = q]
  BY FieldsAreTyped DEF CallState, Stage, Answer, Inv, TypeOK
<1>2. call[c].stage = "calling" /\ UNCHANGED <<budget, limiter, lead, waiters>>
  BY DEF Answer, governor
<1> HIDE DEF q
<1> QED BY <1>1, <1>2, GoesOn DEF Held, Inv, TypeOK

LEMMA ReadBudgetStep == ASSUME Inv, NEW c \in Caller, ReadBudget(c) PROVE Inv'
<1> DEFINE q == [call[c] EXCEPT !.stage = "asking", !.retries = budget[call[c].account].retries]
<1>1. q \in CallState /\ q.stage = "asking" /\ q.account = call[c].account
  BY FieldsAreTyped DEF CallState, Stage, Inv
<1>2. call' = [call EXCEPT ![c] = q]
  BY DEF ReadBudget, Inv, TypeOK
<1>3. call[c].stage = "entering" /\ UNCHANGED <<budget, limiter, lead, waiters>>
  BY DEF ReadBudget, governor
<1> HIDE DEF q
<1> QED BY <1>1, <1>2, <1>3, GoesOn DEF Held, Inv, TypeOK

LEMMA NoteStep == ASSUME Inv, NEW c \in Caller, Note(c) PROVE Inv'
<1>1. PICK q \in CallState : q.stage \in {"done", "asking"} /\ q.account = call[c].account
                             /\ call' = [call EXCEPT ![c] = q]
  <2>0. call[c] \in CallState /\ call[c].attempt + 1 \in Nat
    BY FieldsAreTyped DEF Inv
  <2> DEFINE r == [call[c] EXCEPT !.stage = "asking", !.attempt = call[c].attempt + 1,
                                  !.result = "none", !.slept = FALSE]
  <2>1. r \in CallState /\ r.stage = "asking" /\ r.account = call[c].account
    BY <2>0 DEF CallState, Stage
  <2>2. Blank(call[c].account, "done") \in CallState /\ Blank(call[c].account, "done").stage = "done"
        /\ Blank(call[c].account, "done").account = call[c].account
    BY <2>0, BlankIsTyped DEF CallState, Blank
  <2>3. call' = [call EXCEPT ![c] = Blank(call[c].account, "done")] \/ call' = [call EXCEPT ![c] = r]
    BY DEF Note, Over, Inv, TypeOK
  <2> HIDE DEF r
  <2> QED BY <2>1, <2>2, <2>3
<1>2. call[c].stage = "noting" /\ UNCHANGED <<budget, limiter, lead, waiters>>
  BY DEF Note
<1> QED BY <1>1, <1>2, GoesOn DEF Held, Inv, TypeOK

LEMMA InvStep == Inv /\ [Next]_vars => Inv'
<1> SUFFICES ASSUME Inv, [Next]_vars PROVE Inv'
  OBVIOUS
<1>1. ASSUME NEW c \in Caller, CallStep(c) PROVE Inv'
  BY <1>1, EnterStep, AskStep, WakeStep, GiveUpStep, ReleaseStep, RefuseStep, PassStep, UnparkStep,
     AnswerStep, ReadBudgetStep, NoteStep DEF CallStep
<1>2. CASE UNCHANGED vars
  <2>1. \A a \in Account : Holders(a)' = Holders(a)
    BY <1>2 DEF vars, Holders
  <2> QED BY <1>2, <2>1 DEF vars, Inv, TypeOK, Entered, BooksBalance
<1> QED BY <1>1, <1>2, TickStep, OutsideStep DEF Next

(* Budgets, limiters, the governor's slots and the calls in progress keep    *)
(* their types: nothing the pacing counts becomes negative (pacing.go).      *)
THEOREM TypeCorrect == Spec => []TypeOK
<1>1. Inv => TypeOK
  BY DEF Inv
<1> QED BY <1>1, InvInit, InvStep, PTL DEF Spec

(* The books balance: a limiter counts exactly the calls between their       *)
(* admission and their release, whichever way out they took, and the         *)
(* governor exactly those that are parked (pacing.go Gate, Governor).        *)
THEOREM BooksBalanceHolds == Spec => []BooksBalance
<1>1. Inv => BooksBalance
  BY DEF Inv
<1> QED BY <1>1, InvInit, InvStep, PTL DEF Spec

-----------------------------------------------------------------------------
(* Steps that let nobody in at once, reserve no slot of a limiter, reserve   *)
(* no slot of the governor.                                                  *)
Unslept(a) == {c \in Holders(a) : ~call[c].slept}

AccountsKept == \A c \in Caller : call'[c].account = call[c].account
BudgetsKept == \A a \in Account : limiter[a] # None => limiter'[a].budget = limiter[a].budget

LetsNobodyIn ==
  /\ AccountsKept /\ BudgetsKept
  /\ \A c \in Caller : call'[c].stage \in Held /\ ~call'[c].slept => call[c].stage \in Held /\ ~call[c].slept

NoSlotOf(a) ==
  /\ limiter[a] # None => limiter'[a].lead = limiter[a].lead
  /\ \A c \in Caller : call[c].account = a /\ call'[c].stage = "sleeping" =>
       call[c].stage = "sleeping" /\ call'[c].wait = call[c].wait

NoSlotOfGovernor ==
  /\ lead' = lead
  /\ \A c \in Caller : call'[c].stage = "parked" => call[c].stage = "parked" /\ call'[c].wait = call[c].wait

\* what the steps other than Ask, Pass and Tick have in common
Quiet == LetsNobodyIn /\ (\A a \in Account : NoSlotOf(a)) /\ NoSlotOfGovernor

\* a call replaced by one that holds nothing new
LEMMA QuietWhen ==
  ASSUME Inv, NEW c \in Caller, NEW q \in CallState, call' = [call EXCEPT ![c] = q],
         q.account = call[c].account, BudgetsKept, lead' = lead,
         q.stage \in Held /\ ~q.slept => call[c].stage \in Held /\ ~call[c].slept,
         q.stage \in {"sleeping", "parked"} => q.stage = call[c].stage /\ q.wait = call[c].wait,
         \A a \in Account : limiter[a] # None => limiter'[a].lead = limiter[a].lead
  PROVE  Quiet
<1>1. call'[c] = q /\ \A d \in Caller \ {c} : call'[d] = call[d]
  BY DEF Inv, TypeOK
<1> QED BY <1>1 DEF Quiet, LetsNobodyIn, AccountsKept, NoSlotOf, NoSlotOfGovernor

LEMMA QuietSteps ==
  ASSUME Inv, NEW c \in Caller,
         HangUp(c) \/ (CallStep(c) /\ ~Ask(c) /\ ~Pass(c))
  PROVE  Quiet
<1>0. call[c] \in CallState /\ call[c].account \in Account
  BY FieldsAreTyped DEF Inv
<1>b. Blank(call[c].account, "done") \in CallState /\ Blank(call[c].account, "done").stage = "done"
      /\ Blank(call[c].account, "done").account = call[c].account
  BY <1>0, BlankIsTyped DEF Blank
<1>u. UNCHANGED limiter => BudgetsKept /\ \A a \in Account : limiter[a] # None => limiter'[a].lead = limiter[a].lead
  BY DEF BudgetsKept
<1>i. ASSUME NEW n \in Nat, call[c].stage \notin {"idle", "done"},
             limiter' = [limiter EXCEPT ![call[c].account].inflight = n]
      PROVE  BudgetsKept /\ \A a \in Account : limiter[a] # None => limiter'[a].lead = limiter[a].lead
  <2>1. limiter[call[c].account] \in LimiterState
    BY <1>i, FieldsAreTyped DEF Inv, Entered
  <2> QED BY <1>i, <2>1 DEF BudgetsKept, LimiterState, Inv, TypeOK
<1>1. CASE HangUp(c)
  <2> DEFINE q == [call[c] EXCEPT !.gone = TRUE]
  <2>1. q \in CallState /\ q.account = call[c].account /\ q.stage = call[c].stage
        /\ q.slept = call[c].slept /\ q.wait = call[c].wait
    BY <1>0 DEF CallState
  <2>2. call' = [call EXCEPT ![c] = q] /\ UNCHANGED <<limiter, lead>>
    BY <1>1 DEF HangUp, governor, Inv, TypeOK
  <2> HIDE DEF q
  <2> QED BY <1>u, <2>1, <2>2, QuietWhen
<1>2. CASE Enter(c)
  <2> DEFINE q == [call[c] EXCEPT !.stage = "entering"]
  <2>1. q \in CallState /\ q.account = call[c].account /\ q.stage = "entering"
    BY <1>0 DEF CallState, Stage
  <2>2. call' = [call EXCEPT ![c] = q] /\ lead' = lead
    BY <1>2 DEF Enter, governor, Inv, TypeOK
  <2>3. \A a \in Account : limiter[a] # None => limiter'[a] = limiter[a]
    BY <1>2 DEF Enter, Inv, TypeOK
  <2>4. BudgetsKept /\ \A a \in Account : limiter[a] # None => limiter'[a].lead = limiter[a].lead
    BY <2>3 DEF BudgetsKept
  <2> HIDE DEF q
  <2> QED BY <2>1, <2>2, <2>4, QuietWhen DEF Held
<1>3. CASE Wake(c)
  <2> DEFINE q == [call[c] EXCEPT !.stage = "admitted", !.slept = TRUE]
             n == limiter[call[c].account].inflight + 1
  <2>1. q \in CallState /\ q.account = call[c].account /\ q.stage = "admitted" /\ q.slept
    BY <1>0 DEF CallState, Stage
  <2>2. call' = [call EXCEPT ![c] = q] /\ lead' = lead /\ call[c].stage = "sleeping"
        /\ limiter' = [limiter EXCEPT ![call[c].account].inflight = n]
    BY <1>3 DEF Wake, governor, Inv, TypeOK
  <2>3. n \in Nat
    BY <1>0, <2>2 DEF Inv, Entered, TypeOK, LimiterState
  <2> HIDE DEF q, n
  <2> QED BY <1>i, <2>1, <2>2, <2>3, QuietWhen
<1>4. CASE GiveUp(c)
  <2>1. call' = [call EXCEPT ![c] = Blank(call[c].account, "done")] /\ UNCHANGED <<limiter, lead>>
    BY <1>4 DEF GiveUp, Over, governor, Inv, TypeOK
  <2> QED BY <1>b, <1>u, <2>1, QuietWhen DEF Held
<1>5. CASE Release(c)
  <2> DEFINE n == Less(limiter[call[c].account].inflight)
             r == [call[c] EXCEPT !.stage = "noting"]
  <2>1. r \in CallState /\ r.account = call[c].account /\ r.stage = "noting"
    BY <1>0 DEF CallState, Stage
  <2>2. lead' = lead /\ call[c].stage = "releasing"
        /\ limiter' = [limiter EXCEPT ![call[c].account].inflight = n]
        /\ (call' = [call EXCEPT ![c] = r] \/ call' = [call EXCEPT ![c] = Blank(call[c].account, "done")])
    BY <1>5 DEF Release, Over, governor, Inv, TypeOK
  <2>3. n \in Nat
    BY <1>0, <2>2, LimitersAreTyped, FieldsAreTyped DEF Inv, Entered
  <2> HIDE DEF r, n
  <2> QED BY <1>b, <1>i, <2>1, <2>2, <2>3, QuietWhen DEF Held
<1>6. CASE Refuse(c)
  <2> DEFINE q == [call[c] EXCEPT !.stage = "releasing", !.result = "busy"]
  <2>1. q \in CallState /\ q.account = call[c].account /\ q.stage = "releasing" /\ q.slept = call[c].slept
    BY <1>0 DEF CallState, Stage
  <2>2. call' = [call EXCEPT ![c] = q] /\ UNCHANGED <<limiter, lead>> /\ call[c].stage \in Held
    BY <1>6 DEF Refuse, governor, Held, Inv, TypeOK
  <2> HIDE DEF q
  <2> QED BY <1>u, <2>1, <2>2, QuietWhen
<1>7. CASE Unpark(c)
  <2> DEFINE q == [call[c] EXCEPT !.stage = "calling"]
  <2>1. q \in CallState /\ q.account = call[c].account /\ q.stage = "calling" /\ q.slept = call[c].slept
    BY <1>0 DEF CallState, Stage
  <2>2. call' = [call EXCEPT ![c] = q] /\ UNCHANGED <<limiter, lead>> /\ call[c].stage \in Held
    BY <1>7 DEF Unpark, Held, Inv, TypeOK
  <2> HIDE DEF q
  <2> QED BY <1>u, <2>1, <2>2, QuietWhen
<1>8. CASE LeavePark(c)
  <2> DEFINE q == [call[c] EXCEPT !.stage = "releasing", !.result = "busy", !.wait = 0]
  <2>1. q \in CallState /\ q.account = call[c].account /\ q.stage = "releasing" /\ q.slept = call[c].slept
    BY <1>0 DEF CallState, Stage
  <2>2. call' = [call EXCEPT ![c] = q] /\ UNCHANGED <<limiter, lead>> /\ call[c].stage \in Held
    BY <1>8 DEF LeavePark, Held, Inv, TypeOK
  <2> HIDE DEF q
  <2> QED BY <1>u, <2>1, <2>2, QuietWhen
<1>9. ASSUME NEW result \in {"ok", "failed", "cancelled"}, Answer(c, result) PROVE Quiet
  <2> DEFINE q == [call[c] EXCEPT !.stage = "releasing", !.result = result]
  <2>1. q \in CallState /\ q.account = call[c].account /\ q.stage = "releasing" /\ q.slept = call[c].slept
    BY <1>0 DEF CallState, Stage
  <2>2. call' = [call EXCEPT ![c] = q] /\ UNCHANGED <<limiter, lead>> /\ call[c].stage \in Held
    BY <1>9 DEF Answer, governor, Held, Inv, TypeOK
  <2> HIDE DEF q
  <2> QED BY <1>u, <2>1, <2>2, QuietWhen
<1>10. CASE Note(c)
  <2> DEFINE r == [call[c] EXCEPT !.stage = "asking", !.attempt = call[c].attempt + 1,
                                  !.result = "none", !.slept = FALSE]
  <2>1. r \in CallState /\ r.account = call[c].account /\ r.stage = "asking"
    BY <1>0, FieldsAreTyped DEF CallState, Stage, Inv
  <2>2. UNCHANGED <<limiter, lead>>
        /\ (call' = [call EXCEPT ![c] = r] \/ call' = [call EXCEPT ![c] = Blank(call[c].account, "done")])
    BY <1>10 DEF Note, Over, Inv, TypeOK
  <2> HIDE DEF r
  <2> QED BY <1>b, <1>u, <2>1, <2>2, QuietWhen DEF Held
<1>11. CASE ReadBudget(c)
  <2> DEFINE q == [call[c] EXCEPT !.stage = "asking", !.retries = budget[call[c].account].retries]
  <2>1. q \in CallState /\ q.account = call[c].account /\ q.stage = "asking"
    BY <1>0, FieldsAreTyped DEF CallState, Stage, Inv
  <2>2. call' = [call EXCEPT ![c] = q] /\ UNCHANGED <<limiter, lead>>
    BY <1>11 DEF ReadBudget, governor, Inv, TypeOK
  <2> HIDE DEF q
  <2> QED BY <1>u, <2>1, <2>2, QuietWhen DEF Held
<1> QED BY <1>1, <1>2, <1>3, <1>4, <1>5, <1>6, <1>7, <1>8, <1>9, <1>10, <1>11 DEF CallStep

LEMMA UnsleptIsFinite ==
  ASSUME NEW a \in Account
  PROVE  IsFiniteSet(Unslept(a)) /\ Cardinality(Unslept(a)) <= Cardinality(Holders(a))
         /\ Cardinality(Unslept(a)) \in Nat /\ Cardinality(Holders(a)) \in Nat
<1>1. Unslept(a) \subseteq Holders(a) /\ IsFiniteSet(Holders(a))
  BY HoldersAreFinite DEF Unslept
<1> QED BY <1>1, FS_Subset, FS_CardinalityType

LEMMA NobodyIn ==
  ASSUME Inv, Inv', OnlySleepersExceed, LetsNobodyIn
  PROVE  OnlySleepersExceed'
<1> SUFFICES ASSUME NEW a \in Account, limiter'[a] # None, limiter'[a].budget.concurrent > 0
             PROVE  Cardinality(Unslept(a)') <= limiter'[a].budget.concurrent
  BY DEF OnlySleepersExceed, Unslept
<1>1. Unslept(a)' \subseteq Unslept(a)
  BY DEF LetsNobodyIn, AccountsKept, Unslept, Holders, Held
<1>2. Cardinality(Unslept(a)') <= Cardinality(Unslept(a))
  BY <1>1, UnsleptIsFinite, FS_Subset
<1>3. CASE limiter[a] # None
  <2>1. Cardinality(Unslept(a)) <= limiter[a].budget.concurrent
        /\ limiter'[a].budget = limiter[a].budget
    BY <1>3 DEF OnlySleepersExceed, Unslept, LetsNobodyIn, BudgetsKept
  <2>2. limiter[a] \in LimiterState
    BY <1>3 DEF Inv, TypeOK
  <2>3. Cardinality(Unslept(a)') \in Nat /\ Cardinality(Unslept(a)) \in Nat
    BY <1>1, UnsleptIsFinite, FS_Subset, FS_CardinalityType
  <2> QED BY <1>2, <2>1, <2>2, <2>3, LimitersAreTyped
<1>4. CASE limiter[a] = None
  <2>1. Unslept(a) = {}
    BY <1>4 DEF Unslept, Holders, Inv, Entered
  <2>2. Cardinality(Unslept(a)') = 0
    BY <1>1, <2>1, FS_EmptySet
  <2>3. limiter'[a] \in LimiterState
    BY DEF Inv, TypeOK
  <2> QED BY <2>2, <2>3, LimitersAreTyped
<1> QED BY <1>3, <1>4

LEMMA ExceedStep == Inv /\ OnlySleepersExceed /\ [Next]_vars => OnlySleepersExceed'
<1> SUFFICES ASSUME Inv, OnlySleepersExceed, [Next]_vars PROVE OnlySleepersExceed'
  OBVIOUS
<1>0. Inv'
  BY InvStep
<1>1. ASSUME NEW c \in Caller, CallStep(c) PROVE OnlySleepersExceed'
  <2>0. call[c] \in CallState /\ call[c].account \in Account
    BY FieldsAreTyped DEF Inv
  <2>1. CASE Ask(c)
    <3> DEFINE l == limiter[call[c].account]
               s == IF l.lead = 0 THEN "admitted" ELSE "sleeping"
               q == [call[c] EXCEPT !.stage = s, !.wait = l.lead, !.slept = FALSE]
    <3>1. l \in LimiterState /\ ~Full(l) /\ call[c].stage = "asking"
      BY <2>0, <2>1, FieldsAreTyped DEF Ask, Inv, Entered
    <3>2. call' = [call EXCEPT ![c] = q] /\ q.account = call[c].account /\ q.stage = s
      BY <2>0, <2>1 DEF Ask, Inv, TypeOK, CallState
    <3>3. \A d \in Caller \ {c} : call'[d] = call[d]
      BY <3>2 DEF Inv, TypeOK
    <3>4. call'[c].account = call[c].account
      BY <3>2 DEF Inv, TypeOK
    <3>5. \A a \in Account : limiter'[a].budget = limiter[a].budget /\ (limiter'[a] # None => limiter[a] # None)
      <4>1. \A a \in Account : a # call[c].account => limiter'[a] = limiter[a]
        BY <2>0, <2>1 DEF Ask, Inv, TypeOK
      <4>2. limiter'[call[c].account].budget = l.budget /\ l # None
        BY <2>0, <2>1, <3>1, Bounds DEF Ask, Inv, TypeOK, LimiterState
      <4> QED BY <4>1, <4>2
    <3> HIDE DEF q, s
    <3> SUFFICES ASSUME NEW a \in Account, limiter'[a] # None, limiter'[a].budget.concurrent > 0
                 PROVE  Cardinality(Unslept(a)') <= limiter'[a].budget.concurrent
      BY DEF OnlySleepersExceed, Unslept
    <3>6. limiter'[a].budget = limiter[a].budget /\ limiter[a] # None /\ limiter[a] \in LimiterState
      BY <3>5 DEF Inv, TypeOK
    <3>7. Cardinality(Unslept(a)) <= limiter[a].budget.concurrent /\ limiter[a].budget.concurrent \in Nat
      BY <3>6, LimitersAreTyped DEF OnlySleepersExceed, Unslept
    <3>8. IsFiniteSet(Unslept(a)) /\ Cardinality(Unslept(a)) \in Nat
      BY UnsleptIsFinite
    <3>9. CASE a # call[c].account
      <4>1. Unslept(a)' = Unslept(a)
        BY <3>3, <3>4, <3>9 DEF Unslept, Holders
      <4> QED BY <3>6, <3>7, <4>1
    <3>10. CASE a = call[c].account
      <4>1. Unslept(a)' \subseteq Unslept(a) \cup {c} /\ c \notin Unslept(a)
        BY <3>1, <3>3 DEF Unslept, Holders
      <4>2. Cardinality(Unslept(a) \cup {c}) = Cardinality(Unslept(a)) + 1 /\ IsFiniteSet(Unslept(a) \cup {c})
        BY <3>8, <4>1, OneMore, FS_AddElement
      <4>3. Cardinality(Unslept(a)) <= limiter[a].inflight
        BY <3>6, UnsleptIsFinite DEF Inv, BooksBalance
      <4>4. limiter[a].inflight < limiter[a].budget.concurrent /\ limiter[a].inflight \in Nat
        BY <3>1, <3>6, <3>10, LimitersAreTyped DEF Full
      <4>5. Cardinality(Unslept(a)') <= Cardinality(Unslept(a)) + 1 /\ Cardinality(Unslept(a)') \in Nat
        BY <4>1, <4>2, FS_Subset, FS_CardinalityType
      <4> QED BY <3>6, <3>7, <3>8, <4>3, <4>4, <4>5
    <3> QED BY <3>9, <3>10
  <2>2. CASE Pass(c)
    <3> DEFINE s == IF lead = 0 THEN "calling" ELSE "parked"
               q == [call[c] EXCEPT !.stage = s, !.wait = lead]
    <3>1. q.account = call[c].account /\ q.slept = call[c].slept
      BY <2>0 DEF CallState
    <3>2. call' = [call EXCEPT ![c] = q] /\ call[c].stage = "admitted" /\ UNCHANGED limiter
      BY <2>2 DEF Pass, Inv, TypeOK
    <3> HIDE DEF q
    <3>3. LetsNobodyIn
      BY <3>1, <3>2 DEF LetsNobodyIn, AccountsKept, BudgetsKept, Held, Inv, TypeOK
    <3> QED BY <1>0, <3>3, NobodyIn
  <2>3. CASE ~Ask(c) /\ ~Pass(c)
    BY <1>0, <1>1, <2>3, QuietSteps, NobodyIn DEF Quiet
  <2> QED BY <2>1, <2>2, <2>3
<1>2. ASSUME NEW c \in Caller, HangUp(c) PROVE OnlySleepersExceed'
  BY <1>0, <1>2, QuietSteps, NobodyIn DEF Quiet
<1>3. ASSUME NEW a \in Account, NEW b \in Budgets, SetBudget(a, b) PROVE OnlySleepersExceed'
  <2>1. LetsNobodyIn
    BY <1>3 DEF SetBudget, governor, LetsNobodyIn, AccountsKept, BudgetsKept
  <2> QED BY <1>0, <2>1, NobodyIn
<1>4. CASE Tick
  <2>1. \A c \in Caller : call'[c] = [call[c] EXCEPT !.wait = Less(call[c].wait)] /\ call[c] \in CallState
    BY <1>4 DEF Tick, Inv, TypeOK
  <2>2. \A c \in Caller : call'[c].account = call[c].account /\ call'[c].stage = call[c].stage
                          /\ call'[c].slept = call[c].slept
    BY <2>1 DEF CallState
  <2>3. BudgetsKept
    BY <1>4 DEF Tick, BudgetsKept, Inv, TypeOK, LimiterState
  <2> QED BY <1>0, <2>2, <2>3, NobodyIn DEF LetsNobodyIn, AccountsKept
<1>5. CASE UNCHANGED vars
  <2>1. LetsNobodyIn
    BY <1>5 DEF vars, LetsNobodyIn, AccountsKept, BudgetsKept
  <2> QED BY <1>0, <2>1, NobodyIn
<1> QED BY <1>1, <1>2, <1>3, <1>4, <1>5 DEF Next

(* Only a caller that slept for its slot is in flight beyond the concurrency *)
(* of its budget (pacing.go Allow).                                          *)
THEOREM OnlySleepersExceedHolds == Spec => []OnlySleepersExceed
<1>1. Init => OnlySleepersExceed
  <2> SUFFICES ASSUME Init, NEW a \in Account, limiter[a] # None PROVE FALSE
    BY DEF OnlySleepersExceed
  <2> QED BY DEF Init
<1> QED BY <1>1, InvInit, InvStep, ExceedStep, PTL DEF Spec

-----------------------------------------------------------------------------
LimiterSlots(a) == limiter[a] # None => Apart(Sleeping(a), Interval(limiter[a].budget), limiter[a].lead)
GovernorSlots == Apart(Parked, Spacing, lead)

LEMMA NoSlotReserved ==
  ASSUME Inv, NEW a \in Account, AccountsKept, BudgetsKept, NoSlotOf(a), LimiterSlots(a)
  PROVE  LimiterSlots(a)'
<1>1. CASE limiter[a] # None
  <2>1. Apart(Sleeping(a), Interval(limiter[a].budget), limiter[a].lead)
    BY <1>1 DEF LimiterSlots
  <2>2. limiter'[a].budget = limiter[a].budget /\ limiter'[a].lead = limiter[a].lead
    BY <1>1 DEF BudgetsKept, NoSlotOf
  <2>3. \A c \in Sleeping(a)' : c \in Sleeping(a) /\ call'[c].wait = call[c].wait
    BY DEF Sleeping, NoSlotOf, AccountsKept
  <2> QED BY <2>1, <2>2, <2>3 DEF LimiterSlots, Apart
<1>2. CASE limiter[a] = None
  <2>1. Sleeping(a)' = {}
    BY <1>2 DEF Sleeping, AccountsKept, NoSlotOf, Inv, Entered
  <2> QED BY <2>1 DEF LimiterSlots, Apart
<1> QED BY <1>1, <1>2

LEMMA NoSlotOfGovernorReserved ==
  ASSUME NoSlotOfGovernor, GovernorSlots
  PROVE  GovernorSlots'
<1>1. \A c \in Parked' : c \in Parked /\ call'[c].wait = call[c].wait
  BY DEF NoSlotOfGovernor, Parked
<1> QED BY <1>1 DEF GovernorSlots, Apart, NoSlotOfGovernor

\* a tick brings every slot nearer, and frees those that have come
LEMMA TickKeepsApart ==
  ASSUME NEW C \in SUBSET Caller, NEW D \in SUBSET C, NEW gap \in Nat, NEW next \in Nat,
         \A c \in C : call[c].wait \in Nat, Apart(C, gap, next),
         \A c \in D : call'[c].wait = Less(call[c].wait) /\ call'[c].wait > 0
  PROVE  /\ \A c \in D : call'[c].wait + gap <= Less(next)
         /\ \A c, d \in D : c # d => call'[c].wait + gap <= call'[d].wait \/ call'[d].wait + gap <= call'[c].wait
<1>1. \A c \in D : call'[c].wait = call[c].wait - 1 /\ call[c].wait > 1
  BY DEF Less
<1>2. ASSUME NEW c \in D PROVE call'[c].wait + gap <= Less(next)
  <2>1. call[c].wait + gap <= next /\ call[c].wait \in Nat /\ call[c].wait > 1
    BY <1>1 DEF Apart
  <2>2. next > 0
    BY <2>1
  <2> QED BY <1>1, <2>1, <2>2 DEF Less
<1>3. ASSUME NEW c \in D, NEW d \in D, c # d
      PROVE  call'[c].wait + gap <= call'[d].wait \/ call'[d].wait + gap <= call'[c].wait
  <2>1. call[c].wait \in Nat /\ call[d].wait \in Nat
        /\ (call[c].wait + gap <= call[d].wait \/ call[d].wait + gap <= call[c].wait)
    BY <1>3 DEF Apart
  <2> QED BY <1>1, <2>1
<1> QED BY <1>2, <1>3

LEMMA ApartStep ==
  Inv /\ (\A a \in Account : LimiterSlots(a)) /\ GovernorSlots /\ [Next]_vars
    => (\A a \in Account : LimiterSlots(a)') /\ GovernorSlots'
<1> SUFFICES ASSUME Inv, \A a \in Account : LimiterSlots(a), GovernorSlots, [Next]_vars
             PROVE  (\A a \in Account : LimiterSlots(a)') /\ GovernorSlots'
  OBVIOUS
<1>q. ASSUME AccountsKept, BudgetsKept, \A a \in Account : NoSlotOf(a)
      PROVE  \A a \in Account : LimiterSlots(a)'
  BY <1>q, NoSlotReserved
<1>1. ASSUME NEW c \in Caller, CallStep(c) PROVE (\A a \in Account : LimiterSlots(a)') /\ GovernorSlots'
  <2>0. call[c] \in CallState /\ call[c].account \in Account
    BY FieldsAreTyped DEF Inv
  <2>1. CASE Ask(c)
    <3> DEFINE l == limiter[call[c].account]
               s == IF l.lead = 0 THEN "admitted" ELSE "sleeping"
               q == [call[c] EXCEPT !.stage = s, !.wait = l.lead, !.slept = FALSE]
               v == IF Interval(l.budget) = 0 THEN l.lead ELSE Reserved(l)
    <3>1. l \in LimiterState /\ l # None /\ call[c].stage = "asking"
      BY <2>0, <2>1, Bounds, FieldsAreTyped DEF Ask, Inv, Entered
    <3>2. call' = [call EXCEPT ![c] = q] /\ q.account = call[c].account /\ q.stage = s /\ q.wait = l.lead
      BY <2>0, <2>1 DEF Ask, Inv, TypeOK, CallState
    <3>3. call'[c] = q /\ \A d \in Caller \ {c} : call'[d] = call[d]
      BY <3>2 DEF Inv, TypeOK
    <3>4. /\ \A a \in Account : a # call[c].account => limiter'[a] = limiter[a]
          /\ limiter'[call[c].account].budget = l.budget /\ limiter'[call[c].account].lead = v
      <4>1. limiter' = [limiter EXCEPT ![call[c].account] =
                          [l EXCEPT !.lead = v, !.inflight = IF l.lead = 0 THEN l.inflight + 1 ELSE l.inflight]]
        BY <2>0, <2>1 DEF Ask, Inv, TypeOK
      <4> QED BY <2>0, <3>1, <4>1 DEF LimiterState, Inv, TypeOK
    <3>5. v \in Nat /\ v = l.lead + Interval(l.budget) /\ Interval(l.budget) \in Nat /\ l.lead \in Nat
      BY <3>1, LimitersAreTyped DEF Reserved
    <3>6. s \in {"admitted", "sleeping"}
      OBVIOUS
    <3> HIDE DEF q, s, v
    <3>7. GovernorSlots'
      <4>1. NoSlotOfGovernor
        BY <2>1, <3>2, <3>3, <3>6 DEF Ask, governor, NoSlotOfGovernor
      <4> QED BY <4>1, NoSlotOfGovernorReserved
    <3>8. ASSUME NEW a \in Account PROVE LimiterSlots(a)'
      <4>1. CASE a # call[c].account
        <5>1. Sleeping(a)' = Sleeping(a) /\ limiter'[a] = limiter[a]
              /\ \A d \in Sleeping(a) : call'[d].wait = call[d].wait
          BY <3>2, <3>3, <3>4, <4>1 DEF Sleeping
        <5>2. LimiterSlots(a)
          OBVIOUS
        <5> QED BY <5>1, <5>2 DEF LimiterSlots, Apart
      <4>2. CASE a = call[c].account
        <5>1. Sleeping(a)' \subseteq Sleeping(a) \cup {c}
              /\ \A d \in Sleeping(a) : d # c /\ call'[d].wait = call[d].wait
          BY <3>1, <3>3 DEF Sleeping
        <5>2. Apart(Sleeping(a), Interval(l.budget), l.lead)
          BY <3>1, <4>2 DEF LimiterSlots
        <5>3. \A d \in Sleeping(a) : call[d].wait \in Nat /\ call[d].wait + Interval(l.budget) <= l.lead
          BY <5>2, FieldsAreTyped DEF Apart, Sleeping, Inv
        <5>4. limiter'[a].budget = l.budget /\ limiter'[a].lead = l.lead + Interval(l.budget)
          BY <3>4, <3>5, <4>2
        <5>5. call'[c].wait = l.lead
          BY <3>2, <3>3
        <5>6. \A d \in Sleeping(a)' : call'[d].wait + Interval(l.budget) <= l.lead + Interval(l.budget)
          BY <3>5, <5>1, <5>3, <5>5
        <5>7. ASSUME NEW d \in Sleeping(a)', NEW e \in Sleeping(a)', d # e
              PROVE  call'[d].wait + Interval(l.budget) <= call'[e].wait
                     \/ call'[e].wait + Interval(l.budget) <= call'[d].wait
          BY <5>1, <5>2, <5>3, <5>5, <5>7 DEF Apart
        <5> QED BY <5>4, <5>6, <5>7 DEF LimiterSlots, Apart
      <4> QED BY <4>1, <4>2
    <3> QED BY <3>7, <3>8
  <2>2. CASE Pass(c)
    <3> DEFINE s == IF lead = 0 THEN "calling" ELSE "parked"
               q == [call[c] EXCEPT !.stage = s, !.wait = lead]
    <3>1. q.account = call[c].account /\ q.stage = s /\ q.wait = lead
      BY <2>0 DEF CallState
    <3>2. call' = [call EXCEPT ![c] = q] /\ call[c].stage = "admitted" /\ UNCHANGED limiter
      BY <2>2 DEF Pass, Inv, TypeOK
    <3>3. call'[c] = q /\ \A d \in Caller \ {c} : call'[d] = call[d]
      BY <3>2 DEF Inv, TypeOK
    <3>4. lead' = lead + Spacing /\ lead \in Nat /\ Spacing \in Nat /\ s \in {"calling", "parked"}
      BY <2>2, Bounds DEF Pass, Inv, TypeOK
    <3> HIDE DEF q, s
    <3>5. AccountsKept /\ BudgetsKept /\ \A a \in Account : NoSlotOf(a)
      BY <3>1, <3>2, <3>3, <3>4 DEF AccountsKept, BudgetsKept, NoSlotOf
    <3>6. Parked' \subseteq Parked \cup {c} /\ \A d \in Parked : d # c /\ call'[d].wait = call[d].wait
      BY <3>2, <3>3 DEF Parked
    <3>7. call'[c].wait = lead
      BY <3>1, <3>3
    <3>8. \A d \in Parked : call[d].wait \in Nat /\ call[d].wait + Spacing <= lead
      BY FieldsAreTyped DEF GovernorSlots, Apart, Parked, Inv
    <3>9. \A d \in Parked' : call'[d].wait + Spacing <= lead'
      BY <3>4, <3>6, <3>7, <3>8
    <3>10. ASSUME NEW d \in Parked', NEW e \in Parked', d # e
           PROVE  call'[d].wait + Spacing <= call'[e].wait \/ call'[e].wait + Spacing <= call'[d].wait
      BY <3>6, <3>7, <3>8, <3>10 DEF GovernorSlots, Apart
    <3> QED BY <1>q, <3>5, <3>9, <3>10 DEF GovernorSlots, Apart
  <2>3. CASE ~Ask(c) /\ ~Pass(c)
    BY <1>1, <1>q, <2>3, QuietSteps, NoSlotOfGovernorReserved DEF Quiet, LetsNobodyIn
  <2> QED BY <2>1, <2>2, <2>3
<1>2. ASSUME NEW c \in Caller, HangUp(c) PROVE (\A a \in Account : LimiterSlots(a)') /\ GovernorSlots'
  BY <1>2, <1>q, QuietSteps, NoSlotOfGovernorReserved DEF Quiet, LetsNobodyIn
<1>3. ASSUME NEW b \in Account, NEW d \in Budgets, SetBudget(b, d)
      PROVE  (\A a \in Account : LimiterSlots(a)') /\ GovernorSlots'
  <2>1. UNCHANGED <<limiter, lead, call>>
    BY <1>3 DEF SetBudget, governor
  <2> QED BY <1>q, <2>1, NoSlotOfGovernorReserved DEF AccountsKept, BudgetsKept, NoSlotOf, NoSlotOfGovernor
<1>4. CASE Tick
  <2>1. \A c \in Caller : call'[c] = [call[c] EXCEPT !.wait = Less(call[c].wait)] /\ call[c] \in CallState
    BY <1>4 DEF Tick, Inv, TypeOK
  <2>2. \A c \in Caller : /\ call'[c].account = call[c].account /\ call'[c].stage = call[c].stage
                          /\ call'[c].wait = Less(call[c].wait) /\ call[c].wait \in Nat
    BY <2>1 DEF CallState
  <2>3. \A c \in Caller : call'[c].wait > 0 => call[c].wait > 0
    BY <2>2 DEF Less
  <2>4. ASSUME NEW a \in Account, limiter'[a] # None
        PROVE  LimiterSlots(a)'
    <3>1. limiter[a] # None /\ limiter[a] \in LimiterState
          /\ limiter'[a].budget = limiter[a].budget /\ limiter'[a].lead = Less(limiter[a].lead)
      BY <1>4, <2>4 DEF Tick, Inv, TypeOK, LimiterState
    <3>2. Apart(Sleeping(a), Interval(limiter[a].budget), limiter[a].lead)
      BY <3>1 DEF LimiterSlots
    <3>3. Sleeping(a)' \subseteq Sleeping(a) /\ Sleeping(a) \subseteq Caller
      BY <2>2, <2>3 DEF Sleeping
    <3>4. \A c \in Sleeping(a)' : call'[c].wait = Less(call[c].wait) /\ call'[c].wait > 0
      BY <2>2 DEF Sleeping
    <3>5. Interval(limiter[a].budget) \in Nat /\ limiter[a].lead \in Nat
      BY <3>1, LimitersAreTyped
    <3>6. /\ \A c \in Sleeping(a)' : call'[c].wait + Interval(limiter[a].budget) <= Less(limiter[a].lead)
          /\ \A c, d \in Sleeping(a)' : c # d =>
               call'[c].wait + Interval(limiter[a].budget) <= call'[d].wait
               \/ call'[d].wait + Interval(limiter[a].budget) <= call'[c].wait
      BY <2>2, <3>2, <3>3, <3>4, <3>5, TickKeepsApart
    <3> QED BY <3>1, <3>6 DEF LimiterSlots, Apart
  <2>5. GovernorSlots'
    <3>1. Parked' \subseteq Parked /\ Parked \subseteq Caller
          /\ \A c \in Parked' : call'[c].wait = Less(call[c].wait) /\ call'[c].wait > 0
      BY <2>2, <2>3 DEF Parked
    <3>2. lead' = Less(lead) /\ lead \in Nat /\ Spacing \in Nat
      BY <1>4, Bounds DEF Tick, Inv, TypeOK
    <3> QED BY <2>2, <3>1, <3>2, TickKeepsApart DEF GovernorSlots, Apart
  <2> QED BY <2>4, <2>5 DEF LimiterSlots
<1>5. CASE UNCHANGED vars
  BY <1>5, <1>q, NoSlotOfGovernorReserved
     DEF vars, AccountsKept, BudgetsKept, NoSlotOf, NoSlotOfGovernor
<1> QED BY <1>1, <1>2, <1>3, <1>4, <1>5 DEF Next

(* Every caller has a slot of its own: the slots reserved in a limiter are   *)
(* an interval apart and before the next, and so are the governor's, even as *)
(* callers leave and their slots stay reserved (pacing.go Allow, Gate).      *)
THEOREM SlotsAreApartHolds == Spec => []SlotsAreApart
<1>1. Init => (\A a \in Account : LimiterSlots(a)) /\ GovernorSlots
  <2> SUFFICES ASSUME Init PROVE (\A a \in Account : limiter[a] = None) /\ Parked = {}
    BY DEF LimiterSlots, GovernorSlots, Apart
  <2>1. \A c \in Caller : call[c].stage = "idle"
    BY DEF Init, Blank
  <2> QED BY <2>1 DEF Init, Parked
<1>2. (\A a \in Account : LimiterSlots(a)) /\ GovernorSlots => SlotsAreApart
  BY DEF LimiterSlots, GovernorSlots, SlotsAreApart
<1> DEFINE IApart == (\A a \in Account : LimiterSlots(a)) /\ GovernorSlots
<1>3. Inv /\ IApart /\ [Next]_vars => IApart'
  BY ApartStep
<1> HIDE DEF IApart
<1>4. (Init => IApart) /\ (IApart => SlotsAreApart)
  BY <1>1, <1>2 DEF IApart
<1> QED BY <1>3, <1>4, InvInit, InvStep, PTL DEF Spec

-----------------------------------------------------------------------------
(* The backoff.                                                              *)

\* The delays of the errors that are told apart never shrink: the shift of the base overflows
\* into values that are not positive or above the maximum. 1s up to 30s in 64 bits, as the slots
\* are wired (slotwiring/pacing.go:184), do.
DelaysGrow ==
  \A f \in 1..Width + 1 : Delay(f) \in Nat /\ Delay(f) > 0 /\ \A g \in 1..f : Delay(g) <= Delay(f)

\* the provider is never backed off for longer than its latest error was worth
BackedOff ==
  /\ fails \in 0..Width + 1 /\ backoff \in Nat
  /\ fails = 0 => backoff = 0
  /\ fails > 0 => backoff <= Delay(fails)

LEMMA ErrorGrows ==
  ASSUME DelaysGrow, BackedOff, NoteError
  PROVE  BackedOff' /\ backoff' >= backoff
<1> DEFINE f == IF fails <= Width THEN fails + 1 ELSE fails
<1>1. Width \in Nat /\ fails \in 0..Width + 1 /\ backoff \in Nat
  BY ConstantsAssumption DEF BackedOff
<1>2. f \in 1..Width + 1 /\ (fails > 0 => fails \in 1..f)
  BY <1>1
<1>3. fails' = f /\ backoff' = IF Delay(f) > 0 THEN Delay(f) ELSE 0
  BY DEF NoteError
<1> HIDE DEF f
<1>4. Delay(f) \in Nat /\ Delay(f) > 0 /\ (fails > 0 => Delay(fails) <= Delay(f) /\ Delay(fails) \in Nat)
  BY <1>1, <1>2 DEF DelaysGrow
<1>5. backoff' = Delay(f) /\ backoff' \in Nat
  BY <1>3, <1>4
<1>6. backoff <= Delay(f)
  BY <1>1, <1>4 DEF BackedOff
<1> QED BY <1>1, <1>2, <1>3, <1>4, <1>5, <1>6 DEF BackedOff

LEMMA OthersKeepBackoff ==
  ASSUME NEW c \in Caller, CallStep(c), ~Note(c)
  PROVE  UNCHANGED <<fails, backoff>>
BY DEF CallStep, Enter, ReadBudget, Ask, Wake, GiveUp, Release, Refuse, Pass, Unpark, LeavePark,
       Answer, governor

LEMMA BackedOffStep == DelaysGrow /\ BackedOff /\ [Next]_vars => BackedOff'
<1> SUFFICES ASSUME DelaysGrow, BackedOff, [Next]_vars PROVE BackedOff'
  OBVIOUS
<1>1. ASSUME NEW c \in Caller, Note(c) PROVE BackedOff'
  <2>1. CASE NoteSuccess
    BY <2>1, ConstantsAssumption DEF NoteSuccess, BackedOff
  <2>2. CASE NoteError
    BY <2>2, ErrorGrows
  <2> QED BY <1>1, <2>1, <2>2 DEF Note
<1>2. CASE Tick
  BY <1>2 DEF Tick, BackedOff, Less, DelaysGrow
<1>3. ASSUME UNCHANGED <<fails, backoff>> PROVE BackedOff'
  BY <1>3 DEF BackedOff
<1> QED BY <1>1, <1>2, <1>3, OthersKeepBackoff DEF Next, HangUp, SetBudget, governor, vars

\* what a call still notes no step of another takes from it
LEMMA NotedByItself ==
  ASSUME Inv, [Next]_vars, NEW c \in Caller, call[c].stage = "noting", call'[c].stage # "noting"
  PROVE  Note(c)
<1>0. \A d \in Caller : call[d] \in CallState
  BY FieldsAreTyped DEF Inv
<1>1. ASSUME NEW d \in Caller, CallStep(d) PROVE d = c
  <2>1. \A e \in Caller \ {d} : call'[e] = call[e]
    BY <1>1 DEF CallStep, Enter, ReadBudget, Ask, Wake, GiveUp, Release, Refuse, Pass, Unpark, LeavePark,
                Answer, Note, Over, Inv, TypeOK
  <2> QED BY <2>1
<1>2. ASSUME CallStep(c) PROVE Note(c)
  BY <1>2 DEF CallStep, Enter, ReadBudget, Ask, Wake, GiveUp, Release, Refuse, Pass, Unpark, LeavePark,
                Answer
<1>3. ASSUME NEW d \in Caller, HangUp(d) PROVE FALSE
  BY <1>0, <1>3 DEF HangUp, CallState, Inv, TypeOK
<1>4. CASE Tick
  BY <1>0, <1>4 DEF Tick, CallState, Inv, TypeOK
<1>5. ASSUME NEW a \in Account, NEW b \in Budgets, SetBudget(a, b) PROVE FALSE
  BY <1>5 DEF SetBudget
<1> QED BY <1>1, <1>2, <1>3, <1>4, <1>5 DEF Next, vars

(* An error never shortens the backoff of the provider, however many came    *)
(* before it and however ticks, successes and other calls come in between    *)
(* (pacing.go NoteError) - for a base and a maximum whose delays grow.       *)
THEOREM ErrorsNeverShortenBackoffHolds ==
  ASSUME DelaysGrow
  PROVE  Spec => ErrorsNeverShortenBackoff
<1> DEFINE Grows == \A c \in Caller : call[c].stage = "noting" /\ call'[c].stage # "noting"
                                        /\ call[c].result # "ok" => backoff' >= backoff
<1>1. Init => BackedOff
  BY ConstantsAssumption DEF Init, BackedOff
<1>2. BackedOff /\ [Next]_vars => BackedOff'
  BY BackedOffStep
<1>3. Inv /\ BackedOff /\ [Next]_vars => [Grows]_vars
  <2> SUFFICES ASSUME Inv, BackedOff, [Next]_vars, NEW c \in Caller, call[c].stage = "noting",
                      call'[c].stage # "noting", call[c].result # "ok"
               PROVE  backoff' >= backoff
    OBVIOUS
  <2>1. Note(c)
    BY NotedByItself
  <2> QED BY <2>1, ErrorGrows DEF Note
<1> QED BY <1>1, <1>2, <1>3, InvInit, InvStep, PTL DEF Spec, ErrorsNeverShortenBackoff
=============================================================================
