--------------------------- MODULE SlotRuntimeProofs ---------------------------
(* Theorems about linking, removing and the scheduler, for any number of     *)
(* servers, accounts and overlapping calls.                                  *)
EXTENDS SlotRuntime, TLAPS

CallState == [account: Account, stage: Stage, keep: SUBSET Server]
Idling == [account |-> CHOOSE a \in Account : TRUE, stage |-> "idle", keep |-> {}]

\* the stages of a link whose account may still get its job
LinkStage == {"routing", "admitting", "publishing", "scheduling"}

LEMMA Bounds ==
  /\ MaxFaults \in Nat /\ Declared \subseteq Server
  /\ \A a \in Account : Home[a] \in Server
BY ConstantsAssumption

LEMMA IdlingIsTyped == Idling \in CallState /\ Idling.stage = "idle"
<1>1. (CHOOSE a \in Account : TRUE) \in Account
  BY ConstantsAssumption
<1> QED BY <1>1 DEF Idling, CallState, Stage

LEMMA NoCallIsIdling == NoCall = [c \in Call |-> Idling]
BY DEF NoCall, Idling

LEMMA RoutesAreTyped ==
  ASSUME NEW recs \in SUBSET Account
  PROVE  Routed(recs) \subseteq Server /\ Eager(recs) \subseteq recs
BY Bounds DEF Routed, Eager

-----------------------------------------------------------------------------
(* What a step does to the calls: its own gets a new state, and none comes   *)
(* to link an account but through Record.                                    *)
LinksOn(c, q) == q.stage \in LinkStage => call[c].stage \in LinkStage /\ q.account = Of(c)
Moves(c) == \E q \in CallState : call' = [call EXCEPT ![c] = q] /\ LinksOn(c, q)

LEMMA CallsAreTyped ==
  ASSUME TypeOK, NEW c \in Call
  PROVE  /\ call \in [Call -> CallState] /\ call[c] \in CallState
         /\ Of(c) \in Account /\ Home[Of(c)] \in Server /\ call[c].keep \subseteq Server
<1>1. call \in [Call -> CallState] /\ call[c] \in CallState
  BY DEF TypeOK, CallState
<1> QED BY <1>1, Bounds DEF Of, CallState

LEMMA Going ==
  ASSUME TypeOK, NEW c \in Call, NEW s \in Stage, Go(c, s),
         s \in LinkStage => call[c].stage \in LinkStage
  PROVE  Moves(c)
<1> DEFINE q == [call[c] EXCEPT !.stage = s]
<1>1. call[c] \in CallState
  BY CallsAreTyped
<1>2. q \in CallState /\ q.stage = s /\ q.account = Of(c)
  BY <1>1 DEF CallState, Of
<1>3. call' = [call EXCEPT ![c] = q]
  BY DEF Go
<1> QED BY <1>2, <1>3 DEF Moves, LinksOn

LEMMA Ending ==
  ASSUME NEW c \in Call, End(c)
  PROVE  Moves(c)
<1>1. call' = [call EXCEPT ![c] = Idling] /\ Idling \in CallState /\ Idling.stage \notin LinkStage
  BY NoCallIsIdling, IdlingIsTyped DEF End, LinkStage
<1> QED BY <1>1 DEF Moves, LinksOn

LEMMA StepsMove ==
  ASSUME TypeOK, NEW c \in Call, CallStep(c)
  PROVE  Moves(c)
<1>1. CASE Route(c)
  <2>1. PICK s \in {"admitting", "undoing"} : Go(c, s)
    BY <1>1 DEF Route
  <2> QED BY <1>1, <2>1, Going DEF Route, At, Stage, LinkStage
<1>2. CASE Admit(c)
  <2>1. PICK s \in {"publishing", "undoing"} : Go(c, s)
    BY <1>2 DEF Admit
  <2> QED BY <1>2, <2>1, Going DEF Admit, At, Stage, LinkStage
<1>3. CASE Publish(c)
  <2>1. End(c) \/ \E s \in {"scheduling", "undoing"} : Go(c, s)
    BY <1>3 DEF Publish
  <2> QED BY <1>3, <2>1, Going, Ending DEF Publish, At, Stage, LinkStage
<1>4. CASE Schedule(c) \/ Undo(c) \/ ReplaceProviders(c)
  BY <1>4, Ending DEF Schedule, Undo, ReplaceProviders
<1>5. CASE Unreach(c) \/ FindSlot(c) \/ Drop(c) \/ Unschedule(c) \/ Clear(c) \/ Count(c)
           \/ Forget(c) \/ Unresolve(c)
  <2>1. End(c) \/ \E s \in {"finding", "dropping", "unscheduling", "clearing", "counting",
                            "forgetting", "unresolving", "reading"} : Go(c, s)
    BY <1>5 DEF Unreach, FindSlot, Drop, Unschedule, Clear, Count, Forget, Unresolve
  <2> QED BY <2>1, Going, Ending DEF Stage, LinkStage
<1>6. CASE ReadProviders(c)
  <2> DEFINE q == [call[c] EXCEPT !.stage = "replacing", !.keep = providers \ {Home[Of(c)]}]
  <2>1. call[c] \in CallState /\ providers \ {Home[Of(c)]} \in SUBSET Server
    BY CallsAreTyped DEF TypeOK
  <2>2. q \in CallState /\ q.stage = "replacing"
    BY <2>1 DEF CallState, Stage
  <2>3. call' = [call EXCEPT ![c] = q]
    BY <1>6 DEF ReadProviders
  <2> QED BY <2>2, <2>3 DEF Moves, LinksOn, LinkStage
<1> QED BY <1>1, <1>2, <1>3, <1>4, <1>5, <1>6 DEF CallStep

LEMMA RecordMoves ==
  ASSUME TypeOK, NEW c \in Call, NEW a \in Account, Record(c, a)
  PROVE  \E q \in CallState : /\ call' = [call EXCEPT ![c] = q]
                              /\ q.account = a /\ q.stage = "routing"
<1> DEFINE q == [call[c] EXCEPT !.account = a, !.stage = "routing"]
<1>1. call[c] \in CallState
  BY CallsAreTyped
<1>2. q \in CallState /\ q.account = a /\ q.stage = "routing"
  BY <1>1 DEF CallState, Stage
<1>3. call' = [call EXCEPT ![c] = q]
  BY DEF Record
<1> QED BY <1>2, <1>3

LEMMA RemoveMoves ==
  ASSUME TypeOK, NEW c \in Call, NEW a \in Account, Remove(c, a)
  PROVE  \E q \in CallState : /\ call' = [call EXCEPT ![c] = q]
                              /\ q.account = a /\ q.stage = "unreaching"
<1> DEFINE q == [call[c] EXCEPT !.account = a, !.stage = "unreaching"]
<1>1. call[c] \in CallState
  BY CallsAreTyped
<1>2. q \in CallState /\ q.account = a /\ q.stage = "unreaching"
  BY <1>1 DEF CallState, Stage
<1>3. call' = [call EXCEPT ![c] = q]
  BY DEF Remove
<1> QED BY <1>2, <1>3

-----------------------------------------------------------------------------
(* Types.                                                                    *)
LEMMA TypeInit == Init => TypeOK
<1> SUFFICES ASSUME Init PROVE TypeOK
  OBVIOUS
<1>1. call \in [Call -> CallState]
  BY NoCallIsIdling, IdlingIsTyped DEF Init
<1>2. record \in SUBSET Account /\ Routed(record) \subseteq Server /\ Eager(record) \subseteq record
  BY RoutesAreTyped DEF Init
<1>3. loops \in [Account -> Nat] /\ faults \in 0..MaxFaults
  BY Bounds DEF Init
<1> QED BY <1>1, <1>2, <1>3 DEF Init, TypeOK, CallState

LEMMA TypeBoot ==
  ASSUME TypeOK, Restart
  PROVE  TypeOK'
<1>1. call' \in [Call -> CallState]
  BY NoCallIsIdling, IdlingIsTyped DEF Restart, Boot
<1>2. record \in SUBSET Account /\ Routed(record) \subseteq Server /\ Eager(record) \subseteq record
  BY RoutesAreTyped DEF TypeOK
<1>3. loops' \in [Account -> Nat]
  BY DEF Restart, Boot
<1>4. faults' \in 0..MaxFaults
  BY Bounds DEF Restart, TypeOK
<1> QED BY <1>1, <1>2, <1>3, <1>4 DEF Restart, Boot, TypeOK, CallState

LEMMA WorkersAreTyped ==
  ASSUME TypeOK, NEW a \in Account
  PROVE  /\ Started(a) => running' \subseteq Account /\ loops' \in [Account -> Nat]
         /\ Register(a) => /\ jobs' \subseteq Account /\ running' \subseteq Account
                           /\ loops' \in [Account -> Nat]
<1>1. Started(a) => running' \subseteq Account /\ loops' \in [Account -> Nat]
  BY DEF Started, TypeOK
<1> QED BY <1>1 DEF Register, TypeOK

LEMMA ExposedIsTyped ==
  ASSUME TypeOK, NEW c \in Call, Exposing(c)
  PROVE  exposed' \subseteq Server
<1>1. Home[Of(c)] \in Server
  BY CallsAreTyped
<1> QED BY <1>1 DEF Exposing, TypeOK

\* Unschedule needs the count of the workers to match the table: it takes one away
Counted == \A a \in Account : loops[a] = IF a \in running THEN 1 ELSE 0

LEMMA TypeCall ==
  ASSUME TypeOK, Counted, NEW c \in Call, CallStep(c)
  PROVE  TypeOK'
<1> USE DEF slots, schedule, history
<1>1. PICK q \in CallState : call' = [call EXCEPT ![c] = q]
  BY StepsMove DEF Moves
<1>2. call' \in [Call -> [account: Account, stage: Stage, keep: SUBSET Server]]
  BY <1>1, CallsAreTyped DEF CallState
<1>3. Of(c) \in Account /\ Home[Of(c)] \in Server /\ call[c].keep \subseteq Server
  BY CallsAreTyped
<1>4. CASE Route(c)
  BY <1>2, <1>4, ExposedIsTyped DEF Route, TypeOK
<1>5. CASE Admit(c)
  <2>1. faults' \in 0..MaxFaults /\ served' \subseteq Account
    BY <1>3, <1>5, Bounds DEF Admit, TypeOK
  <2> QED BY <1>2, <1>5, <2>1, ExposedIsTyped DEF Admit, TypeOK
<1>6. CASE Publish(c)
  <2>1. served' \subseteq Account /\ reach' \subseteq Account
    BY <1>3, <1>6 DEF Publish, TypeOK
  <2> QED BY <1>2, <1>6, <2>1, ExposedIsTyped DEF Publish, TypeOK
<1>7. CASE Schedule(c)
  <2>1. jobs' \subseteq Account /\ running' \subseteq Account /\ loops' \in [Account -> Nat]
    BY <1>3, <1>7, WorkersAreTyped DEF Schedule
  <2> QED BY <1>2, <1>7, <2>1, ExposedIsTyped DEF Schedule, TypeOK
<1>8. CASE Undo(c) \/ Unreach(c) \/ Drop(c) \/ Forget(c) \/ Unresolve(c) \/ ReadProviders(c)
  BY <1>2, <1>8 DEF Undo, Unreach, Drop, Forget, Unresolve, ReadProviders, TypeOK
<1>9. CASE FindSlot(c)
  BY <1>2, <1>3, <1>9 DEF FindSlot, TypeOK
<1>10. CASE Unschedule(c)
  <2>1. jobs' \subseteq Account /\ running' \subseteq Account
    BY <1>10 DEF Unschedule, Unregister, TypeOK
  <2>2. loops' \in [Account -> Nat]
    BY <1>3, <1>10 DEF Unschedule, Unregister, Counted, TypeOK
  <2>3. escaped' \subseteq Account
    BY <1>3, <1>10 DEF Unschedule, TypeOK
  <2> QED BY <1>2, <1>10, <2>1, <2>2, <2>3 DEF Unschedule, TypeOK
<1>11. CASE Clear(c)
  <2>1. faults' \in 0..MaxFaults
    BY <1>11, Bounds DEF Clear, TypeOK
  <2> QED BY <1>2, <1>11, <2>1 DEF Clear, TypeOK
<1>12. CASE Count(c)
  <2>1. faults' \in 0..MaxFaults
    BY <1>12, Bounds DEF Count, TypeOK
  <2>2. exposed' \subseteq Server
    BY <1>3, <1>12 DEF Count, TypeOK
  <2> QED BY <1>2, <1>12, <2>1, <2>2 DEF Count, TypeOK
<1>13. CASE ReplaceProviders(c)
  BY <1>2, <1>3, <1>13 DEF ReplaceProviders, TypeOK
<1> QED BY <1>4, <1>5, <1>6, <1>7, <1>8, <1>9, <1>10, <1>11, <1>12, <1>13 DEF CallStep

LEMMA TypeBegin ==
  ASSUME TypeOK, NEW c \in Call, NEW a \in Account, Record(c, a) \/ Remove(c, a)
  PROVE  TypeOK'
<1> USE DEF slots, schedule, history
<1>1. PICK q \in CallState : call' = [call EXCEPT ![c] = q]
  BY RecordMoves, RemoveMoves
<1>2. call' \in [Call -> [account: Account, stage: Stage, keep: SUBSET Server]]
  BY <1>1, CallsAreTyped DEF CallState
<1>3. CASE Record(c, a)
  BY <1>2, <1>3 DEF Record, TypeOK
<1>4. CASE Remove(c, a)
  <2>1. \A d \in Call : Home[Of(d)] \in Server
    BY CallsAreTyped
  <2>2. exposed' \subseteq Server
    BY <1>4, <2>1 DEF Remove, TypeOK
  <2> QED BY <1>2, <1>4, <2>2 DEF Remove, TypeOK
<1> QED BY <1>3, <1>4

LEMMA TypeRun ==
  ASSUME TypeOK, RunBegin \/ \E a \in Account : RunStart(a)
  PROVE  TypeOK'
<1> USE DEF slots, schedule, history
<1>1. CASE RunBegin
  BY <1>1 DEF RunBegin, TypeOK
<1>2. ASSUME NEW a \in Account, RunStart(a) PROVE TypeOK'
  <2>1. running' \subseteq Account /\ loops' \in [Account -> Nat]
    BY <1>2, WorkersAreTyped DEF RunStart
  <2> QED BY <1>2, <2>1 DEF RunStart, TypeOK
<1> QED BY <1>1, <1>2

-----------------------------------------------------------------------------
(* The inductive invariant. OneWorkerPerJob alone says nothing of the two    *)
(* facts it rests on: a job is never registered twice, because an id is      *)
(* linked once, and Run never starts a job that already has its worker.      *)

\* nothing is copied or started before Run, and what is copied has no worker yet
Queued ==
  /\ pending \cap running = {}
  /\ pending \cup running # {} => started

\* what the scheduler knows of an account
Known == jobs \cup pending \cup running

\* a link has an id of its own, that the scheduler has not seen
LinksAreFresh ==
  /\ Known \subseteq used
  /\ \A c \in Call : call[c].stage \in LinkStage => Of(c) \in used \ Known
  /\ \A c, d \in Call : c # d /\ call[c].stage \in LinkStage /\ call[d].stage \in LinkStage
                        => Of(c) # Of(d)

\* the workers are those of the jobs, but for the jobs removed while Run had a copy of them
JobsRun ==
  /\ pending \subseteq jobs \cup escaped
  /\ \A a \in Account \ escaped : a \in running <=> started /\ a \in jobs \ pending

Inv == TypeOK /\ Counted /\ Queued /\ LinksAreFresh /\ JobsRun

LEMMA InvImplies == Inv => OneWorkerPerJob
<1> SUFFICES ASSUME Inv, NEW a \in Account
             PROVE  /\ loops[a] <= 1
                    /\ a \notin escaped => (loops[a] = 1 <=> started /\ a \in jobs \ pending)
  BY DEF OneWorkerPerJob
<1>1. loops[a] = IF a \in running THEN 1 ELSE 0
  BY DEF Inv, Counted
<1>2. a \notin escaped => (a \in running <=> started /\ a \in jobs \ pending)
  BY DEF Inv, JobsRun
<1> QED BY <1>1, <1>2

\* the invariant of an instance that has just booted
LEMMA BootIsFresh ==
  ASSUME NEW recs \in SUBSET Account, recs \subseteq used', jobs' = Eager(recs), started' = FALSE,
         pending' = {}, running' = {}, loops' = [a \in Account |-> 0], call' = NoCall
  PROVE  Counted' /\ Queued' /\ LinksAreFresh' /\ JobsRun'
<1>1. jobs' \subseteq used'
  BY RoutesAreTyped
<1>2. \A c \in Call : call'[c].stage \notin LinkStage
  BY NoCallIsIdling, IdlingIsTyped DEF LinkStage
<1> QED BY <1>1, <1>2 DEF Counted, Queued, LinksAreFresh, Known, JobsRun

LEMMA InvInit == Init => Inv
<1> SUFFICES ASSUME Init PROVE Inv
  OBVIOUS
<1>1. TypeOK
  BY TypeInit
<1>2. jobs \subseteq used
  BY RoutesAreTyped DEF Init
<1>3. \A c \in Call : call[c].stage \notin LinkStage
  BY NoCallIsIdling, IdlingIsTyped DEF Init, LinkStage
<1>4. Counted /\ Queued /\ LinksAreFresh /\ JobsRun
  BY <1>2, <1>3 DEF Init, Counted, Queued, LinksAreFresh, Known, JobsRun
<1> QED BY <1>1, <1>4 DEF Inv

-----------------------------------------------------------------------------
(* The links stay fresh when the scheduler learns of no new account, but for *)
(* the one whose link is ending.                                             *)
LEMMA LinksKept ==
  ASSUME Inv, NEW c \in Call, NEW q \in CallState, call' = [call EXCEPT ![c] = q], LinksOn(c, q),
         NEW X \in SUBSET Account, Known' \subseteq Known \cup X,
         X # {} => X = {Of(c)} /\ call[c].stage \in LinkStage /\ q.stage \notin LinkStage,
         used' = used
  PROVE  LinksAreFresh'
<1>1. call'[c] = q /\ \A d \in Call \ {c} : call'[d] = call[d]
  BY CallsAreTyped DEF Inv
<1>2. X \subseteq used
  BY DEF Inv, LinksAreFresh
<1>3. Known' \subseteq used'
  BY <1>2 DEF Inv, LinksAreFresh
<1>4. \A d \in Call : call'[d].stage \in LinkStage =>
        call[d].stage \in LinkStage /\ call'[d].account = call[d].account
  BY <1>1 DEF LinksOn, Of
<1>5. ASSUME NEW d \in Call, call'[d].stage \in LinkStage PROVE call'[d].account \in used' \ Known'
  <2>1. call[d].stage \in LinkStage /\ call'[d].account = call[d].account
    BY <1>4, <1>5
  <2>2. call[d].account \in used \ Known
    BY <2>1 DEF Inv, LinksAreFresh, Of
  <2>3. X # {} => d # c /\ call[c].account # call[d].account
    BY <1>1, <1>5, <2>1 DEF Inv, LinksAreFresh, Of
  <2> QED BY <2>1, <2>2, <2>3 DEF Of
<1>6. ASSUME NEW d \in Call, NEW e \in Call, d # e,
             call'[d].stage \in LinkStage, call'[e].stage \in LinkStage
      PROVE  call'[d].account # call'[e].account
  BY <1>4, <1>6 DEF Inv, LinksAreFresh, Of
<1> QED BY <1>3, <1>5, <1>6 DEF LinksAreFresh, Of

LEMMA LinksKeptIfNoneIsNew ==
  ASSUME Inv, NEW c \in Call, NEW q \in CallState, call' = [call EXCEPT ![c] = q], LinksOn(c, q),
         Known' \subseteq Known, used' = used
  PROVE  LinksAreFresh'
<1> DEFINE X == {}
<1>1. X \in SUBSET Account /\ Known' \subseteq Known \cup X
  OBVIOUS
<1>2. X # {} => X = {Of(c)} /\ call[c].stage \in LinkStage /\ q.stage \notin LinkStage
  OBVIOUS
<1> HIDE DEF X
<1> QED BY <1>1, <1>2, LinksKept

\* a step that leaves the scheduler alone
LEMMA Untouched ==
  ASSUME Inv, UNCHANGED <<schedule, escaped>>
  PROVE  Counted' /\ Queued' /\ JobsRun' /\ Known' = Known
BY DEF Inv, schedule, Counted, Queued, JobsRun, Known

LEMMA InvSchedule ==
  ASSUME Inv, NEW c \in Call, Schedule(c)
  PROVE  Counted' /\ Queued' /\ LinksAreFresh' /\ JobsRun'
<1> DEFINE a == Of(c)
<1>1. TypeOK /\ a \in Account /\ call[c].stage \in LinkStage
  BY CallsAreTyped DEF Inv, Schedule, At, LinkStage
<1>2. a \in used /\ a \notin jobs /\ a \notin pending /\ a \notin running
  BY <1>1 DEF Inv, LinksAreFresh, Known
<1>3. /\ jobs' = jobs \cup {a} /\ pending' = pending /\ started' = started /\ escaped' = escaped
      /\ used' = used
      /\ IF started THEN running' = running \cup {a} /\ loops' = [loops EXCEPT ![a] = @ + 1]
         ELSE running' = running /\ loops' = loops
  BY DEF Schedule, Register, Started
<1> HIDE DEF a
<1>4. Counted'
  BY <1>1, <1>2, <1>3 DEF Inv, Counted, TypeOK
<1>5. Queued'
  BY <1>2, <1>3 DEF Inv, Queued
<1>6. JobsRun'
  BY <1>2, <1>3 DEF Inv, JobsRun, Queued
<1>7. LinksAreFresh'
  <2>1. call' = [call EXCEPT ![c] = Idling] /\ Idling \in CallState /\ Idling.stage \notin LinkStage
    BY NoCallIsIdling, IdlingIsTyped DEF Schedule, End, LinkStage
  <2>2. Known' \subseteq Known \cup {a}
    BY <1>3 DEF Known
  <2>3. LinksOn(c, Idling) /\ {a} \in SUBSET Account /\ {a} = {Of(c)}
    BY <1>1, <2>1 DEF LinksOn, a
  <2> QED BY <1>1, <1>3, <2>1, <2>2, <2>3, LinksKept
<1> QED BY <1>4, <1>5, <1>6, <1>7

LEMMA InvUnschedule ==
  ASSUME Inv, NEW c \in Call, Unschedule(c)
  PROVE  Counted' /\ Queued' /\ LinksAreFresh' /\ JobsRun'
<1> DEFINE a == Of(c)
<1>1. TypeOK /\ a \in Account
  BY CallsAreTyped DEF Inv
<1>2. /\ jobs' = jobs \ {a} /\ running' = running \ {a} /\ pending' = pending /\ started' = started
      /\ loops' = [loops EXCEPT ![a] = IF a \in running THEN @ - 1 ELSE @]
      /\ escaped' = escaped \cup ({a} \cap pending) /\ used' = used
  BY DEF Unschedule, Unregister
<1>3. PICK q \in CallState : call' = [call EXCEPT ![c] = q] /\ LinksOn(c, q)
  BY <1>1, StepsMove DEF CallStep, Moves
<1> HIDE DEF a
<1>4. Counted'
  BY <1>1, <1>2 DEF Inv, Counted, TypeOK
<1>5. Queued'
  BY <1>2 DEF Inv, Queued
<1>6. JobsRun'
  BY <1>2 DEF Inv, JobsRun
<1>7. LinksAreFresh'
  <2>1. Known' \subseteq Known
    BY <1>2 DEF Known
  <2> QED BY <1>2, <1>3, <2>1, LinksKeptIfNoneIsNew
<1> QED BY <1>4, <1>5, <1>6, <1>7

LEMMA InvCall ==
  ASSUME Inv, NEW c \in Call, CallStep(c)
  PROVE  Inv'
<1>1. TypeOK'
  BY TypeCall DEF Inv
<1>2. CASE Schedule(c)
  BY <1>1, <1>2, InvSchedule DEF Inv
<1>3. CASE Unschedule(c)
  BY <1>1, <1>3, InvUnschedule DEF Inv
<1>4. CASE ~Schedule(c) /\ ~Unschedule(c)
  <2>1. UNCHANGED <<schedule, escaped>> /\ used' = used
    BY <1>4 DEF CallStep, Route, Admit, Publish, Undo, Unreach, FindSlot, Drop, Clear, Count,
                Forget, Unresolve, ReadProviders, ReplaceProviders, history
  <2>2. PICK q \in CallState : call' = [call EXCEPT ![c] = q] /\ LinksOn(c, q)
    BY StepsMove DEF Inv, Moves
  <2>3. Counted' /\ Queued' /\ JobsRun' /\ Known' = Known
    BY <2>1, Untouched
  <2>4. LinksAreFresh'
    BY <2>1, <2>2, <2>3, LinksKeptIfNoneIsNew
  <2> QED BY <1>1, <2>3, <2>4 DEF Inv
<1> QED BY <1>2, <1>3, <1>4

LEMMA InvRecord ==
  ASSUME Inv, NEW c \in Call, NEW a \in Account, Record(c, a)
  PROVE  Inv'
<1>1. TypeOK'
  BY TypeBegin DEF Inv
<1>2. PICK q \in CallState : call' = [call EXCEPT ![c] = q] /\ q.account = a /\ q.stage = "routing"
  BY RecordMoves DEF Inv
<1>3. Counted' /\ Queued' /\ JobsRun' /\ Known' = Known
  BY Untouched DEF Record, history
<1>4. call'[c] = q /\ \A d \in Call \ {c} : call'[d] = call[d]
  BY <1>2, CallsAreTyped DEF Inv
<1>5. a \notin used /\ used' = used \cup {a} /\ Known \subseteq used
  BY DEF Record, Inv, LinksAreFresh
<1>6. \A d \in Call \ {c} : call[d].stage \in LinkStage => call[d].account \in used \ Known
  BY DEF Inv, LinksAreFresh, Of
<1>7. \A d \in Call : call'[d].stage \in LinkStage => call'[d].account \in used' \ Known'
  BY <1>2, <1>3, <1>4, <1>5, <1>6
<1>8. ASSUME NEW d \in Call, NEW e \in Call, d # e,
             call'[d].stage \in LinkStage, call'[e].stage \in LinkStage
      PROVE  call'[d].account # call'[e].account
  <2>1. CASE d # c /\ e # c
    BY <1>4, <1>8, <2>1 DEF Inv, LinksAreFresh, Of
  <2>2. CASE d = c \/ e = c
    BY <1>2, <1>4, <1>5, <1>6, <1>8, <2>2
  <2> QED BY <2>1, <2>2
<1>9. LinksAreFresh'
  BY <1>3, <1>5, <1>7, <1>8 DEF LinksAreFresh, Of
<1> QED BY <1>1, <1>3, <1>9 DEF Inv

LEMMA InvRemove ==
  ASSUME Inv, NEW c \in Call, NEW a \in Account, Remove(c, a)
  PROVE  Inv'
<1>1. TypeOK'
  BY TypeBegin DEF Inv
<1>2. PICK q \in CallState : call' = [call EXCEPT ![c] = q] /\ q.account = a /\ q.stage = "unreaching"
  BY RemoveMoves DEF Inv
<1>3. Counted' /\ Queued' /\ JobsRun' /\ Known' = Known
  BY Untouched DEF Remove
<1>4. LinksOn(c, q) /\ Known' \subseteq Known /\ used' = used
  BY <1>2, <1>3 DEF LinksOn, LinkStage, Remove
<1>5. LinksAreFresh'
  BY <1>2, <1>4, LinksKeptIfNoneIsNew
<1> QED BY <1>1, <1>3, <1>5 DEF Inv

LEMMA InvRun ==
  ASSUME Inv, RunBegin \/ \E a \in Account : RunStart(a)
  PROVE  Inv'
<1>1. TypeOK'
  BY TypeRun DEF Inv
<1>2. call' = call /\ used' = used /\ jobs' = jobs /\ escaped' = escaped
  BY DEF RunBegin, RunStart, history
<1>3. Known' = Known /\ Counted' /\ Queued' /\ JobsRun'
  <2>1. CASE RunBegin
    <3>1. ~started /\ started' = TRUE /\ pending' = jobs /\ running' = running /\ loops' = loops
      BY <2>1 DEF RunBegin
    <3>2. running = {} /\ pending = {}
      BY <3>1 DEF Inv, Queued
    <3> QED BY <1>2, <3>1, <3>2 DEF Inv, Known, Counted, Queued, JobsRun
  <2>2. ASSUME NEW a \in Account, RunStart(a) PROVE Known' = Known /\ Counted' /\ Queued' /\ JobsRun'
    <3>1. /\ a \in pending /\ pending' = pending \ {a} /\ started' = started
          /\ running' = running \cup {a} /\ loops' = [loops EXCEPT ![a] = @ + 1]
      BY <2>2 DEF RunStart, Started
    <3>2. a \notin running /\ started
      BY <3>1 DEF Inv, Queued
    <3>3. Counted'
      BY <3>1, <3>2 DEF Inv, Counted, TypeOK
    <3>4. Known' = Known /\ Queued'
      BY <1>2, <3>1, <3>2 DEF Inv, Known, Queued
    <3>5. JobsRun'
      BY <1>2, <3>1, <3>2 DEF Inv, JobsRun
    <3> QED BY <3>3, <3>4, <3>5
  <2> QED BY <2>1, <2>2
<1>4. LinksAreFresh'
  BY <1>2, <1>3 DEF Inv, LinksAreFresh, Of
<1> QED BY <1>1, <1>3, <1>4 DEF Inv

LEMMA InvRestart ==
  ASSUME Inv, Restart
  PROVE  Inv'
<1>1. TypeOK'
  BY TypeBoot DEF Inv
<1>2. record \in SUBSET Account /\ record \subseteq used'
  BY DEF Inv, TypeOK, Restart
<1>3. /\ jobs' = Eager(record) /\ started' = FALSE /\ pending' = {} /\ running' = {}
      /\ loops' = [a \in Account |-> 0] /\ call' = NoCall
  BY DEF Restart, Boot
<1> QED BY <1>1, <1>2, <1>3, BootIsFresh DEF Inv

LEMMA InvStutter == Inv /\ UNCHANGED vars => Inv'
BY DEF Inv, vars, TypeOK, Counted, Queued, LinksAreFresh, Known, JobsRun, Of

LEMMA InvHolds == Spec => []Inv
<1>1. Inv /\ [Next]_vars => Inv'
  BY InvRestart, InvRun, InvCall, InvRecord, InvRemove, InvStutter DEF Next
<1> QED BY <1>1, InvInit, PTL DEF Spec

\* The sets of accounts and servers that linking, removing and the scheduler keep have their
\* types, and no call is ever at a stage it has no step for (app/slots.go, scheduler.go).
THEOREM TypeCorrect == Spec => []TypeOK
<1>1. Inv => TypeOK
  BY DEF Inv
<1> QED BY <1>1, InvHolds, PTL

\* However many links and removals overlap with each other and with the start of the scheduler,
\* and wherever the instance restarts, a job never has two workers; and unless it was removed
\* between Run's copy and its start, it has one exactly when it is registered and Run came to
\* it (scheduler.Register, Remove, Run).
THEOREM OneWorkerPerJobHolds == Spec => []OneWorkerPerJob
BY InvImplies, InvHolds, PTL

-----------------------------------------------------------------------------
(* The slots. The three views of them agree but for the retirements under    *)
(* way, each of which has taken its slot out of the views it came past; and  *)
(* the copy of the list that a removal is about to put back lacks nothing of *)
(* the list but its own slot.                                                *)
RetireStage == {"unresolving", "reading", "replacing"}

ViewsNest ==
  /\ admitted \subseteq resolvers
  /\ \A s \in Server \ exposed : s \in resolvers => s \in providers

Retired ==
  \A c \in Call :
    /\ call[c].stage \in RetireStage => Home[Of(c)] \notin admitted
    /\ call[c].stage \in {"reading", "replacing"} => Home[Of(c)] \notin resolvers
    /\ call[c].stage = "replacing" =>
         /\ Home[Of(c)] \notin call[c].keep
         /\ \A s \in Server \ exposed : s # Home[Of(c)] /\ s \in providers => s \in call[c].keep

Lagging ==
  /\ \A s \in resolvers \ admitted : \E c \in Call : call[c].stage = "unresolving" /\ Home[Of(c)] = s
  /\ \A s \in providers \ (resolvers \cup exposed) :
       \E c \in Call : call[c].stage \in {"reading", "replacing"} /\ Home[Of(c)] = s

Views == ViewsNest /\ Retired /\ Lagging

LEMMA ViewsImply == TypeOK /\ Views => SlotsAgree
<1> SUFFICES ASSUME TypeOK, Views, Settled, NEW s \in Server \ exposed
             PROVE  (s \in admitted <=> s \in resolvers) /\ (s \in admitted <=> s \in providers)
  BY DEF SlotsAgree
<1>1. \A c \in Call : call[c].stage = "idle"
  BY DEF Settled, At
<1>2. s \notin resolvers \ admitted /\ s \notin providers \ (resolvers \cup exposed)
  BY <1>1 DEF Views, Lagging
<1>3. (s \in admitted => s \in resolvers) /\ (s \in resolvers => s \in providers)
  BY DEF Views, ViewsNest
<1> QED BY <1>2, <1>3

LEMMA ViewsInit == Init => Views
<1> SUFFICES ASSUME Init PROVE Views
  OBVIOUS
<1>1. \A c \in Call : call[c].stage = "idle"
  BY NoCallIsIdling, IdlingIsTyped DEF Init
<1> QED BY <1>1 DEF Init, Views, ViewsNest, Retired, Lagging, RetireStage

\* a step that retires nothing
LEMMA ViewsKept ==
  ASSUME TypeOK, Views, NEW c \in Call, NEW q \in CallState, call' = [call EXCEPT ![c] = q],
         call[c].stage \notin RetireStage, q.stage \notin RetireStage,
         UNCHANGED <<admitted, resolvers, providers>>, exposed \subseteq exposed'
  PROVE  Views'
<1>1. call'[c] = q /\ \A d \in Call \ {c} : call'[d] = call[d]
  BY CallsAreTyped
<1>2. ViewsNest'
  BY DEF Views, ViewsNest
<1>3. Retired'
  <2> SUFFICES ASSUME NEW d \in Call, d # c
               PROVE  /\ call[d].stage \in RetireStage => Home[Of(d)] \notin admitted
                      /\ call[d].stage \in {"reading", "replacing"} => Home[Of(d)] \notin resolvers
                      /\ call[d].stage = "replacing" =>
                           /\ Home[Of(d)] \notin call[d].keep
                           /\ \A s \in Server \ exposed' :
                                s # Home[Of(d)] /\ s \in providers => s \in call[d].keep
    BY <1>1 DEF Retired, RetireStage, Of
  <2> QED BY DEF Views, Retired
<1>4. Lagging'
  <2>1. ASSUME NEW s \in resolvers \ admitted
        PROVE  \E d \in Call : call'[d].stage = "unresolving" /\ Home[call'[d].account] = s
    <3>1. PICK d \in Call : call[d].stage = "unresolving" /\ Home[Of(d)] = s
      BY DEF Views, Lagging
    <3> QED BY <1>1, <3>1 DEF RetireStage, Of
  <2>2. ASSUME NEW s \in providers \ (resolvers \cup exposed')
        PROVE  \E d \in Call : call'[d].stage \in {"reading", "replacing"} /\ Home[call'[d].account] = s
    <3>1. PICK d \in Call : call[d].stage \in {"reading", "replacing"} /\ Home[Of(d)] = s
      BY DEF Views, Lagging
    <3> QED BY <1>1, <3>1 DEF RetireStage, Of
  <2> QED BY <2>1, <2>2 DEF Lagging, Of
<1> QED BY <1>2, <1>3, <1>4 DEF Views

\* where a call stands after a step that retires nothing
LEMMA StagesBefore ==
  ASSUME TypeOK, NEW c \in Call,
         \/ Route(c) \/ Admit(c) \/ Publish(c) \/ Schedule(c) \/ Undo(c) \/ Unreach(c) \/ FindSlot(c)
         \/ Drop(c) \/ Unschedule(c) \/ Clear(c) \/ Count(c)
  PROVE  /\ call[c].stage \notin RetireStage /\ call'[c].stage \notin RetireStage
         /\ UNCHANGED <<admitted, resolvers, providers>> /\ exposed \subseteq exposed'
<1>1. \/ End(c)
      \/ \E s \in {"admitting", "undoing", "publishing", "scheduling", "finding", "dropping",
                   "unscheduling", "clearing", "counting", "forgetting"} : Go(c, s)
  BY DEF Route, Admit, Publish, Schedule, Undo, Unreach, FindSlot, Drop, Unschedule, Clear, Count
<1>2. call \in [Call -> CallState] /\ call[c] \in CallState
  BY CallsAreTyped
<1>3. End(c) => call'[c].stage = "idle"
  BY <1>2, NoCallIsIdling, IdlingIsTyped DEF End
<1>4. \A s \in Stage : Go(c, s) => call'[c].stage = s
  BY <1>2 DEF Go, CallState
<1>5. call'[c].stage \notin RetireStage
  BY <1>1, <1>3, <1>4 DEF RetireStage, Stage
<1>6. call[c].stage \notin RetireStage
  BY DEF Route, Admit, Publish, Schedule, Undo, Unreach, FindSlot, Drop, Unschedule, Clear, Count,
         At, RetireStage
<1>7. UNCHANGED <<admitted, resolvers, providers>> /\ exposed \subseteq exposed'
  BY DEF Route, Admit, Publish, Schedule, Undo, Unreach, FindSlot, Drop, Unschedule, Clear, Count,
         slots, history, Exposing
<1> QED BY <1>5, <1>6, <1>7

LEMMA ViewsForget ==
  ASSUME TypeOK, Views, NEW c \in Call, Forget(c)
  PROVE  Views'
<1> DEFINE h == Home[Of(c)]
<1>1. call[c].stage = "forgetting" /\ call' = [call EXCEPT ![c].stage = "unresolving"]
  BY DEF Forget, At, Go
<1>2. /\ call'[c].stage = "unresolving" /\ call'[c].account = call[c].account
      /\ \A d \in Call \ {c} : call'[d] = call[d]
  BY <1>1, CallsAreTyped DEF CallState
<1>3. admitted' = admitted \ {h} /\ UNCHANGED <<resolvers, providers, exposed>>
  BY DEF Forget, history
<1>4. ViewsNest'
  BY <1>3 DEF Views, ViewsNest
<1>5. ASSUME NEW d \in Call
      PROVE  /\ call'[d].stage \in RetireStage => Home[call'[d].account] \notin admitted'
             /\ call'[d].stage \in {"reading", "replacing"} =>
                  Home[call'[d].account] \notin resolvers'
             /\ call'[d].stage = "replacing" =>
                  /\ Home[call'[d].account] \notin call'[d].keep
                  /\ \A s \in Server \ exposed' :
                       s # Home[call'[d].account] /\ s \in providers' => s \in call'[d].keep
  <2>1. CASE d = c
    BY <1>2, <1>3, <2>1 DEF Of
  <2>2. CASE d # c
    BY <1>2, <1>3, <2>2 DEF Views, Retired, Of
  <2> QED BY <2>1, <2>2
<1>6. Retired'
  BY <1>5 DEF Retired, Of
<1>7. ASSUME NEW s \in resolvers' \ admitted'
      PROVE  \E d \in Call : call'[d].stage = "unresolving" /\ Home[call'[d].account] = s
  <2>1. CASE s = h
    BY <1>2, <2>1 DEF Of
  <2>2. CASE s # h
    <3>1. PICK d \in Call : call[d].stage = "unresolving" /\ Home[Of(d)] = s
      BY <1>3, <2>2 DEF Views, Lagging
    <3> QED BY <1>1, <1>2, <3>1 DEF Of
  <2> QED BY <2>1, <2>2
<1>8. ASSUME NEW s \in providers' \ (resolvers' \cup exposed')
      PROVE  \E d \in Call : call'[d].stage \in {"reading", "replacing"} /\ Home[call'[d].account] = s
  <2>1. PICK d \in Call : call[d].stage \in {"reading", "replacing"} /\ Home[Of(d)] = s
    BY <1>3 DEF Views, Lagging
  <2> QED BY <1>1, <1>2, <2>1 DEF Of
<1>9. Lagging'
  BY <1>7, <1>8 DEF Lagging, Of
<1> QED BY <1>4, <1>6, <1>9 DEF Views

LEMMA ViewsUnresolve ==
  ASSUME TypeOK, Views, NEW c \in Call, Unresolve(c)
  PROVE  Views'
<1> DEFINE h == Home[Of(c)]
<1>1. call[c].stage = "unresolving" /\ call' = [call EXCEPT ![c].stage = "reading"]
  BY DEF Unresolve, At, Go
<1>2. /\ call'[c].stage = "reading" /\ call'[c].account = call[c].account
      /\ \A d \in Call \ {c} : call'[d] = call[d]
  BY <1>1, CallsAreTyped DEF CallState
<1>3. resolvers' = resolvers \ {h} /\ UNCHANGED <<admitted, providers, exposed>>
  BY DEF Unresolve, history
<1>4. h \notin admitted
  BY <1>1 DEF Views, Retired, RetireStage
<1>5. ViewsNest'
  BY <1>3, <1>4 DEF Views, ViewsNest
<1>6. ASSUME NEW d \in Call
      PROVE  /\ call'[d].stage \in RetireStage => Home[call'[d].account] \notin admitted'
             /\ call'[d].stage \in {"reading", "replacing"} =>
                  Home[call'[d].account] \notin resolvers'
             /\ call'[d].stage = "replacing" =>
                  /\ Home[call'[d].account] \notin call'[d].keep
                  /\ \A s \in Server \ exposed' :
                       s # Home[call'[d].account] /\ s \in providers' => s \in call'[d].keep
  <2>1. CASE d = c
    BY <1>2, <1>3, <1>4, <2>1 DEF Of
  <2>2. CASE d # c
    BY <1>2, <1>3, <2>2 DEF Views, Retired, Of
  <2> QED BY <2>1, <2>2
<1>7. Retired'
  BY <1>6 DEF Retired, Of
<1>8. ASSUME NEW s \in resolvers' \ admitted'
      PROVE  \E d \in Call : call'[d].stage = "unresolving" /\ Home[call'[d].account] = s
  <2>1. s # h /\ s \in resolvers \ admitted
    BY <1>3
  <2>2. PICK d \in Call : call[d].stage = "unresolving" /\ Home[Of(d)] = s
    BY <2>1 DEF Views, Lagging
  <2> QED BY <1>2, <2>1, <2>2 DEF Of
<1>9. ASSUME NEW s \in providers' \ (resolvers' \cup exposed')
      PROVE  \E d \in Call : call'[d].stage \in {"reading", "replacing"} /\ Home[call'[d].account] = s
  <2>1. CASE s = h
    BY <1>2, <2>1 DEF Of
  <2>2. CASE s # h
    <3>1. PICK d \in Call : call[d].stage \in {"reading", "replacing"} /\ Home[Of(d)] = s
      BY <1>3, <2>2 DEF Views, Lagging
    <3> QED BY <1>1, <1>2, <3>1 DEF Of
  <2> QED BY <2>1, <2>2
<1>10. Lagging'
  BY <1>8, <1>9 DEF Lagging, Of
<1> QED BY <1>5, <1>7, <1>10 DEF Views

LEMMA ViewsRead ==
  ASSUME TypeOK, Views, NEW c \in Call, ReadProviders(c)
  PROVE  Views'
<1> DEFINE h == Home[Of(c)]
           q == [[call[c] EXCEPT !.stage = "replacing"] EXCEPT !.keep = providers \ {h}]
<1>1. call[c].stage = "reading"
  BY DEF ReadProviders, At
<1>2. call' = [call EXCEPT ![c] = q]
  BY CallsAreTyped DEF ReadProviders, CallState
<1>3. q.stage = "replacing" /\ q.account = call[c].account /\ q.keep = providers \ {h}
  BY CallsAreTyped DEF CallState
<1> HIDE DEF q
<1>4. /\ call'[c].stage = "replacing" /\ call'[c].account = call[c].account
      /\ call'[c].keep = providers \ {h}
      /\ \A d \in Call \ {c} : call'[d] = call[d]
  BY <1>2, <1>3, CallsAreTyped
<1>5. UNCHANGED <<admitted, resolvers, providers, exposed>>
  BY DEF ReadProviders, slots, history
<1>6. h \notin admitted /\ h \notin resolvers
  BY <1>1 DEF Views, Retired, RetireStage
<1>7. ViewsNest'
  BY <1>5 DEF Views, ViewsNest
<1>8. ASSUME NEW d \in Call
      PROVE  /\ call'[d].stage \in RetireStage => Home[call'[d].account] \notin admitted'
             /\ call'[d].stage \in {"reading", "replacing"} =>
                  Home[call'[d].account] \notin resolvers'
             /\ call'[d].stage = "replacing" =>
                  /\ Home[call'[d].account] \notin call'[d].keep
                  /\ \A s \in Server \ exposed' :
                       s # Home[call'[d].account] /\ s \in providers' => s \in call'[d].keep
  <2>1. CASE d = c
    BY <1>4, <1>5, <1>6, <2>1 DEF Of
  <2>2. CASE d # c
    BY <1>4, <1>5, <2>2 DEF Views, Retired, Of
  <2> QED BY <2>1, <2>2
<1>9. Retired'
  BY <1>8 DEF Retired, Of
<1>10. ASSUME NEW s \in resolvers' \ admitted'
      PROVE  \E d \in Call : call'[d].stage = "unresolving" /\ Home[call'[d].account] = s
  <2>1. PICK d \in Call : call[d].stage = "unresolving" /\ Home[Of(d)] = s
    BY <1>5 DEF Views, Lagging
  <2> QED BY <1>1, <1>4, <2>1 DEF Of
<1>11. ASSUME NEW s \in providers' \ (resolvers' \cup exposed')
      PROVE  \E d \in Call : call'[d].stage \in {"reading", "replacing"} /\ Home[call'[d].account] = s
  <2>1. PICK d \in Call : call[d].stage \in {"reading", "replacing"} /\ Home[Of(d)] = s
    BY <1>5 DEF Views, Lagging
  <2> QED BY <1>4, <2>1 DEF Of
<1>12. Lagging'
  BY <1>10, <1>11 DEF Lagging, Of
<1> QED BY <1>7, <1>9, <1>12 DEF Views

\* what another removal took from the list meanwhile comes back with the copy, and is exposed
LEMMA ViewsReplace ==
  ASSUME TypeOK, Views, NEW c \in Call, ReplaceProviders(c)
  PROVE  Views'
<1> DEFINE h == Home[Of(c)]
<1>1. call[c].stage = "replacing" /\ call' = [call EXCEPT ![c] = Idling]
  BY NoCallIsIdling DEF ReplaceProviders, At, End
<1>2. call'[c].stage = "idle" /\ \A d \in Call \ {c} : call'[d] = call[d]
  BY <1>1, CallsAreTyped DEF Idling
<1>3. /\ providers' = call[c].keep /\ exposed' = exposed \cup (call[c].keep \ providers)
      /\ UNCHANGED <<admitted, resolvers>>
  BY DEF ReplaceProviders
<1>4. /\ h \notin admitted /\ h \notin resolvers /\ h \notin providers'
      /\ \A s \in Server \ exposed : s # h /\ s \in providers => s \in providers'
  BY <1>1, <1>3 DEF Views, Retired, RetireStage
<1>5. \A s \in Server \ exposed' : s \in providers' => s \in providers
  BY <1>3
<1>6. exposed \subseteq exposed' /\ providers' \subseteq Server
  BY <1>3, CallsAreTyped DEF CallState
<1>7. ViewsNest'
  BY <1>3, <1>4, <1>6 DEF Views, ViewsNest
<1>8. ASSUME NEW d \in Call
      PROVE  /\ call'[d].stage \in RetireStage => Home[call'[d].account] \notin admitted'
             /\ call'[d].stage \in {"reading", "replacing"} =>
                  Home[call'[d].account] \notin resolvers'
             /\ call'[d].stage = "replacing" =>
                  /\ Home[call'[d].account] \notin call'[d].keep
                  /\ \A s \in Server \ exposed' :
                       s # Home[call'[d].account] /\ s \in providers' => s \in call'[d].keep
  <2>1. CASE d = c
    BY <1>2, <2>1 DEF RetireStage
  <2>2. CASE d # c
    BY <1>2, <1>3, <1>5, <1>6, <2>2 DEF Views, Retired, Of
  <2> QED BY <2>1, <2>2
<1>9. Retired'
  BY <1>8 DEF Retired, Of
<1>10. ASSUME NEW s \in resolvers' \ admitted'
      PROVE  \E d \in Call : call'[d].stage = "unresolving" /\ Home[call'[d].account] = s
  <2>1. PICK d \in Call : call[d].stage = "unresolving" /\ Home[Of(d)] = s
    BY <1>3 DEF Views, Lagging
  <2> QED BY <1>1, <1>2, <2>1 DEF Of
<1>11. ASSUME NEW s \in providers' \ (resolvers' \cup exposed')
      PROVE  \E d \in Call : call'[d].stage \in {"reading", "replacing"} /\ Home[call'[d].account] = s
  <2>1. s # h /\ s \in providers \ (resolvers \cup exposed)
    BY <1>3, <1>4, <1>5, <1>6
  <2>2. PICK d \in Call : call[d].stage \in {"reading", "replacing"} /\ Home[Of(d)] = s
    BY <2>1 DEF Views, Lagging
  <2> QED BY <1>2, <2>1, <2>2 DEF Of
<1>12. Lagging'
  BY <1>10, <1>11 DEF Lagging, Of
<1> QED BY <1>7, <1>9, <1>12 DEF Views

LEMMA ViewsCall ==
  ASSUME TypeOK, Views, NEW c \in Call, CallStep(c)
  PROVE  Views'
<1>1. CASE Forget(c)
  BY <1>1, ViewsForget
<1>2. CASE Unresolve(c)
  BY <1>2, ViewsUnresolve
<1>3. CASE ReadProviders(c)
  BY <1>3, ViewsRead
<1>4. CASE ReplaceProviders(c)
  BY <1>4, ViewsReplace
<1>5. CASE \/ Route(c) \/ Admit(c) \/ Publish(c) \/ Schedule(c) \/ Undo(c) \/ Unreach(c)
           \/ FindSlot(c) \/ Drop(c) \/ Unschedule(c) \/ Clear(c) \/ Count(c)
  <2>1. PICK q \in CallState : call' = [call EXCEPT ![c] = q]
    BY StepsMove DEF Moves
  <2>2. /\ call[c].stage \notin RetireStage /\ call'[c].stage \notin RetireStage
        /\ UNCHANGED <<admitted, resolvers, providers>> /\ exposed \subseteq exposed'
    BY <1>5, StagesBefore
  <2>3. q.stage \notin RetireStage
    BY <2>1, <2>2, CallsAreTyped
  <2> QED BY <2>1, <2>2, <2>3, ViewsKept
<1> QED BY <1>1, <1>2, <1>3, <1>4, <1>5 DEF CallStep

LEMMA ViewsBegin ==
  ASSUME TypeOK, Views, NEW c \in Call, NEW a \in Account, Record(c, a) \/ Remove(c, a)
  PROVE  Views'
<1>1. PICK q \in CallState : /\ call' = [call EXCEPT ![c] = q]
                             /\ q.stage \in {"routing", "unreaching"}
  BY RecordMoves, RemoveMoves
<1>2. /\ call[c].stage = "idle" /\ exposed \subseteq exposed'
      /\ UNCHANGED <<admitted, resolvers, providers>>
  BY DEF Record, Remove, At, slots, history
<1>3. call[c].stage \notin RetireStage /\ q.stage \notin RetireStage
  BY <1>1, <1>2 DEF RetireStage
<1> QED BY <1>1, <1>2, <1>3, ViewsKept

LEMMA ViewsBoot ==
  ASSUME TypeOK, Restart
  PROVE  Views'
<1>1. \A c \in Call : call'[c].stage = "idle"
  BY NoCallIsIdling, IdlingIsTyped DEF Restart, Boot
<1>2. admitted' = Routed(record) /\ resolvers' = Routed(record) /\ providers' = Routed(record)
  BY DEF Restart, Boot
<1> QED BY <1>1, <1>2 DEF Views, ViewsNest, Retired, Lagging, RetireStage

LEMMA ViewsElse ==
  ASSUME Views, RunBegin \/ (\E a \in Account : RunStart(a)) \/ UNCHANGED vars
  PROVE  Views'
<1>1. UNCHANGED <<admitted, resolvers, providers, exposed, call>>
  BY DEF RunBegin, RunStart, vars, slots, history
<1> QED BY <1>1 DEF Views, ViewsNest, Retired, Lagging, Of

\* For any number of servers, accounts and overlapping removals, the registry, the resolvers
\* and the runtime's list name the same slots when no call is in progress, but for a slot that
\* one removal's copy of the list brought back over another's (DropAccount).
THEOREM SlotsAgreeHolds == Spec => []SlotsAgree
<1>1. TypeOK /\ Views /\ [Next]_vars => Views'
  BY ViewsCall, ViewsBegin, ViewsBoot, ViewsElse DEF Next
<1>2. Inv => TypeOK
  BY DEF Inv
<1>3. Spec => []Views
  BY <1>1, <1>2, InvHolds, ViewsInit, PTL DEF Spec
<1>4. Spec => [](TypeOK /\ Views)
  BY <1>2, <1>3, InvHolds, PTL
<1> QED BY <1>4, ViewsImply, PTL

-----------------------------------------------------------------------------
(* Linking and removing.                                                     *)

\* the stages of a call at which its account is half linked or half removed
BusyStage == {"routing", "admitting", "publishing", "scheduling", "undoing",
              "unreaching", "finding", "dropping", "unscheduling"}
Busy(c, a) == Of(c) = a /\ call[c].stage \in BusyStage
\* a link that has not found its slot, or lost it
Waits(c, a) == Of(c) = a /\ call[c].stage \in {"routing", "undoing"}

\* what a call has wired or taken apart by now of an account that nobody interfered with
Halfway(a, stage) ==
  CASE stage \in {"routing", "admitting", "undoing"} -> a \in record /\ Gone(a)
    [] stage = "publishing"   -> a \in record /\ a \in served /\ a \notin reach /\ a \notin jobs
    [] stage = "scheduling"   -> a \in record /\ a \in served /\ a \in reach /\ a \notin jobs
    [] stage = "unreaching"   -> a \notin record /\ a \in served
    [] stage = "finding"      -> a \notin record /\ a \in served /\ a \notin reach
    [] stage = "dropping"     -> a \notin record /\ a \notin reach
    [] stage = "unscheduling" -> a \notin record /\ a \notin served /\ a \notin reach

\* what holds of an account nobody works on
AtRest(a) ==
  IF a \in record THEN a \in served /\ a \in reach /\ (Home[a] \in Lazy \/ a \in jobs) ELSE Gone(a)

\* a call works on an id that was minted, and alone but where a removal overtook a link
CallsApart ==
  /\ \A c \in Call : call[c].stage \in BusyStage => Of(c) \in used
  /\ \A a \in Account : Home[a] \notin exposed =>
       \A c, d \in Call : Busy(c, a) /\ Busy(d, a) => c = d

\* what its call says, or nothing half done
Wiring ==
  \A a \in Account : Home[a] \notin exposed =>
    /\ \A c \in Call : Busy(c, a) => Halfway(a, call[c].stage)
    /\ (\A c \in Call : ~Busy(c, a)) => AtRest(a)

\* a slot that retires has no account but such as wait for one, any other account has its slot
Housed ==
  \A a \in record : Home[a] \notin exposed =>
    \/ \E d \in Call : Waits(d, a)
    \/ Retiring(Home[a]) = {} /\ Home[a] \in admitted \cap resolvers \cap providers

Linked == CallsApart /\ Wiring /\ Housed

LEMMA LinkedImplies == TypeOK /\ Linked => LinkedIsWired
<1> SUFFICES ASSUME TypeOK, Linked, Settled, NEW a \in Account, Home[a] \notin exposed
             PROVE  IF a \in record THEN Wired(a) ELSE Gone(a)
  BY DEF LinkedIsWired
<1>1. \A c \in Call : ~Busy(c, a) /\ ~Waits(c, a)
  BY DEF Settled, At, Busy, BusyStage, Waits
<1>2. AtRest(a)
  BY <1>1 DEF Linked, Wiring
<1> QED BY <1>1, <1>2 DEF Linked, Housed, AtRest, Wired

LEMMA LinkedInit == TypeOK /\ Init => Linked
<1> SUFFICES ASSUME TypeOK, Init PROVE Linked
  OBVIOUS
<1>1. \A c \in Call : call[c].stage = "idle"
  BY NoCallIsIdling, IdlingIsTyped DEF Init
<1>2. CallsApart
  BY <1>1 DEF CallsApart, Busy, BusyStage
<1>3. Wiring
  BY <1>1 DEF Init, Wiring, Busy, BusyStage, AtRest, Gone, Eager
<1>4. Housed
  BY <1>1 DEF Init, Housed, Retiring, Routed
<1> QED BY <1>2, <1>3, <1>4 DEF Linked

LEMMA LinkedBoot ==
  ASSUME TypeOK, Restart
  PROVE  Linked'
<1>1. /\ \A c \in Call : call'[c].stage = "idle"
      /\ record' = record /\ served' = record /\ reach' = record /\ jobs' = Eager(record)
      /\ admitted' = Routed(record) /\ resolvers' = Routed(record) /\ providers' = Routed(record)
  BY NoCallIsIdling, IdlingIsTyped DEF Restart, Boot
<1>2. CallsApart'
  BY <1>1 DEF CallsApart, Busy, BusyStage
<1>3. Wiring'
  BY <1>1 DEF Wiring, Busy, BusyStage, AtRest, Gone, Eager, TypeOK
<1>4. Housed'
  BY <1>1 DEF Housed, Retiring, Routed
<1> QED BY <1>2, <1>3, <1>4 DEF Linked

LEMMA LinkedElse ==
  ASSUME Linked, RunBegin \/ (\E a \in Account : RunStart(a)) \/ UNCHANGED vars
  PROVE  Linked'
<1>1. UNCHANGED <<record, used, served, reach, jobs, admitted, resolvers, providers, exposed, call>>
  BY DEF RunBegin, RunStart, vars, slots, history
<1>2. CallsApart'
  BY <1>1 DEF Linked, CallsApart, Busy, Of
<1>3. Wiring'
  <2>1. \A d \in Call, a \in Account : Busy(d, a)' <=> Busy(d, a)
    BY <1>1 DEF Busy, Of
  <2>2. \A a \in Account : AtRest(a)' <=> AtRest(a)
    BY <1>1 DEF AtRest, Gone
  <2>3. \A a \in Account, st \in BusyStage : Halfway(a, st) => Halfway(a, st)'
    BY <1>1 DEF Halfway, Gone, BusyStage
  <2>4. \A d \in Call, a \in Account : Busy(d, a) => call[d].stage \in BusyStage
    BY DEF Busy
  <2>5. \A d \in Call, a \in Account : Busy(d, a) /\ Halfway(a, call[d].stage) => Halfway(a, call[d].stage)'
    BY <1>1, <2>3, <2>4
  <2> QED BY <1>1, <2>1, <2>2, <2>5 DEF Linked, Wiring
<1>4. Housed'
  <2> SUFFICES ASSUME NEW a \in record', Home[a] \notin exposed'
               PROVE  \/ \E d \in Call : Waits(d, a)'
                      \/ /\ Retiring(Home[a])' = {}
                         /\ Home[a] \in admitted' \cap resolvers' \cap providers'
    BY DEF Housed
  <2>1. \A d \in Call : Waits(d, a)' <=> Waits(d, a)
    BY <1>1 DEF Waits, Of
  <2>2. Retiring(Home[a])' = Retiring(Home[a])
    BY <1>1 DEF Retiring, Of
  <2> QED BY <1>1, <2>1, <2>2 DEF Linked, Housed
<1> QED BY <1>2, <1>3, <1>4 DEF Linked

\* where a step leaves its call, and the others
LEMMA GoTo ==
  ASSUME TypeOK, NEW c \in Call, NEW s \in Stage, Go(c, s)
  PROVE  /\ call'[c].stage = s /\ call'[c].account = call[c].account
         /\ \A d \in Call : d # c => call'[d] = call[d]
BY CallsAreTyped DEF Go, CallState

LEMMA EndTo ==
  ASSUME TypeOK, NEW c \in Call, End(c)
  PROVE  call'[c].stage = "idle" /\ \A d \in Call : d # c => call'[d] = call[d]
BY NoCallIsIdling, IdlingIsTyped, CallsAreTyped DEF End

RetireFully == RetireStage \cup {"forgetting"}

LEMMA StageAfter ==
  ASSUME TypeOK, NEW c \in Call, CallStep(c)
  PROVE  /\ \A d \in Call : d # c => call'[d] = call[d]
         /\ call'[c].stage = "idle" \/ call'[c].account = call[c].account
         /\ call'[c].stage \in BusyStage => call[c].stage \in BusyStage
         /\ call'[c].stage \in RetireFully => call[c].stage \in RetireFully \/ Count(c)
<1>1. CASE Route(c) \/ Admit(c) \/ Unreach(c) \/ Drop(c) \/ Unschedule(c)
  <2>1. PICK s \in {"admitting", "undoing", "publishing", "finding", "unscheduling", "clearing"} : Go(c, s)
    BY <1>1 DEF Route, Admit, Unreach, Drop, Unschedule
  <2>2. call[c].stage \in BusyStage
    BY <1>1 DEF Route, Admit, Unreach, Drop, Unschedule, At, BusyStage
  <2>3. s \in Stage /\ s \notin RetireFully
    BY DEF Stage, RetireFully, RetireStage
  <2> QED BY <2>1, <2>2, <2>3, GoTo DEF Of
<1>6. CASE Forget(c) \/ Unresolve(c)
  <2>1. PICK s \in {"unresolving", "reading"} : Go(c, s)
    BY <1>6 DEF Forget, Unresolve
  <2>2. call[c].stage \in RetireFully
    BY <1>6 DEF Forget, Unresolve, At, RetireFully, RetireStage
  <2>3. s \in Stage /\ s \notin BusyStage
    BY DEF Stage, BusyStage
  <2> QED BY <2>1, <2>2, <2>3, GoTo DEF Of
<1>2. CASE Publish(c) \/ FindSlot(c)
  <2>1. (\E s \in {"scheduling", "undoing", "dropping"} : Go(c, s)) \/ End(c)
    BY <1>2 DEF Publish, FindSlot
  <2>2. call[c].stage \in BusyStage
    BY <1>2 DEF Publish, FindSlot, At, BusyStage
  <2> QED BY <2>1, <2>2, GoTo, EndTo DEF Stage, BusyStage, RetireFully, RetireStage
<1>3. CASE Schedule(c) \/ Undo(c) \/ ReplaceProviders(c)
  BY <1>3, EndTo DEF Schedule, Undo, ReplaceProviders, BusyStage, RetireFully, RetireStage
<1>4. CASE Clear(c) \/ Count(c)
  <2>1. Go(c, "counting") \/ (Go(c, "forgetting") /\ Count(c)) \/ End(c)
    BY <1>4 DEF Clear, Count
  <2> QED BY <2>1, GoTo, EndTo DEF Stage, BusyStage, RetireFully, RetireStage
<1>5. CASE ReadProviders(c)
  BY <1>5, CallsAreTyped DEF ReadProviders, CallState, At, BusyStage, RetireFully, RetireStage
<1> QED BY <1>1, <1>2, <1>3, <1>4, <1>5, <1>6 DEF CallStep

\* a step changes what is wired of its call's account only
LEMMA OthersKept ==
  ASSUME TypeOK, NEW c \in Call, CallStep(c)
  PROVE  /\ used' = used /\ exposed \subseteq exposed' /\ record' \subseteq record
         /\ \A b \in Account : b # Of(c) =>
              /\ b \in record' <=> b \in record
              /\ b \in served' <=> b \in served
              /\ b \in reach' <=> b \in reach
              /\ b \in jobs' <=> b \in jobs
BY DEF CallStep, Route, Admit, Publish, Schedule, Undo, Unreach, FindSlot, Drop, Unschedule, Clear, Count,
       Forget, Unresolve, ReadProviders, ReplaceProviders, Register, Unregister, slots, schedule, history, Exposing

\* what its step makes of the account a call works on
LEMMA OwnStep ==
  ASSUME TypeOK, Linked, NEW c \in Call, CallStep(c), NEW a \in Account, a = Of(c), Home[a] \notin exposed',
         call[c].stage \in BusyStage
  PROVE  \/ call'[c].stage \notin BusyStage /\ AtRest(a)'
         \/ \E st \in BusyStage : call'[c].stage = st /\ Halfway(a, st)'
<1>1. Halfway(a, call[c].stage) /\ Home[a] \notin exposed
  BY OthersKept DEF Linked, Wiring, Busy
<1>2. CASE Route(c)
  <2>1. PICK s \in {"admitting", "undoing"} : Go(c, s)
    BY <1>2 DEF Route
  <2>2. call'[c].stage = s
    BY <2>1, GoTo DEF Stage
  <2>3. UNCHANGED <<record, served, reach, jobs>> /\ call[c].stage = "routing"
    BY <1>2 DEF Route, At, slots, schedule
  <2> QED BY <1>1, <2>2, <2>3 DEF Halfway, Gone, BusyStage
<1>3. CASE Admit(c)
  <2>1. call[c].stage = "admitting" /\ a \in record /\ Gone(a) /\ UNCHANGED <<record, reach, jobs>>
    BY <1>1, <1>3 DEF Admit, At, Halfway, schedule
  <2>2. \/ served' = served \cup {a} /\ Go(c, "publishing")
        \/ served' = served /\ Go(c, "undoing")
    BY <1>3, <2>1 DEF Admit
  <2> QED BY <2>1, <2>2, GoTo DEF Halfway, Gone, BusyStage, Stage
<1>4. CASE Publish(c)
  <2>1. /\ call[c].stage = "publishing" /\ a \in record /\ a \in served /\ a \notin reach /\ a \notin jobs
        /\ UNCHANGED <<record, jobs>>
    BY <1>1, <1>4 DEF Publish, At, Halfway, schedule
  <2>2. /\ reach' = reach \cup {a} /\ served' = served
        /\ IF Home[a] \in Lazy THEN End(c) ELSE Go(c, "scheduling")
    BY <1>4, <2>1 DEF Publish
  <2> QED BY <2>1, <2>2, GoTo, EndTo DEF Halfway, AtRest, BusyStage, Stage
<1>5. CASE Schedule(c)
  <2>1. /\ call[c].stage = "scheduling" /\ a \in record /\ a \in served /\ a \in reach
        /\ UNCHANGED <<record, served, reach>> /\ jobs' = jobs \cup {a} /\ End(c)
    BY <1>1, <1>5 DEF Schedule, At, Halfway, slots, Register
  <2> QED BY <2>1, EndTo DEF AtRest, BusyStage
<1>6. CASE Undo(c)
  <2>1. Gone(a) /\ record' = record \ {a} /\ UNCHANGED <<served, reach, jobs>> /\ End(c)
    BY <1>1, <1>6 DEF Undo, At, Halfway, slots, schedule
  <2> QED BY <2>1, EndTo DEF AtRest, Gone, BusyStage
<1>7. CASE Unreach(c)
  <2>1. /\ a \notin record /\ a \in served /\ reach' = reach \ {a}
        /\ UNCHANGED <<record, served>> /\ Go(c, "finding")
    BY <1>1, <1>7 DEF Unreach, At, Halfway, slots
  <2> QED BY <2>1, GoTo DEF Halfway, BusyStage, Stage
<1>8. CASE FindSlot(c)
  <2>1. a \notin record /\ a \in served /\ a \notin reach /\ UNCHANGED <<record, reach, served>>
    BY <1>1, <1>8 DEF FindSlot, At, Halfway, slots
  <2>2. Home[a] \in Server
    BY Bounds
  <2>3. Go(c, "dropping")
    BY <1>8, <2>1, <2>2 DEF FindSlot
  <2> QED BY <2>1, <2>3, GoTo DEF Halfway, BusyStage, Stage
<1>9. CASE Drop(c)
  <2>1. /\ a \notin record /\ a \notin reach /\ served' = served \ {a}
        /\ UNCHANGED <<record, reach>> /\ Go(c, "unscheduling")
    BY <1>1, <1>9 DEF Drop, At, Halfway
  <2> QED BY <2>1, GoTo DEF Halfway, BusyStage, Stage
<1>10. CASE Unschedule(c)
  <2>1. /\ a \notin record /\ a \notin reach /\ a \notin served /\ jobs' = jobs \ {a}
        /\ UNCHANGED <<record, reach, served>> /\ Go(c, "clearing")
    BY <1>1, <1>10 DEF Unschedule, At, Halfway, Unregister, slots
  <2> QED BY <2>1, GoTo DEF AtRest, Gone, BusyStage, Stage
<1>11. ~(Clear(c) \/ Count(c) \/ Forget(c) \/ Unresolve(c) \/ ReadProviders(c) \/ ReplaceProviders(c))
  BY DEF Clear, Count, Forget, Unresolve, ReadProviders, ReplaceProviders, At, BusyStage
<1> QED BY <1>2, <1>3, <1>4, <1>5, <1>6, <1>7, <1>8, <1>9, <1>10, <1>11 DEF CallStep

\* a call at any other stage leaves what is wired of its account alone
LEMMA IdleStep ==
  ASSUME NEW c \in Call, CallStep(c), call[c].stage \notin BusyStage
  PROVE  UNCHANGED <<record, served, reach, jobs>>
<1>1. Clear(c) \/ Count(c) \/ Forget(c) \/ Unresolve(c) \/ ReadProviders(c) \/ ReplaceProviders(c)
  BY DEF CallStep, Route, Admit, Publish, Schedule, Undo, Unreach, FindSlot, Drop, Unschedule, At, BusyStage
<1> QED BY <1>1 DEF Clear, Count, Forget, Unresolve, ReadProviders, ReplaceProviders, slots, schedule

LEMMA BusyBefore ==
  ASSUME TypeOK, NEW c \in Call, CallStep(c)
  PROVE  \A d \in Call, a \in Account : /\ Busy(d, a)' => Busy(d, a)
                                        /\ d # c => (Busy(d, a)' <=> Busy(d, a)) /\ (Waits(d, a)' <=> Waits(d, a))
<1>1. "idle" \notin BusyStage
  BY DEF BusyStage
<1> QED BY <1>1, StageAfter DEF Busy, Waits, Of

LEMMA CallsApartKept ==
  ASSUME TypeOK, Linked, NEW c \in Call, CallStep(c)
  PROVE  CallsApart'
<1>1. ASSUME NEW d \in Call, call'[d].stage \in BusyStage
      PROVE  call'[d].account \in used'
  <2>1. call[d].stage \in BusyStage /\ call'[d].account = Of(d)
    BY <1>1, StageAfter DEF Of, BusyStage
  <2> QED BY <2>1, OthersKept DEF Linked, CallsApart
<1>2. ASSUME NEW a \in Account, Home[a] \notin exposed', NEW d \in Call, NEW e \in Call, Busy(d, a)', Busy(e, a)'
      PROVE  d = e
  BY <1>2, BusyBefore, OthersKept DEF Linked, CallsApart
<1> QED BY <1>1, <1>2 DEF CallsApart, Of

LEMMA WiringKept ==
  ASSUME TypeOK, Linked, NEW c \in Call, CallStep(c)
  PROVE  Wiring'
<1> SUFFICES ASSUME NEW a \in Account, Home[a] \notin exposed'
             PROVE  /\ \A d \in Call : Busy(d, a)' => Halfway(a, call[d].stage)'
                    /\ (\A d \in Call : ~Busy(d, a)') => AtRest(a)'
  BY DEF Wiring
<1>1. Home[a] \notin exposed
  BY OthersKept
<1>2. CASE Busy(c, a)
  <2>1. a = Of(c) /\ call[c].stage \in BusyStage
    BY <1>2 DEF Busy
  <2>2. \A d \in Call : Busy(d, a)' => d = c
    BY <1>1, <1>2, BusyBefore DEF Linked, CallsApart
  <2>3. CASE call'[c].stage \notin BusyStage
    <3>1. AtRest(a)'
      BY <2>1, <2>3, OwnStep
    <3>2. ~Busy(c, a)'
      BY <2>3 DEF Busy
    <3> QED BY <2>2, <3>1, <3>2
  <2>4. CASE call'[c].stage \in BusyStage
    <3>1. PICK st \in BusyStage : call'[c].stage = st /\ Halfway(a, st)'
      BY <2>1, <2>4, OwnStep
    <3>2. Halfway(a, call[c].stage)'
      BY <3>1
    <3>3. Busy(c, a)'
      BY <2>1, <2>4, StageAfter DEF Busy, BusyStage, Of
    <3> QED BY <2>2, <3>2, <3>3
  <2> QED BY <2>3, <2>4
<1>3. CASE ~Busy(c, a)
  <2>1. (a \in record' <=> a \in record) /\ (a \in served' <=> a \in served)
        /\ (a \in reach' <=> a \in reach) /\ (a \in jobs' <=> a \in jobs)
    BY <1>3, OthersKept, IdleStep DEF Busy
  <2>2. \A st \in BusyStage : Halfway(a, st) => Halfway(a, st)'
    BY <2>1 DEF Halfway, Gone, BusyStage
  <2>3. AtRest(a) => AtRest(a)'
    BY <2>1 DEF AtRest, Gone
  <2>4. ~Busy(c, a)'
    BY <1>3, BusyBefore
  <2>5. ASSUME NEW d \in Call, Busy(d, a)'
        PROVE  Halfway(a, call[d].stage)'
    <3>1. d # c /\ Busy(d, a) /\ call'[d] = call[d]
      BY <2>4, <2>5, BusyBefore, StageAfter
    <3>2. call[d].stage \in BusyStage /\ Halfway(a, call[d].stage)
      BY <1>1, <3>1 DEF Linked, Wiring, Busy
    <3>3. PICK st \in BusyStage : st = call[d].stage
      BY <3>2
    <3>4. Halfway(a, st)' /\ call'[d].stage = st
      BY <2>2, <3>1, <3>2, <3>3
    <3> QED BY <3>4
  <2>6. (\A d \in Call : ~Busy(d, a)') => \A d \in Call : ~Busy(d, a)
    BY <1>3, BusyBefore
  <2> QED BY <1>1, <2>3, <2>5, <2>6 DEF Linked, Wiring
<1> QED BY <1>2, <1>3

\* what retires keeps to itself: no retirement begins under an account, and none that goes on
\* takes another slot away
LEMMA RetiringKept ==
  ASSUME TypeOK, Views, NEW c \in Call, CallStep(c), NEW a \in record, Home[a] \notin exposed',
         Retiring(Home[a]) = {}, Home[a] \in admitted \cap resolvers \cap providers
  PROVE  Retiring(Home[a])' = {} /\ Home[a] \in admitted' \cap resolvers' \cap providers'
<1> DEFINE s == Home[a]
<1>1. s \in Server /\ a \in Account /\ s \notin exposed
  BY Bounds, OthersKept DEF TypeOK
<1>2. call[c].stage \in RetireFully => Home[Of(c)] # s
  BY DEF Retiring, RetireFully, RetireStage
<1>3. ~(Count(c) /\ Home[Of(c)] = s /\ call'[c].stage = "forgetting")
  <2> SUFFICES ASSUME Count(c), Home[Of(c)] = s, call'[c].stage = "forgetting" PROVE FALSE
    OBVIOUS
  <2>1. Stays(s)
    BY DEF Stays
  <2> QED BY <2>1 DEF Count
<1>4. Retiring(s)' = {}
  <2>1. ASSUME NEW d \in Call, Home[call'[d].account] = s, call'[d].stage \in RetireFully PROVE FALSE
    <3>1. CASE d # c
      BY <2>1, <3>1, StageAfter DEF Retiring, RetireFully, RetireStage, Of
    <3>2. CASE d = c
      <4>1. call'[c].account = call[c].account
        BY <2>1, <3>2, StageAfter DEF RetireFully, RetireStage
      <4>2. CASE call[c].stage \in RetireFully
        BY <1>2, <2>1, <3>2, <4>1, <4>2 DEF Of
      <4>3. CASE Count(c)
        <5>1. call'[c].stage = "forgetting"
          BY <2>1, <3>2, <4>3, StagesBefore DEF RetireFully
        <5> QED BY <1>3, <2>1, <3>2, <4>1, <4>3, <5>1 DEF Of
      <4> QED BY <2>1, <3>2, <4>2, <4>3, StageAfter
    <3> QED BY <3>1, <3>2
  <2> QED BY <2>1 DEF Retiring, RetireFully, RetireStage, Of
<1>5. s \in admitted' \cap resolvers' \cap providers'
  <2>1. CASE Forget(c) \/ Unresolve(c)
    <3>1. Home[Of(c)] # s
      BY <1>2, <2>1 DEF Forget, Unresolve, At, RetireFully, RetireStage
    <3> QED BY <2>1, <3>1 DEF Forget, Unresolve
  <2>2. CASE ReplaceProviders(c)
    <3>1. Home[Of(c)] # s /\ call[c].stage = "replacing"
      BY <1>2, <2>2 DEF ReplaceProviders, At, RetireFully, RetireStage
    <3>2. s \in call[c].keep
      BY <1>1, <3>1 DEF Views, Retired
    <3> QED BY <2>2, <3>2 DEF ReplaceProviders
  <2>3. CASE ReadProviders(c)
    BY <2>3 DEF ReadProviders, slots
  <2> QED BY <2>1, <2>2, <2>3, StagesBefore DEF CallStep
<1> QED BY <1>4, <1>5

\* a link that finds its slot finds one that nothing retires, and that all views know
LEMMA RouteFindsASlot ==
  ASSUME TypeOK, Views, NEW c \in Call, Route(c), NEW s \in Server, s = Home[Of(c)],
         s \in providers, s \notin exposed'
  PROVE  Retiring(s) = {} /\ s \in admitted \cap resolvers \cap providers
<1>1. c \notin Retiring(s)
  BY DEF Route, At, Retiring
<1>2. Retiring(s) = {} /\ s \notin exposed
  BY <1>1 DEF Route, Exposing
<1>3. s \in resolvers
  BY <1>2 DEF Views, Lagging, Retiring
<1>4. s \in admitted
  BY <1>2, <1>3 DEF Views, Lagging, Retiring
<1> QED BY <1>2, <1>3, <1>4

LEMMA HousedKept ==
  ASSUME TypeOK, Views, Linked, NEW c \in Call, CallStep(c)
  PROVE  Housed'
<1> SUFFICES ASSUME NEW a \in record', Home[a] \notin exposed'
             PROVE  \/ \E d \in Call : Waits(d, a)'
                    \/ /\ Retiring(Home[a])' = {}
                       /\ Home[a] \in admitted' \cap resolvers' \cap providers'
  BY DEF Housed
<1>1. a \in record /\ a \in Account /\ Home[a] \notin exposed /\ Home[a] \in Server
  BY OthersKept, Bounds DEF TypeOK
<1>2. CASE Retiring(Home[a]) = {} /\ Home[a] \in admitted \cap resolvers \cap providers
  BY <1>1, <1>2, RetiringKept
<1>3. CASE \E d \in Call : d # c /\ Waits(d, a)
  BY <1>1, <1>3, BusyBefore
<1>4. CASE Waits(c, a)
  <2>1. Of(c) = a /\ (Route(c) \/ Undo(c))
    BY <1>4 DEF Waits, CallStep, Admit, Publish, Schedule, Unreach, FindSlot, Drop, Unschedule, Clear, Count,
                Forget, Unresolve, ReadProviders, ReplaceProviders, At
  <2>2. ~Undo(c)
    BY <2>1 DEF Undo
  <2>3. CASE Home[a] \in providers
    BY <1>1, <2>1, <2>2, <2>3, RouteFindsASlot, RetiringKept
  <2>4. CASE Home[a] \notin providers
    <3>1. Go(c, "undoing")
      BY <2>1, <2>2, <2>4 DEF Route
    <3>2. Waits(c, a)'
      BY <2>1, <3>1, GoTo DEF Waits, Of, Stage
    <3> QED BY <3>2
  <2> QED BY <2>3, <2>4
<1> QED BY <1>1, <1>2, <1>3, <1>4 DEF Linked, Housed

\* a call that begins: it was idle, and takes an account on
LEMMA Begun ==
  ASSUME TypeOK, NEW c \in Call, NEW a \in Account, Record(c, a) \/ Remove(c, a)
  PROVE  /\ call'[c].account = a /\ call'[c].stage \in {"routing", "unreaching"}
         /\ \A d \in Call : d # c => call'[d] = call[d]
         /\ \A b \in Account : ~Busy(c, b) /\ ~Waits(c, b) /\ (b # a => ~Busy(c, b)')
         /\ \A d \in Call, b \in Account : d # c => (Busy(d, b)' <=> Busy(d, b)) /\ (Waits(d, b)' <=> Waits(d, b))
         /\ \A s : Retiring(s)' = Retiring(s)
         /\ UNCHANGED <<served, reach, jobs, admitted, resolvers, providers>> /\ exposed \subseteq exposed'
         /\ \A b \in Account : b # a => (b \in record' <=> b \in record)
         /\ used \subseteq used' /\ a \in used'
<1>1. call[c].stage = "idle" /\ call[c] \in CallState
  BY CallsAreTyped DEF Record, Remove, At
<1>2. \/ call' = [call EXCEPT ![c].account = a, ![c].stage = "routing"]
      \/ call' = [call EXCEPT ![c].account = a, ![c].stage = "unreaching"]
  BY DEF Record, Remove
<1>3. /\ call'[c].account = a /\ call'[c].stage \in {"routing", "unreaching"}
      /\ \A d \in Call : d # c => call'[d] = call[d]
  BY <1>1, <1>2, CallsAreTyped DEF CallState
<1>4. /\ \A b \in Account : ~Busy(c, b) /\ ~Waits(c, b) /\ (b # a => ~Busy(c, b)')
      /\ \A d \in Call, b \in Account : d # c => (Busy(d, b)' <=> Busy(d, b)) /\ (Waits(d, b)' <=> Waits(d, b))
  BY <1>1, <1>3 DEF Busy, Waits, BusyStage, Of
<1>5. \A s : Retiring(s)' = Retiring(s)
  BY <1>1, <1>3 DEF Retiring, Of
<1>6. /\ UNCHANGED <<served, reach, jobs, admitted, resolvers, providers>> /\ exposed \subseteq exposed'
      /\ \A b \in Account : b # a => (b \in record' <=> b \in record)
      /\ used \subseteq used' /\ a \in used'
  BY DEF Record, Remove, slots, schedule, history, TypeOK
<1> QED BY <1>3, <1>4, <1>5, <1>6

\* nobody works on the account a call takes on, but where a removal overtakes a link
LEMMA BegunAlone ==
  ASSUME TypeOK, Linked, NEW c \in Call, NEW a \in Account, Record(c, a) \/ Remove(c, a), Home[a] \notin exposed'
  PROVE  /\ \A d \in Call : ~Busy(d, a)
         /\ Halfway(a, call[c].stage)'
<1>1. CASE Record(c, a)
  <2>1. a \notin used /\ a \notin record /\ exposed' = exposed
    BY <1>1 DEF Record, TypeOK, history
  <2>2. \A d \in Call : ~Busy(d, a)
    BY <2>1 DEF Linked, CallsApart, Busy
  <2>3. Gone(a)
    BY <2>1, <2>2 DEF Linked, Wiring, AtRest
  <2>4. call'[c].stage = "routing" /\ a \in record' /\ UNCHANGED <<served, reach, jobs>>
    BY <1>1, CallsAreTyped DEF Record, CallState, slots, schedule
  <2> QED BY <2>2, <2>3, <2>4 DEF Halfway, Gone
<1>2. CASE Remove(c, a)
  <2>1. a \in record /\ a \notin record' /\ UNCHANGED <<served>> /\ Home[a] \notin exposed
    BY <1>2 DEF Remove, slots
  <2>2. \A d \in Call : Of(d) = a => call[d].stage = "idle"
    BY <1>2 DEF Remove, At
  <2>3. \A d \in Call : ~Busy(d, a)
    BY <2>2 DEF Busy, BusyStage
  <2>4. a \in served
    BY <2>1, <2>3 DEF Linked, Wiring, AtRest
  <2>5. call'[c].stage = "unreaching"
    BY <1>2, CallsAreTyped DEF Remove, CallState
  <2> QED BY <2>1, <2>3, <2>4, <2>5 DEF Halfway
<1> QED BY <1>1, <1>2

LEMMA LinkedBegin ==
  ASSUME TypeOK, Linked, NEW c \in Call, NEW a \in Account, Record(c, a) \/ Remove(c, a)
  PROVE  Linked'
<1>1. CallsApart'
  <2>1. \A d \in Call : call'[d].stage \in BusyStage => call'[d].account \in used'
    BY Begun DEF Linked, CallsApart, Of
  <2>2. ASSUME NEW b \in Account, Home[b] \notin exposed', NEW d \in Call, NEW e \in Call, Busy(d, b)', Busy(e, b)'
        PROVE  d = e
    <3>1. CASE b = a
      BY <2>2, <3>1, Begun, BegunAlone
    <3>2. CASE b # a
      BY <2>2, <3>2, Begun DEF Linked, CallsApart
    <3> QED BY <3>1, <3>2
  <2> QED BY <2>1, <2>2 DEF CallsApart, Of
<1>2. Wiring'
  <2> SUFFICES ASSUME NEW b \in Account, Home[b] \notin exposed'
               PROVE  /\ \A d \in Call : Busy(d, b)' => Halfway(b, call[d].stage)'
                      /\ (\A d \in Call : ~Busy(d, b)') => AtRest(b)'
    BY DEF Wiring
  <2>1. CASE b = a
    <3>1. Busy(c, a)'
      BY Begun DEF Busy, Of, BusyStage
    <3>2. \A d \in Call : Busy(d, a)' => d = c
      BY <2>1, Begun, BegunAlone
    <3> QED BY <2>1, <3>1, <3>2, BegunAlone
  <2>2. CASE b # a
    <3>1. /\ b \in record' <=> b \in record
          /\ UNCHANGED <<served, reach, jobs>> /\ Home[b] \notin exposed
      BY <2>2, Begun
    <3>2. \A st \in BusyStage : Halfway(b, st) => Halfway(b, st)'
      BY <3>1 DEF Halfway, Gone, BusyStage
    <3>3. AtRest(b) => AtRest(b)'
      BY <3>1 DEF AtRest, Gone
    <3>4. ASSUME NEW d \in Call, Busy(d, b)'
          PROVE  Halfway(b, call[d].stage)'
      <4>1. d # c /\ Busy(d, b) /\ call'[d] = call[d]
        BY <2>2, <3>4, Begun
      <4>2. call[d].stage \in BusyStage /\ Halfway(b, call[d].stage)
        BY <3>1, <4>1 DEF Linked, Wiring, Busy
      <4>3. PICK st \in BusyStage : st = call[d].stage
        BY <4>2
      <4>4. Halfway(b, st)' /\ call'[d].stage = st
        BY <3>2, <4>1, <4>2, <4>3
      <4> QED BY <4>4
    <3>5. (\A d \in Call : ~Busy(d, b)') => \A d \in Call : ~Busy(d, b)
      BY Begun
    <3> QED BY <3>1, <3>3, <3>4, <3>5 DEF Linked, Wiring
  <2> QED BY <2>1, <2>2
<1>3. Housed'
  <2> SUFFICES ASSUME NEW b \in record', Home[b] \notin exposed'
               PROVE  \/ \E d \in Call : Waits(d, b)'
                      \/ /\ Retiring(Home[b])' = {}
                         /\ Home[b] \in admitted' \cap resolvers' \cap providers'
    BY DEF Housed
  <2>1. CASE b = a
    <3>1. Record(c, a)
      BY <2>1 DEF Remove
    <3>2. Waits(c, a)'
      BY <3>1, CallsAreTyped DEF Record, Waits, Of, CallState
    <3> QED BY <2>1, <3>2
  <2>2. CASE b # a
    <3>1. b \in Account
      BY DEF Record, Remove, TypeOK
    <3>2. b \in record /\ Home[b] \notin exposed
      BY <2>2, <3>1, Begun
    <3>3. Retiring(Home[b])' = Retiring(Home[b])
      BY Begun
    <3> QED BY <3>1, <3>2, <3>3, Begun DEF Linked, Housed
  <2> QED BY <2>1, <2>2
<1> QED BY <1>1, <1>2, <1>3 DEF Linked

\* For any number of servers, accounts, overlapping calls, failures and restarts, linking and
\* removing leave nothing half wired when no call is in progress, but on a server whose slot
\* retired under a link or on a failed count (LinkAccount, DropAccount).
THEOREM LinkedIsWiredHolds == Spec => []LinkedIsWired
<1>1. ASSUME TypeOK, Views, Linked, [Next]_vars PROVE Linked'
  <2>1. CASE \E c \in Call : CallStep(c)
    BY <1>1, <2>1, CallsApartKept, WiringKept, HousedKept DEF Linked
  <2>2. CASE \E c \in Call : \E a \in Account : Record(c, a) \/ Remove(c, a)
    BY <1>1, <2>2, LinkedBegin
  <2>3. CASE Restart
    BY <1>1, <2>3, LinkedBoot
  <2>4. CASE RunBegin \/ (\E a \in Account : RunStart(a)) \/ UNCHANGED vars
    BY <1>1, <2>4, LinkedElse
  <2> QED BY <1>1, <2>1, <2>2, <2>3, <2>4 DEF Next
<1>2. Inv => TypeOK
  BY DEF Inv
<1>3. Spec => []Views
  <2>1. TypeOK /\ Views /\ [Next]_vars => Views'
    BY ViewsCall, ViewsBegin, ViewsBoot, ViewsElse DEF Next
  <2> QED BY <1>2, <2>1, InvHolds, ViewsInit, PTL DEF Spec
<1>4. TypeOK /\ Views /\ Linked /\ [Next]_vars => Linked'
  BY <1>1
<1>5. Spec => []Linked
  BY <1>2, <1>3, <1>4, InvHolds, LinkedInit, PTL DEF Spec
<1> QED BY <1>2, <1>5, InvHolds, LinkedImplies, PTL
=============================================================================
