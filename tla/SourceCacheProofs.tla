-------------------------- MODULE SourceCacheProofs --------------------------
(* Theorems about the source cache, for any number of items and runs.        *)
EXTENDS SourceCache, FiniteSetTheorems, TLAPS

LEMMA IdleIsTyped == Idle \in RunState
BY ConstantsAssumption DEF Idle, RunState

(* What follows a stored item is again a run.                                *)
LEMMA ProceedIsTyped ==
  ASSUME NEW q \in RunState
  PROVE  Proceed(q) \in RunState
<1>1. CASE q.batch # {} /\ q.kind = "sync"
  BY <1>1 DEF Proceed, RunState
<1>2. CASE q.batch # {} /\ q.kind # "sync"
  BY <1>2 DEF Proceed, RunState
<1>3. CASE q.batch = {} /\ (q.kind = "search" \/ (q.kind = "sync" /\ q.more))
  BY <1>3 DEF Proceed, RunState
<1>4. CASE q.batch = {} /\ ~(q.kind = "search" \/ (q.kind = "sync" /\ q.more))
  <2>1. Proceed(q) = [q EXCEPT !.stage = "reconciling", !.gone = q.prev \ q.seen,
                                !.news = IF q.kind = "sync" THEN q.seen \ q.prev ELSE q.news]
    BY <1>4 DEF Proceed, RunState
  <2> QED BY <2>1 DEF RunState
<1> QED BY <1>1, <1>2, <1>3, <1>4

LEMMA FieldsAreTyped ==
  ASSUME NEW q \in RunState
  PROVE  /\ q.cur \in Item /\ q.offset \in Nat /\ q.items \in Nat /\ q.items + 1 \in Nat
         /\ q.prev \subseteq Item /\ q.owed \subseteq Item /\ q.news \subseteq Item
BY DEF RunState

(* The state changes of a run keep it a run.                                 *)
LEMMA ChangesAreTyped ==
  ASSUME NEW q \in RunState, NEW i \in Item, NEW S \in SUBSET Item, NEW b \in BOOLEAN,
         NEW n \in Nat
  PROVE  /\ [q EXCEPT !.stage = "storing", !.cur = i, !.fresh = b] \in RunState
         /\ [q EXCEPT !.stage = "resolving", !.cur = i, !.owed = @ \cup S] \in RunState
         /\ [q EXCEPT !.batch = @ \ {i}, !.seen = @ \cup {i}, !.items = n, !.news = S] \in RunState
         /\ [q EXCEPT !.stage = "telling", !.cur = i, !.gone = @ \ {i}, !.owed = @ \cup S] \in RunState
         /\ [q EXCEPT !.news = @ \ {i}, !.owed = @ \ {i}] \in RunState
BY DEF RunState

LEMMA Bounds == MaxChanges \in Nat /\ MaxFaults \in Nat
BY ConstantsAssumption

LEMMA PagesAreCounted ==
  ASSUME catalog \subseteq Item, NEW offset \in Nat
  PROVE  Page(offset) \subseteq Item /\ Cardinality(Page(offset)) \in Nat
<1>1. Page(offset) \subseteq Item
  BY DEF Page
<1>2. IsFiniteSet(Page(offset))
  BY <1>1, ConstantsAssumption, FS_Subset
<1> QED BY <1>1, <1>2, FS_CardinalityType

-----------------------------------------------------------------------------
LEMMA TypeInit == Init => TypeOK
<1> SUFFICES ASSUME Init PROVE TypeOK
  OBVIOUS
<1>1. class \in Classes /\ catalog \subseteq Item /\ manifest \in Nat \cup {Marker}
  BY DEF Init
<1>2. run \in [Run -> RunState]
  BY IdleIsTyped DEF Init
<1>3. changes \in 0..MaxChanges /\ faults \in 0..MaxFaults
  BY Bounds DEF Init
<1> QED BY <1>1, <1>2, <1>3 DEF Init, TypeOK

(* A run begins: one state is new, the others learn that they are not alone. *)
LEMMA BeginIsTyped ==
  ASSUME TypeOK, NEW r \in Run, NEW q \in RunState, Begin(r, q)
  PROVE  TypeOK'
<1>1. run' \in [Run -> RunState]
  <2>1. [q EXCEPT !.stage = "fetching", !.carried = catalog, !.alone = Active = {}] \in RunState
    BY DEF TypeOK, RunState
  <2>2. \A p \in Run : [run[p] EXCEPT !.alone = FALSE] \in RunState
    BY DEF TypeOK, RunState
  <2> QED BY <2>1, <2>2 DEF Begin, TypeOK
<1> QED BY <1>1 DEF Begin, TypeOK, provider, cache, removal, events

LEMMA EmitIsTyped ==
  ASSUME TypeOK, NEW i \in Item, NEW p \in BOOLEAN, Emit(i, p)
  PROVE  told' \subseteq Item /\ stranded' \subseteq Item /\ faults' \in 0..MaxFaults
BY Bounds DEF TypeOK, Emit

LEMMA TypeStep == TypeOK /\ [Next]_vars => TypeOK'
<1> SUFFICES ASSUME TypeOK, [Next]_vars PROVE TypeOK'
  OBVIOUS
<1>t. \A r \in Run : run[r] \in RunState
  BY DEF TypeOK
<1>0. \A r \in Run, q \in RunState : [run EXCEPT ![r] = q] \in [Run -> RunState]
  BY DEF TypeOK
<1>1. ASSUME NEW i \in Item, CatalogChanges(i) PROVE TypeOK'
  <2>1. catalog' \subseteq Item
    BY <1>1 DEF CatalogChanges, TypeOK
  <2>2. ASSUME NEW r \in Run
        PROVE  [run[r] EXCEPT !.carried = @ \cap catalog', !.steady = FALSE,
                              !.shrunk = @ \/ i \in catalog] \in RunState
    <3> DEFINE b == run[r].shrunk \/ i \in catalog
    <3>1. run[r] \in RunState /\ b \in BOOLEAN
      BY <1>t
    <3> HIDE DEF b
    <3>2. [run[r] EXCEPT !.carried = @ \cap catalog', !.steady = FALSE, !.shrunk = b] \in RunState
      BY <2>1, <3>1 DEF RunState
    <3> QED BY <3>2 DEF b
  <2>3. run' \in [Run -> RunState]
    BY <1>1, <2>2 DEF CatalogChanges, TypeOK
  <2>4. changes' \in 0..MaxChanges
    <3>1. changes < MaxChanges /\ changes' = changes + 1
      BY <1>1 DEF CatalogChanges
    <3> QED BY <3>1, Bounds DEF TypeOK
  <2>5. UNCHANGED <<class, cache, removal, events, faults, overlap>>
    BY <1>1 DEF CatalogChanges
  <2>6. /\ rows' \subseteq Item /\ mapped' \subseteq Item /\ manifest' \in Nat \cup {Marker}
        /\ account' \in {"live", "leaving", "unserved", "dropping", "gone"}
        /\ keys' \subseteq Item \cup {Marker} /\ overrun' \in BOOLEAN
        /\ told' \subseteq Item /\ stranded' \subseteq Item
    BY <2>5 DEF TypeOK, cache, removal, events
  <2>7. class' \in Classes /\ faults' \in 0..MaxFaults /\ overlap' \in BOOLEAN
    BY <2>5 DEF TypeOK
  <2> QED BY <2>1, <2>3, <2>4, <2>6, <2>7 DEF TypeOK
<1>2. ASSUME NEW r \in Run, BeginSync(r) PROVE TypeOK'
  <2>1. [Idle EXCEPT !.prev = rows] \in RunState
    BY IdleIsTyped DEF TypeOK, RunState
  <2> QED BY <1>2, <2>1, BeginIsTyped DEF BeginSync
<1>3. ASSUME NEW r \in Run, BeginSearch(r) PROVE TypeOK'
  <2>1. [Idle EXCEPT !.kind = "search"] \in RunState
    BY IdleIsTyped DEF RunState
  <2> QED BY <1>3, <2>1, BeginIsTyped DEF BeginSearch
<1>4. ASSUME NEW r \in Run, NEW S \in SUBSET Item, BeginRefresh(r, S) PROVE TypeOK'
  <2>1. [Idle EXCEPT !.kind = "refresh", !.prev = S] \in RunState
    BY IdleIsTyped DEF RunState
  <2> QED BY <1>4, <2>1, BeginIsTyped DEF BeginRefresh
<1>5. ASSUME NEW r \in Run, FetchPage(r) PROVE TypeOK'
  <2> DEFINE q == run[r]
             f == [q EXCEPT !.batch = Page(q.offset), !.offset = @ + Cardinality(Page(q.offset)),
                            !.more = MoreAfter(q.offset)]
  <2>1. q \in RunState /\ q.offset \in Nat
    BY <1>t, FieldsAreTyped
  <2>2. Page(q.offset) \subseteq Item /\ Cardinality(Page(q.offset)) \in Nat
    BY <2>1, PagesAreCounted DEF TypeOK
  <2>3. MoreAfter(q.offset) \in BOOLEAN
    BY DEF MoreAfter
  <2>4. f \in RunState
    <3> DEFINE b == MoreAfter(q.offset)
               n == q.offset + Cardinality(Page(q.offset))
    <3>1. b \in BOOLEAN /\ n \in Nat
      BY <2>1, <2>2, <2>3
    <3> HIDE DEF b, n
    <3>2. [q EXCEPT !.batch = Page(q.offset), !.offset = n, !.more = b] \in RunState
      BY <2>1, <2>2, <3>1 DEF RunState
    <3> QED BY <3>2 DEF b, n
  <2>5. Proceed(f) \in RunState
    BY <2>4, ProceedIsTyped
  <2>6. run' \in [Run -> RunState]
    BY <1>0, <1>5, <2>5 DEF FetchPage
  <2> QED BY <1>5, <2>6 DEF FetchPage, TypeOK, provider, cache, removal, events
<1>6. ASSUME NEW r \in Run, NEW i \in Item, Look(r, i) PROVE TypeOK'
  <2>1. /\ [run[r] EXCEPT !.stage = "storing", !.cur = i, !.fresh = i \notin rows] \in RunState
        /\ [run[r] EXCEPT !.stage = "storing", !.cur = i, !.fresh = TRUE] \in RunState
    <3> DEFINE b == i \notin rows
    <3>1. b \in BOOLEAN
      OBVIOUS
    <3> HIDE DEF b
    <3>2. /\ [run[r] EXCEPT !.stage = "storing", !.cur = i, !.fresh = b] \in RunState
          /\ [run[r] EXCEPT !.stage = "storing", !.cur = i, !.fresh = TRUE] \in RunState
      BY <1>t, <3>1, ChangesAreTyped
    <3> QED BY <3>2 DEF b
  <2>2. run' \in [Run -> RunState]
    BY <1>0, <1>6, <2>1 DEF Look
  <2>3. faults' \in 0..MaxFaults
    BY <1>6, Bounds DEF Look, TypeOK
  <2> QED BY <1>6, <2>2, <2>3 DEF Look, TypeOK, provider, cache, removal, events
<1>7. ASSUME NEW r \in Run, NEW i \in Item, Store(r, i) PROVE TypeOK'
  <2>1. [run[r] EXCEPT !.stage = "resolving", !.cur = i, !.owed = @ \cup ({i} \ rows)] \in RunState
    BY <1>t, ChangesAreTyped
  <2>2. run' \in [Run -> RunState]
    BY <1>0, <1>7, <2>1 DEF Store
  <2> QED BY <1>7, <2>2 DEF Store, TypeOK, provider, removal, events
<1>8. ASSUME NEW r \in Run, Resolve(r) PROVE TypeOK'
  <2> DEFINE q == [run[r] EXCEPT !.batch = @ \ {run[r].cur}, !.seen = @ \cup {run[r].cur},
                          !.items = @ + 1,
                          !.news = IF run[r].kind = "refresh" /\ run[r].fresh
                                   THEN @ \cup {run[r].cur} ELSE @]
  <2>1. q \in RunState
    <3> DEFINE N == IF run[r].kind = "refresh" /\ run[r].fresh
                    THEN run[r].news \cup {run[r].cur} ELSE run[r].news
    <3>1. run[r] \in RunState /\ run[r].cur \in Item /\ run[r].items + 1 \in Nat
      BY <1>t, FieldsAreTyped
    <3>2. N \subseteq Item
      BY <1>t, FieldsAreTyped
    <3> HIDE DEF N
    <3>3. [run[r] EXCEPT !.batch = @ \ {run[r].cur}, !.seen = @ \cup {run[r].cur},
                         !.items = run[r].items + 1, !.news = N] \in RunState
      BY <3>1, <3>2, ChangesAreTyped
    <3> QED BY <3>3 DEF N
  <2>2. q.cur \in Item /\ [q EXCEPT !.stage = "telling"] \in RunState
    <3> HIDE DEF q
    <3>1. q.cur \in Item
      BY <2>1, FieldsAreTyped
    <3>2. [q EXCEPT !.stage = "telling"] \in RunState
      BY <2>1 DEF RunState
    <3> QED BY <3>1, <3>2
  <2>3. Proceed(q) \in RunState
    BY <2>1, ProceedIsTyped
  <2>4. run' = [run EXCEPT ![r] = IF q.kind = "search" /\ q.fresh
                                  THEN [q EXCEPT !.stage = "telling"] ELSE Proceed(q)]
    BY <1>8 DEF Resolve
  <2> HIDE DEF q
  <2>5. run' \in [Run -> RunState]
    BY <1>0, <2>2, <2>3, <2>4
  <2>6. mapped' \subseteq Item
    BY <1>8, <2>2 DEF Resolve, TypeOK, q
  <2> QED BY <1>8, <2>5, <2>6 DEF Resolve, TypeOK, provider, removal, events
<1>9. ASSUME NEW r \in Run, NEW i \in Item, DeleteDeparted(r, i) PROVE TypeOK'
  <2>1. [run[r] EXCEPT !.stage = "telling", !.cur = i, !.gone = @ \ {i},
                       !.owed = @ \cup ({i} \cap rows)] \in RunState
    BY <1>t, ChangesAreTyped
  <2>2. run' \in [Run -> RunState]
    BY <1>0, <1>9, <2>1 DEF DeleteDeparted
  <2> QED BY <1>9, <2>2 DEF DeleteDeparted, TypeOK, provider, removal, events
<1>10. ASSUME NEW r \in Run, Tell(r) PROVE TypeOK'
  <2> DEFINE q == [run[r] EXCEPT !.owed = @ \ {run[r].cur}]
  <2>1. q \in RunState /\ q.cur \in Item
    BY <1>t DEF RunState
  <2>2. Proceed(q) \in RunState /\ [q EXCEPT !.stage = "reconciling"] \in RunState
    BY <2>1, ProceedIsTyped DEF RunState
  <2>3. /\ Emit(q.cur, q.cur \in q.seen)
        /\ run' = [run EXCEPT ![r] = IF q.kind = "search" THEN Proceed(q)
                                     ELSE [q EXCEPT !.stage = "reconciling"]]
    BY <1>10 DEF Tell
  <2> HIDE DEF q
  <2>4. run' \in [Run -> RunState]
    BY <1>0, <2>2, <2>3
  <2>5. told' \subseteq Item /\ stranded' \subseteq Item /\ faults' \in 0..MaxFaults
    <3> DEFINE p == q.cur \in q.seen
    <3>1. p \in BOOLEAN /\ Emit(q.cur, p)
      BY <2>3
    <3> HIDE DEF p
    <3> QED BY <2>1, <3>1, EmitIsTyped
  <2> QED BY <1>10, <2>4, <2>5 DEF Tell, TypeOK, provider, cache, removal
<1>11. ASSUME NEW r \in Run, NEW i \in Item, TellArrival(r, i) PROVE TypeOK'
  <2>1. [run[r] EXCEPT !.news = @ \ {i}, !.owed = @ \ {i}] \in RunState
    BY <1>t, ChangesAreTyped
  <2>2. run' \in [Run -> RunState]
    BY <1>0, <1>11, <2>1 DEF TellArrival
  <2>3. told' \subseteq Item /\ stranded' \subseteq Item /\ faults' \in 0..MaxFaults
    BY <1>11, EmitIsTyped DEF TellArrival
  <2> QED BY <1>11, <2>2, <2>3 DEF TellArrival, TypeOK, provider, cache, removal
<1>12. ASSUME NEW r \in Run, Finish(r) PROVE TypeOK'
  <2>1. run' \in [Run -> RunState]
    BY <1>0, <1>12, IdleIsTyped DEF Finish
  <2>2. manifest' \in Nat \cup {Marker}
    BY <1>12 DEF Finish, TypeOK, RunState
  <2> QED BY <1>12, <2>1, <2>2 DEF Finish, TypeOK, provider, removal, events
<1>13. ASSUME NEW r \in Run, Abort(r) PROVE TypeOK'
  <2>1. run' \in [Run -> RunState]
    BY <1>0, <1>13, IdleIsTyped DEF Abort
  <2>2. run[r].cur \in Item /\ run[r].owed \subseteq Item
    BY <1>t, FieldsAreTyped
  <2>3. mapped' \subseteq Item /\ stranded' \subseteq Item
    BY <1>13, <2>2 DEF Abort, TypeOK
  <2>4. faults' \in 0..MaxFaults
    BY <1>13, Bounds DEF Abort, TypeOK
  <2> QED BY <1>13, <2>1, <2>3, <2>4 DEF Abort, TypeOK, provider, removal
<1>14. ASSUME NEW r \in Run, NEW S \in SUBSET Item, AnswerRefresh(r, S) PROVE TypeOK'
  <2> DEFINE f == [run[r] EXCEPT !.batch = (run[r].prev \cap catalog) \ S, !.missed = S]
  <2>1. f \in RunState
    <3> DEFINE B == (run[r].prev \cap catalog) \ S
    <3>1. run[r] \in RunState /\ B \subseteq Item
      BY <1>t, FieldsAreTyped
    <3> HIDE DEF B
    <3>2. [run[r] EXCEPT !.batch = B, !.missed = S] \in RunState
      BY <3>1 DEF RunState
    <3> QED BY <3>2 DEF B
  <2>2. Proceed(f) \in RunState
    BY <2>1, ProceedIsTyped
  <2>3. run' \in [Run -> RunState]
    BY <1>0, <1>14, <2>2 DEF AnswerRefresh
  <2>4. faults' \in 0..MaxFaults
    BY <1>14, Bounds DEF AnswerRefresh, TypeOK
  <2> QED BY <1>14, <2>3, <2>4 DEF AnswerRefresh, TypeOK, provider, cache, removal, events
<1>15. ASSUME NEW r \in Run, NEW S \in SUBSET Item, AnswerSearch(r, S) PROVE TypeOK'
  <2> DEFINE f == [run[r] EXCEPT !.batch = S, !.seen = {}, !.items = 0]
  <2>1. f \in RunState
    BY <1>t DEF RunState
  <2>2. Proceed(f) \in RunState
    BY <2>1, ProceedIsTyped
  <2>3. run' \in [Run -> RunState]
    BY <1>0, <1>15, <2>2 DEF AnswerSearch
  <2> QED BY <1>15, <2>3 DEF AnswerSearch, TypeOK, provider, cache, removal, events
<1>16. ASSUME NEW r \in Run, EndSearch(r) PROVE TypeOK'
  <2>1. run' \in [Run -> RunState]
    BY <1>0, <1>16, IdleIsTyped DEF EndSearch
  <2> QED BY <1>16, <2>1 DEF EndSearch, TypeOK, provider, cache, removal, events
<1>17. CASE RemoveReach \/ Unserve \/ Dropped
  BY <1>17 DEF RemoveReach, Unserve, Dropped, TypeOK, provider, cache, events
<1>21. CASE ListRows
  <2>1. keys' \subseteq Item \cup {Marker} /\ overrun' \in BOOLEAN
    BY <1>21 DEF ListRows, TypeOK
  <2> QED BY <1>21, <2>1 DEF ListRows, TypeOK, provider, cache, events
<1>22. CASE DropFails
  <2>1. faults' \in 0..MaxFaults
    BY <1>22, Bounds DEF DropFails, TypeOK
  <2> QED BY <1>22, <2>1 DEF DropFails, TypeOK, provider, cache, events
<1>18. ASSUME Restart PROVE TypeOK'
  <2>1. run' \in [Run -> RunState]
    BY <1>18, IdleIsTyped DEF Restart
  <2>2. UNION {run[r].owed : r \in Run} \subseteq Item
    <3>1. \A r \in Run : run[r].owed \subseteq Item
      BY <1>t, FieldsAreTyped
    <3> QED BY <3>1
  <2>3. faults' \in 0..MaxFaults
    BY <1>18, Bounds DEF Restart, TypeOK
  <2>4. overrun' \in BOOLEAN
    BY <1>18 DEF Restart, TypeOK
  <2> QED BY <1>18, <2>1, <2>2, <2>3, <2>4 DEF Restart, TypeOK, provider, cache
<1>19. ASSUME NEW k \in Item \cup {Marker}, DropRow(k) PROVE TypeOK'
  BY <1>19 DEF DropRow, TypeOK, provider, events
<1>20. CASE UNCHANGED vars
  BY <1>20 DEF vars, TypeOK
<1> QED BY <1>1, <1>2, <1>3, <1>4, <1>5, <1>6, <1>7, <1>8, <1>9, <1>10, <1>11, <1>12, <1>13,
           <1>14, <1>15, <1>16, <1>17, <1>18, <1>19, <1>20, <1>21, <1>22 DEF Next, RunStep

(* The source cache keeps its types: the runs of an account, aborted or      *)
(* overlapping, leave rows, mappings and the marker well-formed              *)
(* (sourcecache.go SyncAccount, RefreshItems, IngestItems).                  *)
THEOREM TypeCorrect == Spec => []TypeOK
BY TypeInit, TypeStep, PTL DEF Spec

-----------------------------------------------------------------------------
(* What makes a removal complete: when it lists the keys with no run in      *)
(* progress, none can begin any more, so that nothing is stored after.       *)
Listed ==
  /\ account = "dropping" /\ ~overrun =>
       Active = {} /\ rows \subseteq keys /\ (manifest # Marker => Marker \in keys)
  /\ account = "gone" /\ ~overrun => Active = {} /\ rows = {} /\ manifest = Marker

LEMMA ListedStep == TypeOK /\ Listed /\ [Next]_vars => Listed'
<1> SUFFICES ASSUME TypeOK, Listed, [Next]_vars PROVE Listed'
  OBVIOUS
<1>1. ASSUME NEW i \in Item, CatalogChanges(i) PROVE Listed'
  <2>1. Active = {} => Active' = {}
    BY <1>1 DEF CatalogChanges, Active, TypeOK
  <2> QED BY <1>1, <2>1 DEF CatalogChanges, Listed, cache, removal
\* a run begins only before the account is dropped
<1>2. ASSUME NEW r \in Run, BeginSync(r) \/ BeginSearch(r) PROVE Listed'
  BY <1>2 DEF BeginSync, BeginSearch, Begin, Listed, removal
<1>3. ASSUME NEW r \in Run, NEW S \in SUBSET Item, BeginRefresh(r, S) PROVE Listed'
  BY <1>3 DEF BeginRefresh, Begin, Listed, removal
\* any other step of a run is one of a run in progress
<1>4. ASSUME NEW r \in Run, run[r].stage # "idle", UNCHANGED removal PROVE Listed'
  BY <1>4 DEF Listed, Active, removal
<1>5. ASSUME NEW r \in Run, RunStep(r) \/ Abort(r) \/ EndSearch(r) PROVE Listed'
  <2>1. CASE Abort(r) \/ EndSearch(r)
    BY <1>4, <2>1 DEF Abort, EndSearch
  <2>2. CASE FetchPage(r) \/ Resolve(r) \/ Finish(r)
    BY <1>4, <2>2 DEF FetchPage, Resolve, Finish
  <2>3. CASE Tell(r)
    <3>1. run[r].stage = "telling"
      BY <2>3 DEF Tell
    <3> QED BY <1>4, <2>3, <3>1 DEF Tell
  <2>4. ASSUME NEW i \in Item, Look(r, i) \/ Store(r, i) PROVE Listed'
    BY <1>4, <2>4 DEF Look, Store
  <2>5. ASSUME NEW i \in Item, DeleteDeparted(r, i) \/ TellArrival(r, i) PROVE Listed'
    BY <1>4, <2>5 DEF DeleteDeparted, TellArrival
  <2> QED BY <1>5, <2>1, <2>2, <2>3, <2>4, <2>5 DEF RunStep
<1>6. ASSUME NEW r \in Run, NEW S \in SUBSET Item, AnswerRefresh(r, S) \/ AnswerSearch(r, S)
      PROVE  Listed'
  <2>1. run[r].stage # "idle" /\ UNCHANGED removal
    BY <1>6 DEF AnswerRefresh, AnswerSearch
  <2> QED BY <1>4, <2>1
<1>7. CASE RemoveReach \/ Unserve
  BY <1>7 DEF RemoveReach, Unserve, Listed
<1>8. CASE ListRows
  BY <1>8 DEF ListRows, Listed, Active, cache
<1>9. ASSUME NEW k \in Item \cup {Marker}, DropRow(k) PROVE Listed'
  BY <1>9 DEF DropRow, Listed, Active
<1>10. CASE Dropped
  BY <1>10 DEF Dropped, Listed, Active, cache
<1>11. CASE DropFails
  BY <1>11 DEF DropFails, Listed
<1>12. CASE Restart
  <2>1. Active' = {}
    BY <1>12 DEF Restart, Active, Idle
  <2> QED BY <1>12, <2>1 DEF Restart, Listed, TypeOK, cache
<1>13. CASE UNCHANGED vars
  BY <1>13 DEF vars, Listed, Active
<1> QED BY <1>1, <1>2, <1>3, <1>5, <1>6, <1>7, <1>8, <1>9, <1>10, <1>11, <1>12, <1>13 DEF Next

(* Nothing of a removed account stays: when DropAccount is over, no row and  *)
(* no completion marker are left, unless a run was in progress when the rows *)
(* were listed or the removal failed (slots.go DropAccount).                 *)
THEOREM DropLeavesNothingHolds == Spec => []DropLeavesNothing
<1>1. Init => Listed
  BY DEF Init, Listed
<1>2. Listed => DropLeavesNothing
  BY DEF Listed, DropLeavesNothing
<1> QED BY <1>1, <1>2, TypeInit, TypeStep, ListedStep, PTL DEF Spec

-----------------------------------------------------------------------------
(* A finite set of numbers has a least and a greatest element: the elements  *)
(* below one tell it apart from the others, by how many they are.            *)
LEMMA Ranked ==
  ASSUME NEW S \in SUBSET Nat, IsFiniteSet(S), S # {},
         NEW f \in [S -> Nat], \A x \in S : 1 <= f[x] /\ f[x] < Cardinality(S)
  PROVE  \E x, y \in S : x < y /\ f[x] = f[y]
<1>1. Cardinality(S) \in Nat
  BY FS_CardinalityType
<1> DEFINE n == Cardinality(S)
<1>2. f \in [S -> 1 .. n - 1]
  <2>1. \A x \in S : f[x] \in 1 .. n - 1
    <3> SUFFICES ASSUME NEW x \in S PROVE f[x] \in 1 .. n - 1
      OBVIOUS
    <3>1. f[x] \in Nat /\ n \in Nat /\ 1 <= f[x] /\ f[x] < n
      BY <1>1
    <3> HIDE DEF n
    <3> QED BY <3>1
  <2> QED BY <2>1
<1>3. IsFiniteSet(1 .. n - 1) /\ Cardinality(1 .. n - 1) < n
  <2>1. n # 0
    BY FS_EmptySet
  <2>2. n - 1 \in Nat /\ n \in Nat
    BY <1>1, <2>1
  <2> HIDE DEF n
  <2>3. IsFiniteSet(1 .. n - 1) /\ Cardinality(1 .. n - 1) = IF 1 > n - 1 THEN 0 ELSE (n - 1) - 1 + 1
    BY <2>2, FS_Interval
  <2> QED BY <2>1, <2>2, <2>3
<1>4. PICK x, y \in S : x # y /\ f[x] = f[y]
  <2> HIDE DEF n
  <2>1. Cardinality(1 .. n - 1) < Cardinality(S)
    BY <1>3 DEF n
  <2> QED BY <1>2, <1>3, <2>1, FS_PigeonHole
<1> QED BY <1>4

LEMMA Least ==
  ASSUME NEW S \in SUBSET Nat, IsFiniteSet(S), S # {}
  PROVE  \E m \in S : \A j \in S : m <= j
<1> SUFFICES ASSUME \A m \in S : \E j \in S : j < m PROVE FALSE
  OBVIOUS
<1> DEFINE Before(x) == {j \in S : j < x}
           f == [x \in S |-> Cardinality(Before(x))]
<1>1. ASSUME NEW x \in S
      PROVE  IsFiniteSet(Before(x)) /\ Cardinality(Before(x)) \in Nat
             /\ Cardinality(Before(x)) # 0 /\ Cardinality(Before(x)) < Cardinality(S)
  <2>1. Before(x) \in SUBSET S /\ Before(x) # {} /\ x \notin Before(x)
    OBVIOUS
  <2>2. IsFiniteSet(Before(x)) /\ Cardinality(Before(x)) <= Cardinality(S) /\ Cardinality(Before(x)) # Cardinality(S)
    BY <2>1, FS_Subset
  <2> HIDE DEF Before
  <2>3. Cardinality(Before(x)) \in Nat /\ Cardinality(S) \in Nat
    BY <2>2, FS_CardinalityType
  <2>4. Cardinality(Before(x)) # 0
    BY <2>1, <2>2, FS_EmptySet
  <2> QED BY <2>2, <2>3, <2>4
<1>2. f \in [S -> Nat] /\ \A x \in S : 1 <= f[x] /\ f[x] < Cardinality(S)
  <2>1. \A x \in S : f[x] \in Nat /\ f[x] # 0 /\ f[x] < Cardinality(S)
    BY <1>1
  <2>2. f \in [S -> Nat]
    BY <1>1
  <2> HIDE DEF f
  <2> QED BY <2>1, <2>2
<1>3. PICK x, y \in S : x < y /\ f[x] = f[y]
  <2> HIDE DEF f
  <2> QED BY <1>2, Ranked
<1>4. Before(x) \in SUBSET Before(y) /\ x \in Before(y) \ Before(x)
  <2>1. x \in Nat /\ y \in Nat /\ x < y
    BY <1>3
  <2> HIDE DEF f
  <2>2. \A j \in S : j < x => j < y
    <3> SUFFICES ASSUME NEW j \in S PROVE j < x => j < y
      OBVIOUS
    <3>1. j \in Nat
      OBVIOUS
    <3> QED BY <2>1, <3>1
  <2>3. x \in S /\ ~(x < x)
    BY <2>1
  <2> QED BY <2>1, <2>2, <2>3
<1>5. Cardinality(Before(x)) = Cardinality(Before(y)) /\ IsFiniteSet(Before(y))
  BY <1>1, <1>3
<1> HIDE DEF Before, f
<1>6. Before(x) = Before(y)
  BY <1>4, <1>5, FS_Subset
<1> QED BY <1>4, <1>6

LEMMA Greatest ==
  ASSUME NEW S \in SUBSET Nat, IsFiniteSet(S), S # {}
  PROVE  \E m \in S : \A j \in S : j <= m
<1> SUFFICES ASSUME \A m \in S : \E j \in S : m < j PROVE FALSE
  OBVIOUS
<1> DEFINE After(x) == {j \in S : x < j}
           f == [x \in S |-> Cardinality(After(x))]
<1>1. ASSUME NEW x \in S
      PROVE  IsFiniteSet(After(x)) /\ Cardinality(After(x)) \in Nat
             /\ Cardinality(After(x)) # 0 /\ Cardinality(After(x)) < Cardinality(S)
  <2>1. After(x) \in SUBSET S /\ After(x) # {} /\ x \notin After(x)
    OBVIOUS
  <2>2. IsFiniteSet(After(x)) /\ Cardinality(After(x)) <= Cardinality(S) /\ Cardinality(After(x)) # Cardinality(S)
    BY <2>1, FS_Subset
  <2> HIDE DEF After
  <2>3. Cardinality(After(x)) \in Nat /\ Cardinality(S) \in Nat
    BY <2>2, FS_CardinalityType
  <2>4. Cardinality(After(x)) # 0
    BY <2>1, <2>2, FS_EmptySet
  <2> QED BY <2>2, <2>3, <2>4
<1>2. f \in [S -> Nat] /\ \A x \in S : 1 <= f[x] /\ f[x] < Cardinality(S)
  <2>1. \A x \in S : f[x] \in Nat /\ f[x] # 0 /\ f[x] < Cardinality(S)
    BY <1>1
  <2>2. f \in [S -> Nat]
    BY <1>1
  <2> HIDE DEF f
  <2> QED BY <2>1, <2>2
<1>3. PICK x, y \in S : x < y /\ f[x] = f[y]
  <2> HIDE DEF f
  <2> QED BY <1>2, Ranked
<1>4. After(y) \in SUBSET After(x) /\ y \in After(x) \ After(y)
  <2>1. x \in Nat /\ y \in Nat /\ x < y
    BY <1>3
  <2> HIDE DEF f
  <2>2. \A j \in S : y < j => x < j
    <3> SUFFICES ASSUME NEW j \in S PROVE y < j => x < j
      OBVIOUS
    <3>1. j \in Nat
      OBVIOUS
    <3> QED BY <2>1, <3>1
  <2>3. y \in S /\ ~(y < y)
    BY <2>1
  <2> QED BY <2>1, <2>2, <2>3
<1>5. Cardinality(After(x)) = Cardinality(After(y)) /\ IsFiniteSet(After(x))
  BY <1>1, <1>3
<1> HIDE DEF After, f
<1>6. After(x) = After(y)
  BY <1>4, <1>5, FS_Subset
<1> QED BY <1>4, <1>6

-----------------------------------------------------------------------------
(* Paging. An item's place in a catalogue, the items up to a place, and the  *)
(* page that follows them.                                                   *)
Place(C, i) == Cardinality({j \in C : j <= i})
UpTo(C, n) == {i \in C : Place(C, i) <= n}
PageAfter(C, n) == {i \in C : Place(C, i) \in n + 1 .. n + PageSize}

LEMMA ItemsAreNumbers == \A i \in Item : i \in Nat
BY ConstantsAssumption

LEMMA FiniteItems ==
  ASSUME NEW C \in SUBSET Item
  PROVE  IsFiniteSet(C) /\ Cardinality(C) \in Nat
BY ConstantsAssumption, FS_Subset, FS_CardinalityType

LEMMA MoreItems ==
  ASSUME NEW C \in SUBSET Item, NEW D \in SUBSET C
  PROVE  Cardinality(D) <= Cardinality(C)
BY FiniteItems, FS_Subset

LEMMA PlaceIsNat ==
  ASSUME NEW C \in SUBSET Item, NEW i
  PROVE  Place(C, i) \in Nat /\ Place(C, i) <= Cardinality(C)
<1>1. {j \in C : j <= i} \in SUBSET C /\ {j \in C : j <= i} \in SUBSET Item
  OBVIOUS
<1> QED BY <1>1, FiniteItems, MoreItems DEF Place

\* an item that joins moves the others up, never down
LEMMA PlacesGrow ==
  ASSUME NEW C \in SUBSET Item, NEW D \in SUBSET C, NEW i \in Item
  PROVE  Place(D, i) <= Place(C, i)
<1>1. {j \in C : j <= i} \in SUBSET Item /\ {j \in D : j <= i} \in SUBSET {j \in C : j <= i}
  OBVIOUS
<1> QED BY <1>1, MoreItems DEF Place

LEMMA PlacesInOrder ==
  ASSUME NEW C \in SUBSET Item, NEW i \in Item, NEW k \in Item, i <= k
  PROVE  Place(C, i) <= Place(C, k)
<1>1. \A j \in C : j <= i => j <= k
  <2> SUFFICES ASSUME NEW j \in C, j <= i PROVE j <= k
    OBVIOUS
  <2>1. j \in Nat /\ i \in Nat /\ k \in Nat
    BY ItemsAreNumbers
  <2> QED BY <2>1
<1>2. {j \in C : j <= k} \in SUBSET Item /\ {j \in C : j <= i} \in SUBSET {j \in C : j <= k}
  BY <1>1
<1> QED BY <1>2, MoreItems DEF Place

\* no more than n items are up to place n
LEMMA FewUpTo ==
  ASSUME NEW C \in SUBSET Item, NEW n \in Nat
  PROVE  Cardinality(UpTo(C, n)) <= n
<1> DEFINE U == UpTo(C, n)
<1>1. U \in SUBSET Item /\ U \in SUBSET C
  BY DEF UpTo
<1>2. CASE U = {}
  BY <1>2, FS_EmptySet
<1>3. CASE U # {}
  <2>1. IsFiniteSet(U) /\ U \in SUBSET Nat
    BY <1>1, FiniteItems, ItemsAreNumbers
  <2>2. PICK m \in U : \A j \in U : j <= m
    BY <1>3, <2>1, Greatest
  <2>3. U \in SUBSET {j \in C : j <= m} /\ {j \in C : j <= m} \in SUBSET Item
    BY <1>1, <2>2
  <2>4. Cardinality(U) <= Place(C, m)
    BY <2>3, MoreItems DEF Place
  <2>5. Place(C, m) <= n /\ Place(C, m) \in Nat /\ Cardinality(U) \in Nat
    BY <1>1, PlaceIsNat, FiniteItems DEF UpTo
  <2> QED BY <2>4, <2>5
<1> QED BY <1>2, <1>3

\* the first item past place n is at place n + 1 at most
LEMMA FirstPast ==
  ASSUME NEW C \in SUBSET Item, NEW n \in Nat, UpTo(C, n) # C
  PROVE  \E i \in C \ UpTo(C, n) : Place(C, i) = n + 1 /\ n <= Cardinality(UpTo(C, n))
<1> DEFINE U == UpTo(C, n)
<1>1. U \in SUBSET C /\ C \ U # {} /\ (C \ U) \in SUBSET Nat /\ IsFiniteSet(C \ U)
  <2>1. U \in SUBSET C /\ (C \ U) \in SUBSET Item
    BY DEF UpTo
  <2> QED BY <2>1, FiniteItems, ItemsAreNumbers
<1>2. PICK i \in C \ U : \A j \in C \ U : i <= j
  BY <1>1, Least
<1>3. {j \in C : j <= i} \in SUBSET (U \cup {i})
  <2>1. \A j \in C \ U : j <= i => j = i
    <3> SUFFICES ASSUME NEW j \in C \ U, j <= i PROVE j = i
      OBVIOUS
    <3>1. i <= j /\ i \in Nat /\ j \in Nat
      BY <1>2, ItemsAreNumbers
    <3> QED BY <3>1
  <2> QED BY <2>1
<1>4. (U \cup {i}) \in SUBSET Item /\ IsFiniteSet(U) /\ Cardinality(U) \in Nat
  BY <1>1, FiniteItems
<1>5. Place(C, i) <= Cardinality(U \cup {i})
  BY <1>3, <1>4, MoreItems DEF Place
<1>6. Cardinality(U \cup {i}) = Cardinality(U) + 1
  BY <1>2, <1>4, FS_AddElement
<1>7. Place(C, i) \in Nat /\ Place(C, i) > n /\ Cardinality(U) <= n
  <2>1. Place(C, i) \in Nat /\ ~(Place(C, i) <= n)
    BY <1>2, PlaceIsNat DEF UpTo
  <2> QED BY <2>1, FewUpTo
<1> HIDE DEF U
<1>8. Place(C, i) = n + 1 /\ n <= Cardinality(U)
  BY <1>4, <1>5, <1>6, <1>7
<1> QED BY <1>2, <1>8 DEF U

\* a page adds to the items up to a place those up to the place it ends at, and leaves none out
LEMMA PageExtends ==
  ASSUME NEW C \in SUBSET Item, NEW n \in Nat
  PROVE  /\ PageAfter(C, n) \in SUBSET C /\ UpTo(C, n) \cap PageAfter(C, n) = {}
         /\ PageAfter(C, n) = {} => UpTo(C, n) = C
         /\ UpTo(C, n + Cardinality(PageAfter(C, n))) = UpTo(C, n) \cup PageAfter(C, n)
<1> DEFINE U == UpTo(C, n)
           P == PageAfter(C, n)
           p == Cardinality(P)
<1>0. PageSize \in Nat /\ PageSize >= 1
  BY ConstantsAssumption
<1>1. P \in SUBSET C /\ P \in SUBSET Item /\ U \in SUBSET Item /\ p \in Nat
  <2>1. P \in SUBSET C /\ U \in SUBSET C
    BY DEF PageAfter, UpTo
  <2> QED BY <2>1, FiniteItems
<1>2. U \cap P = {}
  <2> SUFFICES ASSUME NEW i \in U, i \in P PROVE FALSE
    OBVIOUS
  <2>1. Place(C, i) <= n /\ Place(C, i) \in n + 1 .. n + PageSize
    BY DEF UpTo, PageAfter
  <2> QED BY <1>0, <2>1
<1>3. P = {} => U = C
  <2> SUFFICES ASSUME U # C PROVE P # {}
    OBVIOUS
  <2>1. PICK i \in C \ U : Place(C, i) = n + 1
    BY FirstPast
  <2>2. i \in P
    BY <1>0, <2>1 DEF PageAfter
  <2> QED BY <2>2
<1>4. IsFiniteSet(U) /\ IsFiniteSet(P) /\ Cardinality(U) \in Nat
      /\ Cardinality(U \cup P) = Cardinality(U) + p
  <2>1. IsFiniteSet(U) /\ IsFiniteSet(P) /\ Cardinality(U) \in Nat
    BY <1>1, FiniteItems
  <2> HIDE DEF U, P
  <2>2. Cardinality(U \cup P) = Cardinality(U) + Cardinality(P) - Cardinality(U \cap P)
    BY <2>1, FS_Union
  <2>3. Cardinality(U \cap P) = 0
    BY <1>2, FS_EmptySet
  <2> QED BY <1>1, <2>1, <2>2, <2>3
<1>5. ASSUME NEW i \in P PROVE Place(C, i) <= n + p
  <2>1. i \in C /\ i \in Item /\ Place(C, i) <= n + PageSize
    BY <1>0, <1>1 DEF PageAfter
  <2>2. \A j \in C : j <= i => j \in U \cup P
    <3> SUFFICES ASSUME NEW j \in C, j <= i PROVE j \in U \cup P
      OBVIOUS
    <3>1. Place(C, j) <= Place(C, i) /\ Place(C, j) \in Nat /\ Place(C, i) \in Nat
      BY <2>1, PlacesInOrder, PlaceIsNat
    <3>2. Place(C, j) <= n \/ Place(C, j) \in n + 1 .. n + PageSize
      BY <1>0, <2>1, <3>1
    <3> QED BY <3>2 DEF UpTo, PageAfter
  <2>3. {j \in C : j <= i} \in SUBSET (U \cup P) /\ (U \cup P) \in SUBSET Item
    BY <1>1, <2>2
  <2>4. Place(C, i) <= Cardinality(U \cup P) /\ Place(C, i) \in Nat
    BY <2>3, MoreItems, PlaceIsNat DEF Place
  <2>5. Cardinality(U) <= n
    BY FewUpTo
  <2> HIDE DEF U, P, p
  <2> QED BY <1>1, <1>4, <2>4, <2>5
<1>6. ASSUME NEW i \in C, Place(C, i) <= n + p PROVE i \in U \cup P
  <2>1. Place(C, i) \in Nat
    BY PlaceIsNat
  <2>2. CASE P = {}
    BY <1>3, <2>2
  <2>3. CASE P # {}
    <3>1. U # C
      BY <1>1, <1>2, <2>3
    <3>2. n <= Cardinality(U)
      BY <3>1, FirstPast
    <3>3. U \cup P \in SUBSET UpTo(C, n + PageSize)
      <4>1. \A j \in U \cup P : j \in C /\ Place(C, j) <= n + PageSize
        <5> SUFFICES ASSUME NEW j \in U \cup P PROVE j \in C /\ Place(C, j) <= n + PageSize
          OBVIOUS
        <5>1. CASE j \in U
          <6>1. j \in C /\ Place(C, j) <= n /\ Place(C, j) \in Nat
            BY <5>1, PlaceIsNat DEF UpTo
          <6> QED BY <1>0, <6>1
        <5>2. CASE j \in P
          BY <1>0, <5>2 DEF PageAfter
        <5> QED BY <5>1, <5>2
      <4> QED BY <4>1 DEF UpTo
    <3>4. UpTo(C, n + PageSize) \in SUBSET Item /\ n + PageSize \in Nat
      BY <1>0 DEF UpTo
    <3>5. Cardinality(U \cup P) <= n + PageSize
      <4>1. Cardinality(U \cup P) <= Cardinality(UpTo(C, n + PageSize))
        BY <3>3, <3>4, MoreItems
      <4>2. Cardinality(UpTo(C, n + PageSize)) <= n + PageSize
        BY <3>4, FewUpTo
      <4>3. Cardinality(U \cup P) \in Nat /\ Cardinality(UpTo(C, n + PageSize)) \in Nat
        BY <1>1, <3>4, FiniteItems
      <4> QED BY <3>4, <4>1, <4>2, <4>3
    <3>6. p <= PageSize
      <4> HIDE DEF U, P, p
      <4> QED BY <1>0, <1>1, <1>4, <3>2, <3>5
    <3>7. Place(C, i) <= n + PageSize
      <4> HIDE DEF p
      <4> QED BY <1>0, <1>1, <1>6, <2>1, <3>6
    <3>8. Place(C, i) <= n \/ Place(C, i) \in n + 1 .. n + PageSize
      BY <1>0, <2>1, <3>7
    <3> QED BY <3>8 DEF UpTo, PageAfter
  <2> QED BY <2>2, <2>3
<1>7. UpTo(C, n + p) = U \cup P
  <2>1. \A i \in U : Place(C, i) <= n + p
    <3> SUFFICES ASSUME NEW i \in U PROVE Place(C, i) <= n + p
      OBVIOUS
    <3>1. Place(C, i) <= n /\ Place(C, i) \in Nat
      BY PlaceIsNat DEF UpTo
    <3> HIDE DEF p
    <3> QED BY <1>1, <3>1
  <2>2. U \subseteq C /\ P \subseteq C
    BY <1>1 DEF UpTo
  <2>3. UpTo(C, n + p) = {i \in C : Place(C, i) <= n + p}
    BY DEF UpTo
  <2> HIDE DEF U, P, p
  <2> QED BY <1>5, <1>6, <2>1, <2>2, <2>3
<1> QED BY <1>1, <1>2, <1>3, <1>7

\* no next page, nothing left
LEMMA LastPage ==
  ASSUME NEW C \in SUBSET Item, NEW n \in Nat,
         ~(PageAfter(C, n) # {} /\ n + Cardinality(PageAfter(C, n)) < Cardinality(C))
  PROVE  UpTo(C, n + Cardinality(PageAfter(C, n))) = C
<1> DEFINE p == Cardinality(PageAfter(C, n))
<1> DEFINE P == PageAfter(C, n)
<1> SUFFICES UpTo(C, n + p) = C
  OBVIOUS
<1>0. /\ P = {} => UpTo(C, n) = C
      /\ UpTo(C, n + p) = UpTo(C, n) \cup P
  BY PageExtends
<1>1. CASE P = {}
  <2> HIDE DEF P, p
  <2> QED BY <1>0, <1>1
<1>2. CASE ~(n + p < Cardinality(C))
  <2>1. ASSUME NEW i \in C PROVE Place(C, i) <= n + p
    <3>1. Place(C, i) \in Nat /\ Place(C, i) <= Cardinality(C)
      BY PlaceIsNat
    <3>a. Cardinality(C) \in Nat
      BY FiniteItems
    <3>2. p \in Nat
      <4>1. PageAfter(C, n) \in SUBSET Item
        BY DEF PageAfter
      <4> QED BY <4>1, FiniteItems
    <3> HIDE DEF p
    <3> QED BY <1>2, <3>1, <3>a, <3>2
  <2> QED BY <2>1 DEF UpTo
<1> QED BY <1>1, <1>2

LEMMA FirstPlace ==
  ASSUME NEW C \in SUBSET Item, NEW i \in C
  PROVE  Place(C, i) > 0
<1> DEFINE D == {j \in C : j <= i}
<1>1. i <= i
  BY ItemsAreNumbers
<1>2. D \in SUBSET Item /\ D # {}
  BY <1>1
<1> HIDE DEF D
<1>3. Cardinality(D) \in Nat /\ Cardinality(D) # 0
  BY <1>2, FiniteItems, FS_EmptySet
<1>4. Place(C, i) = Cardinality(D)
  BY DEF Place, D
<1> QED BY <1>3, <1>4

-----------------------------------------------------------------------------
(* What is true of a run q in progress while the account carries C, the      *)
(* registry maps M and the cache holds R.                                    *)

\* a run at its reconciliation; a search never gets there
Closing(q) == q.kind # "search" /\ q.stage \in {"reconciling", "telling"}
\* the item a run has stored and not resolved
InHand(q) == {i \in {q.cur} : q.stage = "resolving"}
\* the one it deleted or stored and has not announced
Unsaid(q) == {i \in {q.cur} : q.stage = "telling"}

\* a run that nothing shrank under has seen, or holds, or is yet to ask for what the account
\* carried all along
Asked(q, C) ==
  /\ q.carried \subseteq C
  /\ q.kind = "sync" /\ ~q.shrunk =>
       \A i \in q.carried : i \in q.seen \/ i \in q.batch \/ (q.more /\ Place(C, i) > q.offset)
  /\ q.kind = "refresh" /\ q.stage # "fetching" =>
       q.carried \cap q.prev \subseteq q.seen \cup q.batch \cup q.missed

Shaped(q, M) ==
  /\ q.stage = "fetching" => q.batch = {} /\ (q.kind = "refresh" => q.seen = {})
  /\ q.stage = "resolving" => q.cur \in q.batch
  /\ q.stage = "reconciling" => q.kind # "search"
  /\ q.kind = "search" /\ q.stage = "telling" => q.cur \in q.seen
  /\ Closing(q) => /\ q.batch = {} /\ q.gone \cap q.seen = {} /\ q.gone \subseteq q.prev
                   /\ q.news \subseteq q.seen
                   /\ q.kind = "sync" => ~q.more
                   /\ q.stage = "telling" => q.cur \notin q.seen
  /\ q.kind = "refresh" => q.news \subseteq q.seen
  /\ q.seen \subseteq M

\* what a run got while the catalogue stood still
Exact(q, C) ==
  /\ q.kind = "sync" /\ q.steady =>
       /\ q.seen \cup q.batch = UpTo(C, q.offset) /\ q.seen \cap q.batch = {}
       /\ q.items = Cardinality(q.seen)
       /\ ~q.more => UpTo(C, q.offset) = C
  /\ q.kind = "refresh" /\ q.stage # "fetching" /\ q.steady /\ q.missed = {} =>
       q.seen \cup q.batch = q.prev \cap C

\* what a run that is alone has made of the rows
Written(q, R) ==
  /\ q.kind # "search" => q.seen \subseteq R
  /\ InHand(q) \subseteq R
  /\ q.kind = "search" => Unsaid(q) \subseteq R
  /\ q.kind = "sync" /\ ~Closing(q) => q.prev \subseteq R /\ R \subseteq q.prev \cup q.seen \cup InHand(q)
  /\ Closing(q) => /\ Unsaid(q) \cap R = {}
                   /\ q.kind = "sync" => R \subseteq q.seen \cup q.gone
                   /\ q.kind = "refresh" => R \cap q.prev \subseteq q.seen \cup q.gone
  /\ q.stage = "storing" /\ q.kind # "sync" /\ q.cur \notin R => q.fresh

\* what it owes is what it is going to announce
Owed(q) ==
  /\ Closing(q) => q.owed \subseteq q.news \cup Unsaid(q)
  /\ ~Closing(q) /\ q.kind = "sync" => q.owed \subseteq (q.seen \cup InHand(q)) \ q.prev
  /\ ~Closing(q) /\ q.kind = "refresh" => q.owed \subseteq q.news \cup {i \in InHand(q) : q.fresh}
  /\ q.kind = "search" => q.owed \subseteq {i \in InHand(q) : q.fresh} \cup Unsaid(q)

Sound(q, C, M, R, a) ==
  /\ Asked(q, C) /\ Shaped(q, M) /\ Exact(q, C)
  /\ a = "live" /\ q.alone => Written(q, R) /\ Owed(q)

(* The same, when a page, an answer or an item is taken in and the run looks *)
(* at what is next.                                                          *)
Taken(q, C, M, R, a) ==
  /\ q.carried \subseteq C
  /\ q.kind = "sync" /\ ~q.shrunk =>
       \A i \in q.carried : i \in q.seen \/ i \in q.batch \/ (q.more /\ Place(C, i) > q.offset)
  /\ q.kind = "refresh" => q.carried \cap q.prev \subseteq q.seen \cup q.batch \cup q.missed
  /\ q.kind = "refresh" => q.news \subseteq q.seen
  /\ q.seen \subseteq M
  /\ Exact(q, C)
  /\ q.kind = "refresh" /\ q.steady /\ q.missed = {} => q.seen \cup q.batch = q.prev \cap C
  /\ a = "live" /\ q.alone =>
       /\ q.kind # "search" => q.seen \subseteq R
       /\ q.kind = "sync" => /\ q.prev \subseteq R /\ R \subseteq q.prev \cup q.seen
                             /\ q.owed \subseteq q.seen \ q.prev
       /\ q.kind = "refresh" => q.owed \subseteq q.news
       /\ q.kind = "search" => q.owed = {}

\* q and p differ at most in their stage and in what they are to delete and to announce
Alike(q, p) ==
  /\ p.kind = q.kind /\ p.prev = q.prev /\ p.offset = q.offset /\ p.more = q.more
  /\ p.batch = q.batch /\ p.cur = q.cur /\ p.fresh = q.fresh /\ p.seen = q.seen
  /\ p.items = q.items /\ p.carried = q.carried /\ p.shrunk = q.shrunk /\ p.steady = q.steady
  /\ p.alone = q.alone /\ p.missed = q.missed /\ p.owed = q.owed

LEMMA ProceedMoves ==
  ASSUME NEW q \in RunState
  PROVE  /\ Alike(q, Proceed(q))
         /\ \/ /\ Proceed(q).stage \in {"storing", "looking", "fetching"}
               /\ Proceed(q).news = q.news /\ Proceed(q).gone = q.gone
               /\ Proceed(q).stage = "storing" => q.kind = "sync"
               /\ Proceed(q).stage = "fetching" => q.batch = {} /\ q.kind # "refresh"
            \/ /\ Proceed(q).stage = "reconciling" /\ q.batch = {} /\ q.kind # "search"
               /\ q.kind = "sync" => ~q.more
               /\ Proceed(q).gone = q.prev \ q.seen
               /\ Proceed(q).news = IF q.kind = "sync" THEN q.seen \ q.prev ELSE q.news
<1>1. CASE q.batch # {} /\ q.kind = "sync"
  BY <1>1 DEF Proceed, RunState, Alike
<1>2. CASE q.batch # {} /\ q.kind # "sync"
  BY <1>2 DEF Proceed, RunState, Alike
<1>3. CASE q.batch = {} /\ (q.kind = "search" \/ (q.kind = "sync" /\ q.more))
  BY <1>3 DEF Proceed, RunState, Alike
<1>4. CASE q.batch = {} /\ ~(q.kind = "search" \/ (q.kind = "sync" /\ q.more))
  <2>1. Proceed(q) = [q EXCEPT !.stage = "reconciling", !.gone = q.prev \ q.seen,
                                !.news = IF q.kind = "sync" THEN q.seen \ q.prev ELSE q.news]
    BY <1>4 DEF Proceed, RunState
  <2> QED BY <1>4, <2>1 DEF RunState, Alike
<1> QED BY <1>1, <1>2, <1>3, <1>4

LEMMA ProceedIsSound ==
  ASSUME NEW q \in RunState, NEW C, NEW M, NEW R, NEW a, Taken(q, C, M, R, a)
  PROVE  Sound(Proceed(q), C, M, R, a) /\ Proceed(q).stage # "idle" /\ Proceed(q).alone = q.alone
<1> DEFINE p == Proceed(q)
<1>1. /\ Alike(q, p)
      /\ \/ /\ p.stage \in {"storing", "looking", "fetching"}
            /\ p.news = q.news /\ p.gone = q.gone
            /\ p.stage = "storing" => q.kind = "sync"
            /\ p.stage = "fetching" => q.batch = {} /\ q.kind # "refresh"
         \/ /\ p.stage = "reconciling" /\ q.batch = {} /\ q.kind # "search"
            /\ q.kind = "sync" => ~q.more
            /\ p.gone = q.prev \ q.seen
            /\ p.news = IF q.kind = "sync" THEN q.seen \ q.prev ELSE q.news
  BY ProceedMoves
<1>2. q.kind \in {"sync", "refresh", "search"}
  BY DEF RunState
<1> HIDE DEF p
<1>3. p.stage # "idle" /\ p.alone = q.alone
  BY <1>1 DEF Alike
<1>4. Asked(p, C)
  BY <1>1 DEF Alike, Asked, Taken
<1>5. Shaped(p, M)
  BY <1>1, <1>2 DEF Alike, Shaped, Taken, Closing
<1>6. Exact(p, C)
  BY <1>1 DEF Alike, Exact, Taken
<1>7. ASSUME a = "live", p.alone PROVE Written(p, R) /\ Owed(p)
  <2>1. /\ q.kind # "search" => q.seen \subseteq R
        /\ q.kind = "sync" => /\ q.prev \subseteq R /\ R \subseteq q.prev \cup q.seen
                              /\ q.owed \subseteq q.seen \ q.prev
        /\ q.kind = "refresh" => q.owed \subseteq q.news
        /\ q.kind = "search" => q.owed = {}
    BY <1>3, <1>7 DEF Taken
  <2>2. InHand(p) = {} /\ Unsaid(p) = {} /\ (Closing(p) <=> p.stage = "reconciling")
    BY <1>1 DEF InHand, Unsaid, Closing, Alike
  <2>3. Written(p, R)
    BY <1>1, <1>2, <2>1, <2>2 DEF Alike, Written
  <2>4. Owed(p)
    BY <1>1, <1>2, <2>1, <2>2 DEF Alike, Owed
  <2> QED BY <2>3, <2>4
<1> QED BY <1>3, <1>4, <1>5, <1>6, <1>7 DEF p, Sound

-----------------------------------------------------------------------------
(* The inductive invariant: every run in progress is sound, and what the     *)
(* listeners do not know is owed by the run in progress or was lost.         *)
Runs ==
  /\ told \subseteq mapped
  /\ \A r \in Active :
       /\ Sound(run[r], catalog, mapped, rows, account)
       /\ run[r].alone => Active \subseteq {r}
       /\ ~overlap => run[r].alone

\* items the listeners are wrong about
Unknown == (told \ rows) \cup (rows \ told)
Balance ==
  account = "live" /\ ~overlap =>
    \A i \in Unknown : i \in stranded \/ \E r \in Active : i \in run[r].owed

(* A step of a run: it is all there is to look at, since no other run in     *)
(* progress is alone.                                                        *)
LEMMA OneRunMoves ==
  ASSUME TypeOK, Runs, NEW r \in Active, NEW q \in RunState,
         run' = [run EXCEPT ![r] = q],
         UNCHANGED <<catalog, account, overlap>>, mapped \subseteq mapped', told' \subseteq mapped',
         q.stage # "idle" =>
           q.alone = run[r].alone /\ Sound(q, catalog', mapped', rows', account'),
         account = "live" /\ ~overlap =>
           \A i \in Unknown' : i \in stranded' \/ (q.stage # "idle" /\ i \in q.owed)
  PROVE  Runs' /\ Balance'
<1>0. r \in Run /\ run[r].stage # "idle"
  BY DEF Active
<1>1. run'[r] = q /\ \A p \in Run \ {r} : run'[p] = run[p]
  BY <1>0 DEF TypeOK
<1>2. \A p \in Run \ {r} : p \in Active' <=> p \in Active
  BY <1>1 DEF Active
<1>3. r \in Active' <=> q.stage # "idle"
  BY <1>0, <1>1 DEF Active
<1>4. Active' \subseteq Active
  BY <1>0, <1>2 DEF Active
<1>5. ASSUME NEW p \in Active'
      PROVE  /\ Sound(run'[p], catalog', mapped', rows', account')
             /\ run'[p].alone => Active' \subseteq {p}
             /\ ~overlap' => run'[p].alone
  <2>1. CASE p = r
    <3>1. run[r].alone => Active \subseteq {r}
      BY DEF Runs
    <3>2. ~overlap => run[r].alone
      BY DEF Runs
    <3> QED BY <1>1, <1>3, <1>4, <1>5, <2>1, <3>1, <3>2
  <2>2. CASE p # r
    <3>1. p \in Active /\ run'[p] = run[p]
      BY <1>1, <1>4, <2>2 DEF Active
    <3>2. /\ Sound(run[p], catalog, mapped, rows, account)
          /\ run[p].alone => Active \subseteq {p}
          /\ ~overlap => run[p].alone
      BY <3>1 DEF Runs
    <3>3. ~run[p].alone
      BY <2>2, <3>2
    <3>4. Sound(run[p], catalog', mapped', rows', account')
      BY <3>2, <3>3 DEF Sound, Asked, Shaped, Exact
    <3> QED BY <1>4, <3>1, <3>2, <3>3, <3>4
  <2> QED BY <2>1, <2>2
<1>6. Runs'
  BY <1>5 DEF Runs
<1>7. ASSUME account' = "live", ~overlap', NEW i \in Unknown'
      PROVE  i \in stranded' \/ \E p \in Active' : i \in run'[p].owed
  BY <1>1, <1>3, <1>7
<1>8. Balance'
  BY <1>7 DEF Balance
<1> QED BY <1>6, <1>8

(* A run that ends leaves to the listeners what it owes to nobody.           *)
LEMMA RunEnds ==
  ASSUME TypeOK, Runs, Balance, NEW r \in Active, run' = [run EXCEPT ![r] = Idle],
         UNCHANGED <<catalog, account, overlap, rows, told>>, mapped \subseteq mapped',
         account = "live" /\ ~overlap => stranded \cup run[r].owed \subseteq stranded'
  PROVE  Runs' /\ Balance'
<1>1. Idle \in RunState /\ Idle.stage = "idle"
  BY IdleIsTyped DEF Idle
<1>2. told' \subseteq mapped'
  BY DEF Runs
<1>3. ASSUME account = "live", ~overlap, NEW i \in Unknown' PROVE i \in stranded'
  <2>1. i \in Unknown
    BY <1>3 DEF Unknown
  <2>2. Active \subseteq {r}
    BY <1>3 DEF Runs
  <2> QED BY <1>3, <2>1, <2>2 DEF Balance
<1> HIDE DEF Idle
<1> QED BY <1>1, <1>2, <1>3, OneRunMoves

(* What is known of the run that steps.                                      *)
LEMMA RunIsSound ==
  ASSUME TypeOK, Runs, NEW r \in Run, run[r].stage # "idle"
  PROVE  /\ r \in Active /\ run[r] \in RunState
         /\ Sound(run[r], catalog, mapped, rows, account)
         /\ ~overlap => run[r].alone
         /\ run[r].alone => Active \subseteq {r}
         /\ told \subseteq mapped
BY DEF Active, Runs, TypeOK

LEMMA OwedAlone ==
  ASSUME TypeOK, Runs, Balance, NEW r \in Run, run[r].stage # "idle",
         account = "live", ~overlap
  PROVE  /\ run[r].alone /\ Written(run[r], rows) /\ Owed(run[r])
         /\ \A i \in Unknown : i \in stranded \/ i \in run[r].owed
<1>1. run[r].alone /\ Active \subseteq {r} /\ Sound(run[r], catalog, mapped, rows, account)
  BY RunIsSound
<1> QED BY <1>1 DEF Sound, Balance

LEMMA FetchPageKeeps ==
  ASSUME TypeOK, Runs, Balance, NEW r \in Run, FetchPage(r)
  PROVE  Runs' /\ Balance'
<1> DEFINE q == run[r]
           n == q.offset
           P == Page(n)
           m == n + Cardinality(P)
           more == MoreAfter(n)
           f == [q EXCEPT !.batch = P, !.offset = m, !.more = more]
<1>1. q.stage = "fetching" /\ q.kind = "sync" /\ run' = [run EXCEPT ![r] = Proceed(f)]
  BY DEF FetchPage
<1>2. UNCHANGED <<catalog, rows, mapped, account, told, stranded, overlap>>
  BY DEF FetchPage, provider, cache, removal, events
<1>3. q \in RunState /\ r \in Active /\ Sound(q, catalog, mapped, rows, account) /\ told \subseteq mapped
  BY <1>1, RunIsSound
<1>4. catalog \in SUBSET Item /\ n \in Nat
  BY <1>3, FieldsAreTyped DEF TypeOK
<1>5. P = PageAfter(catalog, n)
  BY DEF Page, PageAfter, Place
<1>6. more <=> P # {} /\ m < Cardinality(catalog)
  BY DEF MoreAfter
<1>7. /\ P \in SUBSET catalog /\ UpTo(catalog, n) \cap P = {}
      /\ UpTo(catalog, m) = UpTo(catalog, n) \cup P
  <2>1. /\ PageAfter(catalog, n) \in SUBSET catalog /\ UpTo(catalog, n) \cap PageAfter(catalog, n) = {}
        /\ UpTo(catalog, n + Cardinality(PageAfter(catalog, n))) = UpTo(catalog, n) \cup PageAfter(catalog, n)
    BY <1>4, PageExtends
  <2> QED BY <1>5, <2>1
<1>8. ~more => UpTo(catalog, m) = catalog
  <2> SUFFICES ASSUME ~more PROVE UpTo(catalog, n + Cardinality(PageAfter(catalog, n))) = catalog
    BY <1>5
  <2>1. ~(PageAfter(catalog, n) # {} /\ n + Cardinality(PageAfter(catalog, n)) < Cardinality(catalog))
    BY <1>5, <1>6
  <2> QED BY <1>4, <2>1, LastPage
<1>9. P \in SUBSET Item /\ m \in Nat /\ more \in BOOLEAN
  <2>1. P \in SUBSET Item
    BY <1>4, <1>7
  <2>2. Cardinality(P) \in Nat
    BY <2>1, FiniteItems
  <2>3. more \in BOOLEAN
    BY DEF MoreAfter
  <2> HIDE DEF n, P, more
  <2> QED BY <1>4, <2>1, <2>2, <2>3
<1> HIDE DEF P, m, more
<1>10. /\ f \in RunState
       /\ f.stage = q.stage /\ f.kind = "sync" /\ f.prev = q.prev /\ f.offset = m /\ f.more = more
       /\ f.batch = P /\ f.cur = q.cur /\ f.seen = q.seen /\ f.items = q.items /\ f.carried = q.carried
       /\ f.shrunk = q.shrunk /\ f.steady = q.steady /\ f.alone = q.alone /\ f.owed = q.owed
  BY <1>1, <1>3, <1>9 DEF RunState
<1> HIDE DEF f
<1>11. q.batch = {} /\ q.seen \subseteq mapped /\ q.carried \subseteq catalog
  BY <1>1, <1>3 DEF Sound, Shaped, Asked
<1>12. ASSUME ~q.shrunk, NEW i \in q.carried
       PROVE  i \in q.seen \/ i \in P \/ (more /\ Place(catalog, i) > m)
  <2>1. i \in q.seen \/ Place(catalog, i) > n
    BY <1>1, <1>3, <1>11, <1>12 DEF Sound, Asked
  <2>2. CASE i \in q.seen \/ i \in P
    BY <2>2
  <2>3. CASE Place(catalog, i) > n /\ i \notin P
    <3>1. Place(catalog, i) \in Nat /\ i \in catalog
      BY <1>4, <1>11, <1>12, PlaceIsNat
    <3>2. i \notin UpTo(catalog, n)
      <4> SUFFICES ~(Place(catalog, i) <= n)
        BY DEF UpTo
      <4> HIDE DEF n
      <4> QED BY <1>4, <2>3, <3>1
    <3>3. i \notin UpTo(catalog, m)
      BY <1>7, <2>3, <3>2
    <3>4. ~(Place(catalog, i) <= m)
      BY <3>1, <3>3 DEF UpTo
    <3>5. Place(catalog, i) > m
      BY <1>9, <3>1, <3>4
    <3> QED BY <1>8, <3>1, <3>3, <3>5
  <2> QED BY <2>1, <2>2, <2>3
<1>13. Exact(f, catalog)
  <2> SUFFICES ASSUME q.steady
               PROVE  /\ f.seen \cup f.batch = UpTo(catalog, f.offset) /\ f.seen \cap f.batch = {}
                      /\ f.items = Cardinality(f.seen)
                      /\ ~f.more => UpTo(catalog, f.offset) = catalog
    BY <1>10 DEF Exact
  <2>1. q.seen = UpTo(catalog, n) /\ q.items = Cardinality(q.seen)
    BY <1>1, <1>3, <1>11 DEF Sound, Exact
  <2> HIDE DEF n
  <2> QED BY <1>7, <1>8, <1>10, <2>1
<1>14. ASSUME account = "live", q.alone
       PROVE  /\ q.seen \subseteq rows /\ q.prev \subseteq rows /\ rows \subseteq q.prev \cup q.seen
              /\ q.owed \subseteq q.seen \ q.prev
  <2>1. Written(q, rows) /\ Owed(q)
    BY <1>3, <1>14 DEF Sound
  <2> QED BY <1>1, <2>1 DEF Written, Owed, Closing, InHand
<1>15. Taken(f, catalog, mapped, rows, account)
  BY <1>10, <1>11, <1>12, <1>13, <1>14 DEF Taken
<1>16. /\ Sound(Proceed(f), catalog, mapped, rows, account)
       /\ Proceed(f).stage # "idle" /\ Proceed(f).alone = q.alone
  BY <1>10, <1>15, ProceedIsSound
<1>17. Proceed(f) \in RunState /\ Proceed(f).owed = q.owed
  BY <1>10, ProceedIsTyped, ProceedMoves DEF Alike
<1>18. ASSUME account = "live", ~overlap, NEW i \in Unknown'
       PROVE  i \in stranded \/ i \in q.owed
  <2>1. i \in Unknown
    BY <1>2, <1>18 DEF Unknown
  <2> QED BY <1>1, <1>18, <2>1, OwedAlone
<1> QED BY <1>1, <1>2, <1>3, <1>16, <1>17, <1>18, OneRunMoves

LEMMA LookKeeps ==
  ASSUME TypeOK, Runs, Balance, NEW r \in Run, NEW i \in Item, Look(r, i)
  PROVE  Runs' /\ Balance'
<1> DEFINE q == run[r]
<1>1. /\ q.stage = "looking"
      /\ UNCHANGED <<catalog, rows, mapped, account, told, stranded, overlap>>
  BY DEF Look, provider, cache, removal, events
<1>2. q \in RunState /\ r \in Active /\ Sound(q, catalog, mapped, rows, account) /\ told \subseteq mapped
  BY <1>1, RunIsSound
<1>3. PICK b \in BOOLEAN : /\ run' = [run EXCEPT ![r] = [q EXCEPT !.stage = "storing", !.cur = i, !.fresh = b]]
                           /\ i \notin rows => b
  BY DEF Look
<1> DEFINE f == [q EXCEPT !.stage = "storing", !.cur = i, !.fresh = b]
<1>4. /\ f \in RunState /\ f.stage = "storing" /\ f.cur = i /\ f.fresh = b
      /\ f.kind = q.kind /\ f.prev = q.prev /\ f.offset = q.offset /\ f.more = q.more
      /\ f.batch = q.batch /\ f.seen = q.seen /\ f.items = q.items /\ f.gone = q.gone
      /\ f.news = q.news /\ f.carried = q.carried /\ f.shrunk = q.shrunk /\ f.steady = q.steady
      /\ f.alone = q.alone /\ f.missed = q.missed /\ f.owed = q.owed
  BY <1>2 DEF RunState
<1> HIDE DEF f
<1>5. Asked(f, catalog) /\ Shaped(f, mapped) /\ Exact(f, catalog)
  BY <1>1, <1>2, <1>4 DEF Sound, Asked, Shaped, Exact, Closing
<1>6. ASSUME account = "live", q.alone PROVE Written(f, rows) /\ Owed(f)
  <2>1. Written(q, rows) /\ Owed(q)
    BY <1>2, <1>6 DEF Sound
  <2>2. InHand(q) = {} /\ Unsaid(q) = {} /\ ~Closing(q) /\ InHand(f) = {} /\ Unsaid(f) = {} /\ ~Closing(f)
    BY <1>1, <1>4 DEF InHand, Unsaid, Closing
  <2>3. Written(f, rows)
    BY <1>3, <1>4, <2>1, <2>2 DEF Written
  <2>4. Owed(f)
    BY <1>4, <2>1, <2>2 DEF Owed
  <2> QED BY <2>3, <2>4
<1>7. Sound(f, catalog, mapped, rows, account)
  BY <1>4, <1>5, <1>6 DEF Sound
<1>8. ASSUME account = "live", ~overlap, NEW j \in Unknown'
      PROVE  j \in stranded \/ j \in q.owed
  <2>1. j \in Unknown
    BY <1>1, <1>8 DEF Unknown
  <2> QED BY <1>1, <1>8, <2>1, OwedAlone
<1>9. run' = [run EXCEPT ![r] = f]
  BY <1>3 DEF f
<1> QED BY <1>1, <1>2, <1>4, <1>7, <1>8, <1>9, OneRunMoves

LEMMA StoreKeeps ==
  ASSUME TypeOK, Runs, Balance, NEW r \in Run, NEW i \in Item, Store(r, i)
  PROVE  Runs' /\ Balance'
<1> DEFINE q == run[r]
           f == [q EXCEPT !.stage = "resolving", !.cur = i, !.owed = @ \cup ({i} \ rows)]
<1>1. /\ q.stage = "storing" /\ i \in q.batch
      /\ q.kind # "sync" => i = q.cur
      /\ run' = [run EXCEPT ![r] = f] /\ rows' = rows \cup {i}
      /\ UNCHANGED <<catalog, mapped, account, told, stranded, overlap>>
  BY DEF Store, provider, removal, events
<1>2. q \in RunState /\ r \in Active /\ Sound(q, catalog, mapped, rows, account) /\ told \subseteq mapped
  BY <1>1, RunIsSound
<1>4. /\ f \in RunState /\ f.stage = "resolving" /\ f.cur = i /\ f.fresh = q.fresh
      /\ f.kind = q.kind /\ f.prev = q.prev /\ f.offset = q.offset /\ f.more = q.more
      /\ f.batch = q.batch /\ f.seen = q.seen /\ f.items = q.items /\ f.gone = q.gone
      /\ f.news = q.news /\ f.carried = q.carried /\ f.shrunk = q.shrunk /\ f.steady = q.steady
      /\ f.alone = q.alone /\ f.missed = q.missed /\ f.owed = q.owed \cup ({i} \ rows)
  BY <1>2 DEF RunState
<1> HIDE DEF f
<1>5. Asked(f, catalog) /\ Shaped(f, mapped) /\ Exact(f, catalog)
  BY <1>1, <1>2, <1>4 DEF Sound, Asked, Shaped, Exact, Closing
<1>6. ASSUME account = "live", q.alone PROVE Written(f, rows') /\ Owed(f)
  <2>1. Written(q, rows) /\ Owed(q)
    BY <1>2, <1>6 DEF Sound
  <2>2. /\ InHand(q) = {} /\ Unsaid(q) = {} /\ ~Closing(q)
        /\ InHand(f) = {i} /\ Unsaid(f) = {} /\ ~Closing(f)
    BY <1>1, <1>4 DEF InHand, Unsaid, Closing
  <2>3. Written(f, rows')
    BY <1>1, <1>4, <2>1, <2>2 DEF Written
  <2>4. Owed(f)
    <3>1. q.kind # "sync" /\ i \notin rows => q.fresh
      BY <1>1, <2>1 DEF Written
    <3>2. q.kind = "sync" => q.prev \subseteq rows
      BY <2>1, <2>2 DEF Written
    <3> QED BY <1>4, <2>1, <2>2, <3>1, <3>2 DEF Owed
  <2> QED BY <2>3, <2>4
<1>7. Sound(f, catalog, mapped, rows', account)
  BY <1>4, <1>5, <1>6 DEF Sound
<1>8. ASSUME account = "live", ~overlap, NEW j \in Unknown'
      PROVE  j \in stranded \/ j \in f.owed
  <2>1. j \in Unknown \/ j \in {i} \ rows
    BY <1>1, <1>8 DEF Unknown
  <2> QED BY <1>1, <1>4, <1>8, <2>1, OwedAlone
<1> QED BY <1>1, <1>2, <1>4, <1>7, <1>8, OneRunMoves

LEMMA ResolveKeeps ==
  ASSUME TypeOK, Runs, Balance, NEW r \in Run, Resolve(r)
  PROVE  Runs' /\ Balance'
<1> DEFINE q == run[r]
           n == q.items + 1
           N == IF q.kind = "refresh" /\ q.fresh THEN q.news \cup {q.cur} ELSE q.news
           f == [q EXCEPT !.batch = @ \ {q.cur}, !.seen = @ \cup {q.cur}, !.items = n, !.news = N]
           g == [f EXCEPT !.stage = "telling"]
<1>1. /\ q.stage = "resolving" /\ mapped' = mapped \cup {q.cur}
      /\ UNCHANGED <<catalog, rows, account, told, stranded, overlap>>
  <2>1. [q EXCEPT !.batch = @ \ {q.cur}, !.seen = @ \cup {q.cur}, !.items = @ + 1,
                  !.news = IF q.kind = "refresh" /\ q.fresh THEN @ \cup {q.cur} ELSE @] = f
    OBVIOUS
  <2>2. f.stage = "resolving" /\ mapped' = mapped \cup {f.cur}
    BY <2>1 DEF Resolve
  <2>3. f.stage = q.stage /\ f.cur = q.cur
    BY DEF TypeOK, RunState
  <2> HIDE DEF f
  <2> QED BY <2>2, <2>3 DEF Resolve, provider, removal, events
<1>2. q \in RunState /\ r \in Active /\ Sound(q, catalog, mapped, rows, account) /\ told \subseteq mapped
  BY <1>1, RunIsSound
<1>3. n \in Nat /\ N \in SUBSET Item /\ q.cur \in Item
  BY <1>2, FieldsAreTyped
<1>4. run' = [run EXCEPT ![r] = IF f.kind = "search" /\ f.fresh THEN g ELSE Proceed(f)]
  BY DEF Resolve
<1> HIDE DEF n, N
<1>5. /\ f \in RunState /\ f.stage = "resolving" /\ f.cur = q.cur /\ f.fresh = q.fresh
      /\ f.kind = q.kind /\ f.prev = q.prev /\ f.offset = q.offset /\ f.more = q.more
      /\ f.batch = q.batch \ {q.cur} /\ f.seen = q.seen \cup {q.cur} /\ f.items = n
      /\ f.news = N /\ f.carried = q.carried /\ f.shrunk = q.shrunk /\ f.steady = q.steady
      /\ f.alone = q.alone /\ f.missed = q.missed /\ f.owed = q.owed
  BY <1>1, <1>2, <1>3 DEF RunState
<1> HIDE DEF f
<1>6. /\ q.cur \in q.batch /\ q.seen \subseteq mapped /\ q.carried \subseteq catalog
      /\ q.kind = "refresh" => q.news \subseteq q.seen
  BY <1>1, <1>2 DEF Sound, Shaped, Asked
<1>7. Exact(f, catalog)
  <2>1. ASSUME q.kind = "sync", q.steady PROVE n = Cardinality(q.seen \cup {q.cur})
    <3>1. q.cur \notin q.seen /\ q.items = Cardinality(q.seen)
      BY <1>2, <1>6, <2>1 DEF Sound, Exact
    <3>2. IsFiniteSet(q.seen)
      <4>1. q.seen \in SUBSET Item
        BY <1>2 DEF RunState
      <4> QED BY <4>1, FiniteItems
    <3>3. Cardinality(q.seen \cup {q.cur}) = Cardinality(q.seen) + 1
      BY <3>1, <3>2, FS_AddElement
    <3> QED BY <3>1, <3>3 DEF n
  <2>2. (q.batch \ {q.cur}) \cup (q.seen \cup {q.cur}) = q.seen \cup q.batch
    BY <1>6
  <2> QED BY <1>1, <1>2, <1>5, <2>1, <2>2 DEF Sound, Exact
<1>8. ASSUME account = "live", q.alone
      PROVE  /\ q.kind # "search" => q.seen \subseteq rows
             /\ q.cur \in rows
             /\ q.kind = "sync" => /\ q.prev \subseteq rows /\ rows \subseteq q.prev \cup q.seen \cup {q.cur}
                                   /\ q.owed \subseteq (q.seen \cup {q.cur}) \ q.prev
             /\ q.kind = "refresh" => q.owed \subseteq N
             /\ q.kind = "search" => q.owed \subseteq {q.cur} /\ (~q.fresh => q.owed = {})
  <2>1. Written(q, rows) /\ Owed(q)
    BY <1>2, <1>8 DEF Sound
  <2>2. InHand(q) = {q.cur} /\ Unsaid(q) = {} /\ ~Closing(q)
    BY <1>1 DEF InHand, Unsaid, Closing
  <2> QED BY <2>1, <2>2 DEF Written, Owed, N
<1>9. ASSUME account = "live", ~overlap, NEW j \in Unknown'
      PROVE  j \in stranded \/ j \in q.owed
  <2>1. j \in Unknown
    BY <1>1, <1>9 DEF Unknown
  <2> QED BY <1>1, <1>9, <2>1, OwedAlone
<1>10. CASE f.kind = "search" /\ f.fresh
  <2>1. /\ g \in RunState /\ g.stage = "telling" /\ g.cur = f.cur /\ g.kind = f.kind
        /\ g.seen = f.seen /\ g.carried = f.carried /\ g.alone = f.alone /\ g.owed = f.owed
    BY <1>5 DEF RunState
  <2> HIDE DEF g
  <2>2. Asked(g, catalog) /\ Shaped(g, mapped') /\ Exact(g, catalog)
    BY <1>1, <1>5, <1>6, <1>10, <2>1 DEF Asked, Shaped, Exact, Closing
  <2>3. InHand(g) = {} /\ Unsaid(g) = {q.cur} /\ ~Closing(g)
    BY <1>5, <1>10, <2>1 DEF InHand, Unsaid, Closing
  <2>4. account = "live" /\ q.alone => Written(g, rows) /\ Owed(g)
    BY <1>5, <1>8, <1>10, <2>1, <2>3 DEF Written, Owed
  <2>5. Sound(g, catalog, mapped', rows, account)
    BY <1>5, <2>1, <2>2, <2>4 DEF Sound
  <2>6. run' = [run EXCEPT ![r] = g]
    BY <1>4, <1>10
  <2> QED BY <1>1, <1>2, <1>5, <1>9, <2>1, <2>5, <2>6, OneRunMoves
<1>11. CASE ~(f.kind = "search" /\ f.fresh)
  <2>1. /\ q.kind = "sync" /\ ~q.shrunk =>
             \A i \in q.carried : i \in q.seen \/ i \in q.batch \/ (q.more /\ Place(catalog, i) > q.offset)
        /\ q.kind = "refresh" => q.carried \cap q.prev \subseteq q.seen \cup q.batch \cup q.missed
        /\ q.kind = "refresh" /\ q.steady /\ q.missed = {} => q.seen \cup q.batch = q.prev \cap catalog
    BY <1>1, <1>2 DEF Sound, Asked, Exact
  <2>2. \A x : x \in f.seen \/ x \in f.batch <=> x \in q.seen \/ x \in q.batch
    BY <1>5, <1>6
  <2>3. Taken(f, catalog, mapped', rows, account)
    <3>1. /\ f.carried \subseteq catalog
          /\ f.kind = "sync" /\ ~f.shrunk =>
               \A i \in f.carried : i \in f.seen \/ i \in f.batch \/ (f.more /\ Place(catalog, i) > f.offset)
          /\ f.kind = "refresh" => f.carried \cap f.prev \subseteq f.seen \cup f.batch \cup f.missed
          /\ f.kind = "refresh" /\ f.steady /\ f.missed = {} => f.seen \cup f.batch = f.prev \cap catalog
      BY <1>5, <1>6, <2>1, <2>2
    <3>2. (f.kind = "refresh" => f.news \subseteq f.seen) /\ f.seen \subseteq mapped'
      BY <1>1, <1>5, <1>6 DEF N
    <3>3. account = "live" /\ f.alone =>
            /\ f.kind # "search" => f.seen \subseteq rows
            /\ f.kind = "sync" => /\ f.prev \subseteq rows /\ rows \subseteq f.prev \cup f.seen
                                  /\ f.owed \subseteq f.seen \ f.prev
            /\ f.kind = "refresh" => f.owed \subseteq f.news
            /\ f.kind = "search" => f.owed = {}
      BY <1>5, <1>8, <1>11
    <3> QED BY <1>7, <3>1, <3>2, <3>3 DEF Taken
  <2>4. /\ Sound(Proceed(f), catalog, mapped', rows, account)
        /\ Proceed(f).stage # "idle" /\ Proceed(f).alone = q.alone
    BY <1>5, <2>3, ProceedIsSound
  <2>5. Proceed(f) \in RunState /\ Proceed(f).owed = q.owed
    BY <1>5, ProceedIsTyped, ProceedMoves DEF Alike
  <2>6. run' = [run EXCEPT ![r] = Proceed(f)]
    BY <1>4, <1>11
  <2> QED BY <1>1, <1>2, <1>9, <2>4, <2>5, <2>6, OneRunMoves
<1> QED BY <1>10, <1>11

LEMMA DeleteDepartedKeeps ==
  ASSUME TypeOK, Runs, Balance, NEW r \in Run, NEW i \in Item, DeleteDeparted(r, i)
  PROVE  Runs' /\ Balance'
<1> DEFINE q == run[r]
           f == [q EXCEPT !.stage = "telling", !.cur = i, !.gone = @ \ {i},
                          !.owed = @ \cup ({i} \cap rows)]
<1>1. /\ q.stage = "reconciling" /\ i \in q.gone
      /\ run' = [run EXCEPT ![r] = f] /\ rows' = rows \ {i}
      /\ UNCHANGED <<catalog, mapped, account, told, stranded, overlap>>
  BY DEF DeleteDeparted, provider, removal, events
<1>2. q \in RunState /\ r \in Active /\ Sound(q, catalog, mapped, rows, account) /\ told \subseteq mapped
  BY <1>1, RunIsSound
<1>4. /\ f \in RunState /\ f.stage = "telling" /\ f.cur = i
      /\ f.kind = q.kind /\ f.prev = q.prev /\ f.offset = q.offset /\ f.more = q.more
      /\ f.batch = q.batch /\ f.seen = q.seen /\ f.items = q.items /\ f.gone = q.gone \ {i}
      /\ f.news = q.news /\ f.carried = q.carried /\ f.shrunk = q.shrunk /\ f.steady = q.steady
      /\ f.alone = q.alone /\ f.missed = q.missed /\ f.owed = q.owed \cup ({i} \cap rows)
  BY <1>2 DEF RunState
<1> HIDE DEF f
<1>3. Closing(q) /\ Closing(f) /\ q.kind # "search" /\ i \notin q.seen
  BY <1>1, <1>2, <1>4 DEF Sound, Shaped, Closing
<1>5. Asked(f, catalog) /\ Shaped(f, mapped) /\ Exact(f, catalog)
  BY <1>1, <1>2, <1>3, <1>4 DEF Sound, Asked, Shaped, Exact
<1>6. ASSUME account = "live", q.alone PROVE Written(f, rows') /\ Owed(f)
  <2>1. Written(q, rows) /\ Owed(q)
    BY <1>2, <1>6 DEF Sound
  <2>2. InHand(q) = {} /\ Unsaid(q) = {} /\ InHand(f) = {} /\ Unsaid(f) = {i}
    BY <1>1, <1>4 DEF InHand, Unsaid
  <2>3. Written(f, rows')
    BY <1>1, <1>3, <1>4, <2>1, <2>2 DEF Written
  <2>4. Owed(f)
    BY <1>3, <1>4, <2>1, <2>2 DEF Owed
  <2> QED BY <2>3, <2>4
<1>7. Sound(f, catalog, mapped, rows', account)
  BY <1>4, <1>5, <1>6 DEF Sound
<1>8. ASSUME account = "live", ~overlap, NEW j \in Unknown'
      PROVE  j \in stranded \/ j \in f.owed
  <2>1. j \in Unknown \/ j \in {i} \cap rows
    BY <1>1, <1>8 DEF Unknown
  <2> QED BY <1>1, <1>4, <1>8, <2>1, OwedAlone
<1> QED BY <1>1, <1>2, <1>4, <1>7, <1>8, OneRunMoves

(* What an event settles: afterwards the listeners are right about an item,  *)
(* or it is stranded.                                                        *)
LEMMA EmitSettles ==
  ASSUME NEW i \in Item, NEW p \in BOOLEAN, Emit(i, p), told \subseteq mapped, UNCHANGED <<rows, mapped>>,
         i \in rows <=> p, p => i \in mapped
  PROVE  Unknown' \ {i} \subseteq Unknown /\ stranded \ {i} \subseteq stranded'
         /\ (i \in Unknown' => i \in stranded')
BY DEF Emit, Unknown

LEMMA EmitKeepsToldMapped ==
  ASSUME NEW i \in Item, NEW p \in BOOLEAN, Emit(i, p), told \subseteq mapped, mapped' = mapped
  PROVE  told' \subseteq mapped'
BY DEF Emit

LEMMA TellKeeps ==
  ASSUME TypeOK, Runs, Balance, NEW r \in Run, Tell(r)
  PROVE  Runs' /\ Balance'
<1> DEFINE q == run[r]
           f == [q EXCEPT !.owed = @ \ {q.cur}]
           g == [f EXCEPT !.stage = "reconciling"]
           p == f.cur \in f.seen
<1>1. /\ f.stage = "telling" /\ Emit(f.cur, p)
      /\ run' = [run EXCEPT ![r] = IF f.kind = "search" THEN Proceed(f) ELSE g]
      /\ UNCHANGED <<catalog, rows, mapped, account, overlap>>
  BY DEF Tell, provider, cache, removal
<1>2. q.stage = "telling"
  BY <1>1 DEF TypeOK, RunState
<1>3. q \in RunState /\ r \in Active /\ Sound(q, catalog, mapped, rows, account) /\ told \subseteq mapped
  BY <1>2, RunIsSound
<1>4. /\ f \in RunState /\ f.cur = q.cur /\ f.cur \in Item
      /\ f.kind = q.kind /\ f.prev = q.prev /\ f.offset = q.offset /\ f.more = q.more
      /\ f.batch = q.batch /\ f.seen = q.seen /\ f.items = q.items /\ f.gone = q.gone
      /\ f.news = q.news /\ f.carried = q.carried /\ f.shrunk = q.shrunk /\ f.steady = q.steady
      /\ f.alone = q.alone /\ f.missed = q.missed /\ f.owed = q.owed \ {q.cur}
  BY <1>3 DEF RunState
<1>5. /\ g \in RunState /\ g.stage = "reconciling" /\ g.cur = q.cur
      /\ g.kind = q.kind /\ g.prev = q.prev /\ g.offset = q.offset /\ g.more = q.more
      /\ g.batch = q.batch /\ g.seen = q.seen /\ g.items = q.items /\ g.gone = q.gone
      /\ g.news = q.news /\ g.carried = q.carried /\ g.shrunk = q.shrunk /\ g.steady = q.steady
      /\ g.alone = q.alone /\ g.missed = q.missed /\ g.owed = q.owed \ {q.cur}
  <2> HIDE DEF f
  <2> QED BY <1>4 DEF RunState
<1> HIDE DEF f, g, p
<1>6. /\ p \in BOOLEAN
      /\ p <=> q.cur \in q.seen
      /\ q.kind = "search" <=> p
      /\ p => q.cur \in mapped
  <2>1. f.cur = q.cur /\ f.seen = q.seen
    BY <1>4
  <2>2. p \in BOOLEAN /\ (p <=> q.cur \in q.seen)
    BY <2>1 DEF p
  <2>3. (q.kind = "search" <=> q.cur \in q.seen) /\ (q.cur \in q.seen => q.cur \in mapped)
    BY <1>2, <1>3 DEF Sound, Shaped, Closing
  <2> QED BY <2>2, <2>3
<1>7. told' \subseteq mapped'
  BY <1>1, <1>3, <1>4, <1>6, EmitKeepsToldMapped
<1>8. ASSUME account = "live", ~overlap, NEW j \in Unknown'
      PROVE  j \in stranded' \/ j \in f.owed
  <2>1. q.alone /\ Written(q, rows) /\ \A x \in Unknown : x \in stranded \/ x \in q.owed
    BY <1>2, <1>8, OwedAlone
  <2>2. q.cur \in rows <=> p
    <3>1. Unsaid(q) = {q.cur}
      BY <1>2 DEF Unsaid
    <3> QED BY <1>2, <1>6, <2>1, <3>1 DEF Written, Closing
  <2>3. Unknown' \ {q.cur} \subseteq Unknown /\ stranded \ {q.cur} \subseteq stranded'
        /\ (q.cur \in Unknown' => q.cur \in stranded')
    BY <1>1, <1>3, <1>4, <1>6, <2>2, EmitSettles
  <2> QED BY <1>4, <1>8, <2>1, <2>3
<1>9. account = "live" /\ q.alone => Written(q, rows) /\ Owed(q)
  BY <1>3 DEF Sound
<1>10. CASE q.kind = "search"
  <2>1. account = "live" /\ q.alone => f.owed = {}
    BY <1>2, <1>4, <1>9, <1>10 DEF Owed, InHand, Unsaid, Closing
  <2>2. Taken(f, catalog, mapped, rows, account)
    BY <1>3, <1>4, <1>10, <2>1 DEF Taken, Sound, Asked, Shaped, Exact
  <2>3. /\ Sound(Proceed(f), catalog, mapped, rows, account)
        /\ Proceed(f).stage # "idle" /\ Proceed(f).alone = q.alone
    BY <1>4, <2>2, ProceedIsSound
  <2>4. Proceed(f) \in RunState /\ Proceed(f).owed = f.owed
    BY <1>4, ProceedIsTyped, ProceedMoves DEF Alike
  <2>5. run' = [run EXCEPT ![r] = Proceed(f)]
    BY <1>1, <1>4, <1>10
  <2> QED BY <1>1, <1>3, <1>7, <1>8, <2>3, <2>4, <2>5, OneRunMoves
<1>11. CASE q.kind # "search"
  <2>1. Closing(q) /\ Closing(g) /\ g.owed = f.owed
    BY <1>2, <1>4, <1>5, <1>11 DEF Closing
  <2>2. Asked(g, catalog) /\ Shaped(g, mapped) /\ Exact(g, catalog)
    BY <1>2, <1>3, <1>5, <1>11, <2>1 DEF Sound, Asked, Shaped, Exact
  <2>3. account = "live" /\ q.alone => Written(g, rows) /\ Owed(g)
    <3>1. InHand(g) = {} /\ Unsaid(g) = {} /\ InHand(q) = {} /\ Unsaid(q) = {q.cur}
      BY <1>2, <1>5 DEF InHand, Unsaid
    <3> QED BY <1>5, <1>9, <1>11, <2>1, <3>1 DEF Written, Owed
  <2>4. Sound(g, catalog, mapped, rows, account)
    BY <1>5, <2>2, <2>3 DEF Sound
  <2>5. run' = [run EXCEPT ![r] = g]
    BY <1>1, <1>4, <1>11
  <2> QED BY <1>1, <1>3, <1>5, <1>7, <1>8, <2>1, <2>4, <2>5, OneRunMoves
<1> QED BY <1>10, <1>11

LEMMA TellArrivalKeeps ==
  ASSUME TypeOK, Runs, Balance, NEW r \in Run, NEW i \in Item, TellArrival(r, i)
  PROVE  Runs' /\ Balance'
<1> DEFINE q == run[r]
           f == [q EXCEPT !.news = @ \ {i}, !.owed = @ \ {i}]
<1>1. /\ q.stage = "reconciling" /\ i \in q.news /\ Emit(i, TRUE)
      /\ run' = [run EXCEPT ![r] = f]
      /\ UNCHANGED <<catalog, rows, mapped, account, overlap>>
  BY DEF TellArrival, provider, cache, removal
<1>2. q \in RunState /\ r \in Active /\ Sound(q, catalog, mapped, rows, account) /\ told \subseteq mapped
  BY <1>1, RunIsSound
<1>4. /\ f \in RunState /\ f.stage = "reconciling" /\ f.cur = q.cur
      /\ f.kind = q.kind /\ f.prev = q.prev /\ f.offset = q.offset /\ f.more = q.more
      /\ f.batch = q.batch /\ f.seen = q.seen /\ f.items = q.items /\ f.gone = q.gone
      /\ f.news = q.news \ {i} /\ f.carried = q.carried /\ f.shrunk = q.shrunk /\ f.steady = q.steady
      /\ f.alone = q.alone /\ f.missed = q.missed /\ f.owed = q.owed \ {i}
  BY <1>1, <1>2 DEF RunState
<1> HIDE DEF f
<1>5. Closing(q) /\ Closing(f) /\ q.kind # "search" /\ i \in q.seen /\ i \in mapped
  BY <1>1, <1>2, <1>4 DEF Sound, Shaped, Closing
<1>6. Asked(f, catalog) /\ Shaped(f, mapped) /\ Exact(f, catalog)
  BY <1>1, <1>2, <1>4, <1>5 DEF Sound, Asked, Shaped, Exact
<1>7. ASSUME account = "live", q.alone PROVE Written(f, rows) /\ Owed(f) /\ i \in rows
  <2>1. Written(q, rows) /\ Owed(q)
    BY <1>2, <1>7 DEF Sound
  <2>2. InHand(q) = {} /\ Unsaid(q) = {} /\ InHand(f) = {} /\ Unsaid(f) = {}
    BY <1>1, <1>4 DEF InHand, Unsaid
  <2> QED BY <1>4, <1>5, <2>1, <2>2 DEF Written, Owed
<1>8. Sound(f, catalog, mapped, rows, account)
  BY <1>4, <1>6, <1>7 DEF Sound
<1>9. told' \subseteq mapped'
  BY <1>1, <1>2, EmitKeepsToldMapped
<1>10. ASSUME account = "live", ~overlap, NEW j \in Unknown'
       PROVE  j \in stranded' \/ j \in f.owed
  <2>1. q.alone /\ \A x \in Unknown : x \in stranded \/ x \in q.owed
    BY <1>1, <1>10, OwedAlone
  <2>2. Unknown' \ {i} \subseteq Unknown /\ stranded \ {i} \subseteq stranded'
        /\ (i \in Unknown' => i \in stranded')
    BY <1>1, <1>2, <1>5, <1>7, <1>10, <2>1, EmitSettles
  <2> QED BY <1>4, <1>10, <2>1, <2>2
<1> QED BY <1>1, <1>2, <1>4, <1>8, <1>9, <1>10, OneRunMoves

LEMMA AnswerRefreshKeeps ==
  ASSUME TypeOK, Runs, Balance, NEW r \in Run, NEW missed \in SUBSET Item, AnswerRefresh(r, missed)
  PROVE  Runs' /\ Balance'
<1> DEFINE q == run[r]
           B == (q.prev \cap catalog) \ missed
           f == [q EXCEPT !.batch = B, !.missed = missed]
<1>1. /\ q.stage = "fetching" /\ q.kind = "refresh" /\ run' = [run EXCEPT ![r] = Proceed(f)]
      /\ UNCHANGED <<catalog, rows, mapped, account, told, stranded, overlap>>
  BY DEF AnswerRefresh, provider, cache, removal, events
<1>2. q \in RunState /\ r \in Active /\ Sound(q, catalog, mapped, rows, account) /\ told \subseteq mapped
  BY <1>1, RunIsSound
<1>3. B \in SUBSET Item
  BY DEF TypeOK
<1> HIDE DEF B
<1>4. /\ f \in RunState /\ f.kind = "refresh" /\ f.prev = q.prev /\ f.batch = B /\ f.seen = q.seen
      /\ f.news = q.news /\ f.carried = q.carried /\ f.steady = q.steady
      /\ f.alone = q.alone /\ f.missed = missed /\ f.owed = q.owed
  BY <1>1, <1>2, <1>3 DEF RunState
<1> HIDE DEF f
<1>5. q.carried \subseteq catalog /\ q.seen \subseteq mapped /\ q.news \subseteq q.seen
  BY <1>1, <1>2 DEF Sound, Asked, Shaped
<1>6. q.seen = {} /\ \A x : x \in B <=> x \in q.prev /\ x \in catalog /\ x \notin missed
  BY <1>1, <1>2 DEF Sound, Shaped, B
<1>7. account = "live" /\ q.alone => q.owed \subseteq q.news
  <2> SUFFICES ASSUME account = "live", q.alone PROVE q.owed \subseteq q.news
    OBVIOUS
  <2>1. Owed(q)
    BY <1>2 DEF Sound
  <2> QED BY <1>1, <2>1 DEF Owed, Closing, InHand
<1>8. Taken(f, catalog, mapped, rows, account)
  <2>1. Exact(f, catalog) /\ (f.steady /\ f.missed = {} => f.seen \cup f.batch = f.prev \cap catalog)
    BY <1>4, <1>6 DEF Exact
  <2> QED BY <1>4, <1>5, <1>6, <1>7, <2>1 DEF Taken
<1>9. /\ Sound(Proceed(f), catalog, mapped, rows, account)
      /\ Proceed(f).stage # "idle" /\ Proceed(f).alone = q.alone
  BY <1>4, <1>8, ProceedIsSound
<1>10. Proceed(f) \in RunState /\ Proceed(f).owed = q.owed
  BY <1>4, ProceedIsTyped, ProceedMoves DEF Alike
<1>11. ASSUME account = "live", ~overlap, NEW j \in Unknown'
       PROVE  j \in stranded \/ j \in q.owed
  <2>1. j \in Unknown
    BY <1>1, <1>11 DEF Unknown
  <2> QED BY <1>1, <1>11, <2>1, OwedAlone
<1> QED BY <1>1, <1>2, <1>9, <1>10, <1>11, OneRunMoves

LEMMA AnswerSearchKeeps ==
  ASSUME TypeOK, Runs, Balance, NEW r \in Run, NEW hits \in SUBSET Item, AnswerSearch(r, hits)
  PROVE  Runs' /\ Balance'
<1> DEFINE q == run[r]
           f == [q EXCEPT !.batch = hits, !.seen = {}, !.items = 0]
<1>1. /\ q.stage = "fetching" /\ q.kind = "search" /\ run' = [run EXCEPT ![r] = Proceed(f)]
      /\ UNCHANGED <<catalog, rows, mapped, account, told, stranded, overlap>>
  BY DEF AnswerSearch, provider, cache, removal, events
<1>2. q \in RunState /\ r \in Active /\ Sound(q, catalog, mapped, rows, account) /\ told \subseteq mapped
  BY <1>1, RunIsSound
<1>3. /\ f \in RunState /\ f.kind = "search" /\ f.seen = {} /\ f.carried = q.carried
      /\ f.alone = q.alone /\ f.owed = q.owed
  BY <1>1, <1>2 DEF RunState
<1> HIDE DEF f
<1>4. account = "live" /\ q.alone => q.owed = {}
  <2> SUFFICES ASSUME account = "live", q.alone PROVE q.owed = {}
    OBVIOUS
  <2>1. Owed(q)
    BY <1>2 DEF Sound
  <2> QED BY <1>1, <2>1 DEF Owed, InHand, Unsaid
<1>5. Taken(f, catalog, mapped, rows, account)
  BY <1>2, <1>3, <1>4 DEF Taken, Exact, Sound, Asked
<1>6. /\ Sound(Proceed(f), catalog, mapped, rows, account)
      /\ Proceed(f).stage # "idle" /\ Proceed(f).alone = q.alone
  BY <1>3, <1>5, ProceedIsSound
<1>7. Proceed(f) \in RunState /\ Proceed(f).owed = q.owed
  BY <1>3, ProceedIsTyped, ProceedMoves DEF Alike
<1>8. ASSUME account = "live", ~overlap, NEW j \in Unknown'
      PROVE  j \in stranded \/ j \in q.owed
  <2>1. j \in Unknown
    BY <1>1, <1>8 DEF Unknown
  <2> QED BY <1>1, <1>8, <2>1, OwedAlone
<1> QED BY <1>1, <1>2, <1>6, <1>7, <1>8, OneRunMoves

LEMMA EndsKeep ==
  ASSUME TypeOK, Runs, Balance, NEW r \in Run, EndSearch(r) \/ Finish(r) \/ Abort(r)
  PROVE  Runs' /\ Balance'
<1>1. run[r].stage # "idle" /\ run' = [run EXCEPT ![r] = Idle]
  BY DEF EndSearch, Finish, Abort
<1>2. UNCHANGED <<catalog, account, overlap, rows, told>> /\ mapped \subseteq mapped'
  <2>1. CASE EndSearch(r)
    BY <2>1 DEF EndSearch, provider, cache, removal, events
  <2>2. CASE Finish(r)
    BY <2>2 DEF Finish, provider, removal, events
  <2>3. CASE Abort(r)
    BY <2>3 DEF Abort, provider, removal
  <2> QED BY <2>1, <2>2, <2>3
<1>3. ASSUME account = "live", ~overlap PROVE stranded \cup run[r].owed \subseteq stranded'
  <2>1. CASE Abort(r)
    BY <2>1 DEF Abort
  <2>2. CASE EndSearch(r)
    <3>1. Owed(run[r])
      BY <1>1, <1>3, OwedAlone
    <3> QED BY <2>2, <3>1 DEF EndSearch, events, Owed, InHand, Unsaid
  <2>3. CASE Finish(r)
    <3>1. Owed(run[r]) /\ Sound(run[r], catalog, mapped, rows, account)
      BY <1>1, <1>3, OwedAlone, RunIsSound
    <3>2. run[r].stage = "reconciling" /\ run[r].news = {} /\ UNCHANGED stranded
      BY <2>3 DEF Finish, events
    <3>3. Closing(run[r]) /\ Unsaid(run[r]) = {}
      BY <3>1, <3>2 DEF Sound, Shaped, Closing, Unsaid
    <3> QED BY <3>1, <3>2, <3>3 DEF Owed
  <2> QED BY <2>1, <2>2, <2>3
<1>4. r \in Active
  BY <1>1 DEF Active
<1> QED BY <1>1, <1>2, <1>3, <1>4, RunEnds

(* A run begins: nothing is asked for yet, and it is alone if no other is in *)
(* progress.                                                                 *)
LEMMA BeginKeeps ==
  ASSUME TypeOK, Runs, Balance, NEW r \in Run, NEW q \in RunState, Begin(r, q),
         q.offset = 0, q.more, q.batch = {}, q.seen = {}, q.items = 0, q.news = {}, q.owed = {},
         q.missed = {}, q.kind = "sync" => q.prev = rows
  PROVE  Runs' /\ Balance'
<1> DEFINE a == Active = {}
           f == [q EXCEPT !.stage = "fetching", !.carried = catalog, !.alone = a]
<1>1. run[r].stage = "idle" /\ overlap' = (overlap \/ Active # {})
      /\ UNCHANGED <<catalog, rows, mapped, account, told, stranded>>
  BY DEF Begin, provider, cache, removal, events
<1>2. run' = [p \in Run |->
       IF p = r THEN f ELSE IF p \in Active THEN [run[p] EXCEPT !.alone = FALSE] ELSE run[p]]
  BY DEF Begin
<1>3. a \in BOOLEAN /\ catalog \in SUBSET Item
  BY DEF TypeOK
<1>a. a <=> Active = {}
  OBVIOUS
<1> HIDE DEF a
<1>4. /\ f.stage = "fetching" /\ f.carried = catalog /\ (f.alone <=> a)
      /\ f.kind = q.kind /\ f.prev = q.prev /\ f.offset = 0 /\ f.more
      /\ f.batch = {} /\ f.seen = {} /\ f.items = 0 /\ f.news = {} /\ f.owed = {}
  BY <1>3 DEF RunState
<1> HIDE DEF f
<1>5. \A i \in catalog : Place(catalog, i) > 0
  BY <1>3, FirstPlace
<1>6. UpTo(catalog, 0) = {}
  <2> SUFFICES ASSUME NEW i \in catalog PROVE ~(Place(catalog, i) <= 0)
    BY DEF UpTo
  <2>1. Place(catalog, i) > 0 /\ Place(catalog, i) \in Nat
    BY <1>3, <1>5, PlaceIsNat
  <2> QED BY <2>1
<1>7. Sound(f, catalog, mapped, rows, account)
  <2>1. Asked(f, catalog)
    BY <1>4, <1>5 DEF Asked
  <2>2. Shaped(f, mapped)
    BY <1>4 DEF Shaped, Closing
  <2>3. Exact(f, catalog)
    BY <1>4, <1>6, FS_EmptySet DEF Exact
  <2>4. Written(f, rows) /\ Owed(f)
    BY <1>1, <1>4 DEF Written, Owed, Closing, InHand, Unsaid
  <2> QED BY <2>1, <2>2, <2>3, <2>4 DEF Sound
<1>8. Active' \subseteq Active \cup {r} /\ Active \subseteq Active'
  <2>1. \A p \in Active : run'[p].stage = run[p].stage
    BY <1>1, <1>2 DEF Active, TypeOK, RunState
  <2> QED BY <1>1, <1>2, <2>1 DEF Active
<1>9. ASSUME NEW p \in Active'
      PROVE  /\ Sound(run'[p], catalog, mapped, rows, account)
             /\ run'[p].alone => Active' \subseteq {p}
             /\ ~overlap' => run'[p].alone
  <2>1. CASE p = r
    BY <1>1, <1>2, <1>4, <1>7, <1>8, <1>a, <2>1
  <2>2. CASE p # r
    <3> DEFINE g == [run[p] EXCEPT !.alone = FALSE]
    <3>1. p \in Active /\ p \in Run
      BY <1>8, <2>2 DEF Active
    <3>2. run'[p] = g
      BY <1>2, <2>2, <3>1
    <3>3. Sound(run[p], catalog, mapped, rows, account) /\ run[p] \in RunState
      BY <3>1 DEF Runs, TypeOK
    <3>4. ~g.alone
      BY <3>3 DEF RunState
    <3>5. /\ g.stage = run[p].stage /\ g.cur = run[p].cur
          /\ g.kind = run[p].kind /\ g.prev = run[p].prev /\ g.offset = run[p].offset /\ g.more = run[p].more
          /\ g.batch = run[p].batch /\ g.seen = run[p].seen /\ g.items = run[p].items
          /\ g.gone = run[p].gone /\ g.news = run[p].news /\ g.carried = run[p].carried
          /\ g.shrunk = run[p].shrunk /\ g.steady = run[p].steady /\ g.missed = run[p].missed
      BY <3>3 DEF RunState
    <3> HIDE DEF g
    <3>6. Asked(g, catalog) /\ Shaped(g, mapped) /\ Exact(g, catalog)
      BY <3>3, <3>5 DEF Sound, Asked, Shaped, Exact, Closing
    <3>7. Sound(g, catalog, mapped, rows, account)
      BY <3>4, <3>6 DEF Sound
    <3> QED BY <1>1, <3>1, <3>2, <3>4, <3>7
  <2> QED BY <2>1, <2>2
<1>10. Runs'
  BY <1>1, <1>9 DEF Runs
<1>11. ASSUME account = "live", ~overlap', NEW i \in Unknown' PROVE i \in stranded
  <2>1. i \in Unknown /\ ~overlap /\ Active = {}
    BY <1>1, <1>11 DEF Unknown
  <2> QED BY <1>11, <2>1 DEF Balance
<1>12. Balance'
  BY <1>1, <1>11 DEF Balance
<1> QED BY <1>10, <1>12

LEMMA BeginsKeep ==
  ASSUME TypeOK, Runs, Balance, NEW r \in Run,
         BeginSync(r) \/ BeginSearch(r) \/ \E S \in SUBSET Item : BeginRefresh(r, S)
  PROVE  Runs' /\ Balance'
<1>1. CASE BeginSync(r)
  <2> DEFINE q == [Idle EXCEPT !.prev = rows]
  <2>1. /\ q \in RunState /\ q.offset = 0 /\ q.more /\ q.batch = {} /\ q.seen = {} /\ q.items = 0
        /\ q.news = {} /\ q.owed = {} /\ q.missed = {} /\ q.prev = rows
    BY IdleIsTyped DEF Idle, TypeOK, RunState
  <2>2. Begin(r, q)
    BY <1>1 DEF BeginSync
  <2> HIDE DEF q
  <2> QED BY <2>1, <2>2, BeginKeeps
<1>2. CASE BeginSearch(r)
  <2> DEFINE q == [Idle EXCEPT !.kind = "search"]
  <2>1. /\ q \in RunState /\ q.offset = 0 /\ q.more /\ q.batch = {} /\ q.seen = {} /\ q.items = 0
        /\ q.news = {} /\ q.owed = {} /\ q.missed = {} /\ q.kind # "sync"
    BY IdleIsTyped DEF Idle, RunState
  <2>2. Begin(r, q)
    BY <1>2 DEF BeginSearch
  <2> HIDE DEF q
  <2> QED BY <2>1, <2>2, BeginKeeps
<1>3. ASSUME NEW S \in SUBSET Item, BeginRefresh(r, S) PROVE Runs' /\ Balance'
  <2> DEFINE q == [Idle EXCEPT !.kind = "refresh", !.prev = S]
  <2>1. /\ q \in RunState /\ q.offset = 0 /\ q.more /\ q.batch = {} /\ q.seen = {} /\ q.items = 0
        /\ q.news = {} /\ q.owed = {} /\ q.missed = {} /\ q.kind # "sync"
    BY IdleIsTyped DEF Idle, RunState
  <2>2. Begin(r, q)
    BY <1>3 DEF BeginRefresh
  <2> HIDE DEF q
  <2> QED BY <2>1, <2>2, BeginKeeps
<1> QED BY <1>1, <1>2, <1>3

LEMMA CatalogChangesKeeps ==
  ASSUME TypeOK, Runs, Balance, NEW i \in Item, CatalogChanges(i)
  PROVE  Runs' /\ Balance'
<1>1. /\ catalog' = IF i \in catalog THEN catalog \ {i} ELSE catalog \cup {i}
      /\ run' = [r \in Run |-> IF r \notin Active THEN run[r] ELSE
                   [run[r] EXCEPT !.carried = @ \cap catalog', !.steady = FALSE,
                                  !.shrunk = @ \/ i \in catalog]]
      /\ UNCHANGED <<rows, mapped, account, told, stranded, overlap>>
  BY DEF CatalogChanges, cache, removal, events
<1>2. catalog \in SUBSET Item /\ catalog' \in SUBSET Item
  BY <1>1 DEF TypeOK
<1>3. ASSUME NEW r \in Active
      PROVE  /\ run'[r].stage = run[r].stage /\ run'[r].owed = run[r].owed
             /\ run'[r].alone = run[r].alone
             /\ Sound(run'[r], catalog', mapped, rows, account)
  <2> DEFINE q == run[r]
             b == q.shrunk \/ i \in catalog
             f == [q EXCEPT !.carried = @ \cap catalog', !.steady = FALSE, !.shrunk = b]
  <2>1. r \in Run /\ q \in RunState /\ run'[r] = f
    BY <1>1 DEF Active, TypeOK
  <2>2. Sound(q, catalog, mapped, rows, account)
    BY DEF Runs
  <2>3. (b <=> q.shrunk \/ i \in catalog) /\ b \in BOOLEAN
    BY <2>1 DEF RunState
  <2> HIDE DEF b
  <2>4. /\ f.stage = q.stage /\ f.cur = q.cur /\ f.fresh = q.fresh
        /\ f.kind = q.kind /\ f.prev = q.prev /\ f.offset = q.offset /\ f.more = q.more
        /\ f.batch = q.batch /\ f.seen = q.seen /\ f.items = q.items /\ f.gone = q.gone
        /\ f.news = q.news /\ f.carried = q.carried \cap catalog' /\ (f.shrunk <=> b) /\ ~f.steady
        /\ f.alone = q.alone /\ f.missed = q.missed /\ f.owed = q.owed
    BY <2>1, <2>3 DEF RunState
  <2> HIDE DEF f
  <2>5. ASSUME q.kind = "sync", ~b, NEW k \in q.carried
        PROVE  k \in q.seen \/ k \in q.batch \/ (q.more /\ Place(catalog', k) > q.offset)
    <3>1. catalog \in SUBSET catalog' /\ ~q.shrunk
      BY <1>1, <2>3, <2>5
    <3>2. k \in q.seen \/ k \in q.batch \/ (q.more /\ Place(catalog, k) > q.offset)
      BY <2>2, <2>5, <3>1 DEF Sound, Asked
    <3>3. k \in Item /\ q.offset \in Nat
      BY <2>1 DEF RunState
    <3>4. Place(catalog, k) <= Place(catalog', k)
      BY <1>2, <3>1, <3>3, PlacesGrow
    <3>5. Place(catalog, k) \in Nat
      BY <1>2, PlaceIsNat
    <3>6. Place(catalog', k) \in Nat
      <4> SUFFICES ASSUME NEW C, C \in SUBSET Item PROVE Place(C, k) \in Nat
        BY <1>2
      <4> QED BY PlaceIsNat
    <3>7. Place(catalog, k) > q.offset => Place(catalog', k) > q.offset
      BY <3>3, <3>4, <3>5, <3>6
    <3> QED BY <3>2, <3>7
  <2>6. Asked(f, catalog')
    BY <2>2, <2>4, <2>5 DEF Sound, Asked
  <2>7. Shaped(f, mapped) /\ Exact(f, catalog')
    BY <2>2, <2>4 DEF Sound, Shaped, Exact, Closing
  <2>8. ASSUME account = "live", q.alone PROVE Written(f, rows) /\ Owed(f)
    <3>1. Written(q, rows) /\ Owed(q)
      BY <2>2, <2>8 DEF Sound
    <3>2. InHand(f) = InHand(q) /\ Unsaid(f) = Unsaid(q) /\ (Closing(f) <=> Closing(q))
      BY <2>4 DEF InHand, Unsaid, Closing
    <3>3. Written(f, rows)
      BY <2>4, <3>1, <3>2 DEF Written
    <3>4. Owed(f)
      BY <2>4, <3>1, <3>2 DEF Owed
    <3> QED BY <3>3, <3>4
  <2> QED BY <2>1, <2>4, <2>6, <2>7, <2>8 DEF Sound
<1>4. Active' = Active
  <2>1. \A r \in Run \ Active : run'[r] = run[r]
    BY <1>1
  <2> QED BY <1>3, <2>1 DEF Active
<1>5. Runs'
  <2>1. \A r \in Active : Sound(run'[r], catalog', mapped', rows', account')
    BY <1>1, <1>3
  <2>2. \A r \in Active : /\ run'[r].alone => Active \subseteq {r}
                          /\ ~overlap => run'[r].alone
    BY <1>3 DEF Runs
  <2>3. told' \subseteq mapped'
    BY <1>1 DEF Runs
  <2> QED BY <1>1, <1>4, <2>1, <2>2, <2>3 DEF Runs
<1>6. Balance'
  <2>1. Unknown' = Unknown
    BY <1>1 DEF Unknown
  <2> QED BY <1>1, <1>3, <1>4, <2>1 DEF Balance
<1> QED BY <1>5, <1>6

(* The removal: a run that goes on is no longer looked at.                   *)
LEMMA RemovalKeeps ==
  ASSUME TypeOK, Runs, Balance, UNCHANGED <<catalog, mapped, run, told, stranded, overlap>>,
         account' # "live" \/ UNCHANGED <<account, rows>>
  PROVE  Runs' /\ Balance'
<1>1. Active' = Active
  BY DEF Active
<1>2. ASSUME NEW r \in Active
      PROVE  Sound(run'[r], catalog', mapped', rows', account')
  <2>1. Sound(run[r], catalog, mapped, rows, account)
    BY DEF Runs
  <2> QED BY <2>1 DEF Sound
<1>3. Runs'
  BY <1>1, <1>2 DEF Runs
<1>4. Balance'
  BY <1>1 DEF Balance, Unknown
<1> QED BY <1>3, <1>4

LEMMA RestartKeeps ==
  ASSUME TypeOK, Runs, Balance, Restart
  PROVE  Runs' /\ Balance'
<1>1. Active' = {}
  BY DEF Restart, Active, Idle
<1>2. UNCHANGED <<rows, mapped, told, overlap>> /\ (account' = "live" => account = "live")
      /\ stranded' = stranded \cup UNION {run[r].owed : r \in Run}
  BY DEF Restart, cache
<1>3. Runs'
  BY <1>1, <1>2 DEF Runs
<1>4. Balance'
  <2> SUFFICES ASSUME account = "live", ~overlap, NEW i \in Unknown' PROVE i \in stranded'
    BY <1>2 DEF Balance
  <2>1. i \in Unknown
    BY <1>2 DEF Unknown
  <2>2. i \in stranded \/ \E r \in Active : i \in run[r].owed
    BY <2>1 DEF Balance
  <2> QED BY <1>2, <2>2 DEF Active
<1> QED BY <1>3, <1>4

LEMMA RunsStep == TypeOK /\ Runs /\ Balance /\ [Next]_vars => Runs' /\ Balance'
<1> SUFFICES ASSUME TypeOK, Runs, Balance, [Next]_vars PROVE Runs' /\ Balance'
  OBVIOUS
<1>1. ASSUME NEW i \in Item, CatalogChanges(i) PROVE Runs' /\ Balance'
  BY <1>1, CatalogChangesKeeps
<1>2. ASSUME NEW r \in Run, BeginSync(r) \/ BeginSearch(r) \/ \E S \in SUBSET Item : BeginRefresh(r, S)
      PROVE  Runs' /\ Balance'
  BY <1>2, BeginsKeep
<1>3. ASSUME NEW r \in Run, EndSearch(r) \/ Finish(r) \/ Abort(r) PROVE Runs' /\ Balance'
  BY <1>3, EndsKeep
<1>4. ASSUME NEW r \in Run, RunStep(r) PROVE Runs' /\ Balance'
  <2>1. CASE FetchPage(r)
    BY <2>1, FetchPageKeeps
  <2>2. CASE Resolve(r)
    BY <2>2, ResolveKeeps
  <2>3. CASE Tell(r)
    BY <2>3, TellKeeps
  <2>4. ASSUME NEW i \in Item, Look(r, i) PROVE Runs' /\ Balance'
    BY <2>4, LookKeeps
  <2>5. ASSUME NEW i \in Item, Store(r, i) PROVE Runs' /\ Balance'
    BY <2>5, StoreKeeps
  <2>6. ASSUME NEW i \in Item, DeleteDeparted(r, i) PROVE Runs' /\ Balance'
    BY <2>6, DeleteDepartedKeeps
  <2>7. ASSUME NEW i \in Item, TellArrival(r, i) PROVE Runs' /\ Balance'
    BY <2>7, TellArrivalKeeps
  <2> QED BY <1>3, <1>4, <2>1, <2>2, <2>3, <2>4, <2>5, <2>6, <2>7 DEF RunStep
<1>5. ASSUME NEW r \in Run, NEW S \in SUBSET Item, AnswerRefresh(r, S) \/ AnswerSearch(r, S)
      PROVE  Runs' /\ Balance'
  BY <1>5, AnswerRefreshKeeps, AnswerSearchKeeps
<1>6. CASE RemoveReach \/ Unserve \/ ListRows \/ Dropped \/ DropFails
  <2>1. UNCHANGED <<catalog, mapped, run, told, stranded, overlap>> /\ account' # "live"
    BY <1>6 DEF RemoveReach, Unserve, ListRows, Dropped, DropFails, provider, cache, events
  <2> QED BY <2>1, RemovalKeeps
<1>7. ASSUME NEW k \in Item \cup {Marker}, DropRow(k) PROVE Runs' /\ Balance'
  <2>1. UNCHANGED <<catalog, mapped, run, told, stranded, overlap>> /\ account' # "live"
    BY <1>7 DEF DropRow, provider, events
  <2> QED BY <2>1, RemovalKeeps
<1>8. CASE Restart
  BY <1>8, RestartKeeps
<1>9. CASE UNCHANGED vars
  <2>1. UNCHANGED <<catalog, mapped, run, told, stranded, overlap, account, rows>>
    BY <1>9 DEF vars
  <2> QED BY <2>1, RemovalKeeps
<1> QED BY <1>1, <1>2, <1>3, <1>4, <1>5, <1>6, <1>7, <1>8, <1>9 DEF Next

LEMMA RunsInit == Init => Runs /\ Balance
<1> SUFFICES ASSUME Init PROVE Runs /\ Balance
  OBVIOUS
<1>1. Active = {}
  BY DEF Init, Active, Idle
<1> QED BY <1>1 DEF Init, Runs, Balance, Unknown

(* Listeners know what is cached: when no run is in progress, none ever      *)
(* overlapped another and the account is served, the items last announced as *)
(* present are the ones with rows, but for those whose event a failure kept  *)
(* back (sourcecache.go reconcile, notifyAvailability, RefreshItems,         *)
(* IngestItems).                                                             *)
THEOREM ToldWhatIsCachedHolds == Spec => []ToldWhatIsCached
<1>1. Balance => ToldWhatIsCached
  BY DEF Balance, Unknown, ToldWhatIsCached
<1> QED BY <1>1, TypeInit, TypeStep, RunsInit, RunsStep, PTL DEF Spec

LEMMA OnlyDepartedGo ==
  ASSUME TypeOK, Runs, [Next]_vars, NEW i \in rows \ rows'
  PROVE  \/ account = "dropping"
         \/ \E r \in Run : /\ i \in run[r].gone
                           /\ \/ i \notin run[r].carried \/ run[r].shrunk \/ i \in run[r].missed
<1>1. ASSUME NEW r \in Run, NEW k \in Item, DeleteDeparted(r, k)
      PROVE  /\ i \in run[r].gone
             /\ \/ i \notin run[r].carried \/ run[r].shrunk \/ i \in run[r].missed
  <2>1. run[r].stage = "reconciling" /\ i \in run[r].gone
    BY <1>1 DEF DeleteDeparted
  <2>2. Sound(run[r], catalog, mapped, rows, account) /\ run[r] \in RunState
    BY <2>1, RunIsSound
  <2>3. run[r].kind \in {"sync", "refresh"} /\ Closing(run[r])
    BY <2>1, <2>2 DEF Sound, Shaped, Closing, RunState
  <2>4. /\ run[r].batch = {} /\ i \notin run[r].seen /\ i \in run[r].prev
        /\ run[r].kind = "sync" => ~run[r].more
    BY <2>1, <2>2, <2>3 DEF Sound, Shaped
  <2> QED BY <2>1, <2>2, <2>3, <2>4 DEF Sound, Asked
<1>2. ASSUME NEW k \in Item, CatalogChanges(k) PROVE FALSE
  BY <1>2 DEF CatalogChanges, cache
<1>3. ASSUME NEW r \in Run, BeginSync(r) \/ BeginSearch(r) \/ \E S \in SUBSET Item : BeginRefresh(r, S)
      PROVE  FALSE
  BY <1>3 DEF BeginSync, BeginSearch, BeginRefresh, Begin, cache
<1>4. ASSUME NEW r \in Run, EndSearch(r) \/ Abort(r) \/ FetchPage(r) \/ Resolve(r) \/ Tell(r) \/ Finish(r)
      PROVE  FALSE
  <2>1. UNCHANGED rows
    BY <1>4 DEF EndSearch, Abort, FetchPage, Resolve, Tell, Finish, cache
  <2> QED BY <2>1
<1>5. ASSUME NEW r \in Run, NEW k \in Item, Look(r, k) \/ Store(r, k) \/ TellArrival(r, k) PROVE FALSE
  BY <1>5 DEF Look, Store, TellArrival, cache
<1>6. ASSUME NEW r \in Run, NEW S \in SUBSET Item, AnswerRefresh(r, S) \/ AnswerSearch(r, S) PROVE FALSE
  BY <1>6 DEF AnswerRefresh, AnswerSearch, cache
<1>7. CASE RemoveReach \/ Unserve \/ ListRows \/ Dropped \/ DropFails \/ Restart \/ UNCHANGED vars
  BY <1>7 DEF RemoveReach, Unserve, ListRows, Dropped, DropFails, Restart, cache, vars
<1>8. ASSUME NEW k \in Item \cup {Marker}, DropRow(k) PROVE account = "dropping"
  BY <1>8 DEF DropRow
<1> QED BY <1>1, <1>2, <1>3, <1>4, <1>5, <1>6, <1>7, <1>8 DEF Next, RunStep

(* No false departure: whatever runs abort or overlap, the row of an item the *)
(* provider carried since a run began is deleted by that run only if         *)
(* something left the catalogue while it was paged or the item's own lookup  *)
(* failed (the success boundary of sourcecache.go SyncAccount, and           *)
(* RefreshItems).                                                            *)
THEOREM NoFalseDepartureHolds == Spec => NoFalseDeparture
<1> DEFINE Rightly ==
      \A i \in rows \ rows' :
        \/ account = "dropping"
        \/ \E r \in Run : /\ i \in run[r].gone
                          /\ \/ i \notin run[r].carried \/ run[r].shrunk \/ i \in run[r].missed
<1>1. TypeOK /\ Runs /\ [Next]_vars => Rightly
  BY OnlyDepartedGo
<1>2. Spec => [][Rightly]_vars
  <2> HIDE DEF Rightly
  <2> QED BY <1>1, TypeInit, TypeStep, RunsInit, RunsStep, PTL DEF Spec
<1> QED BY <1>2 DEF NoFalseDeparture

LEMMA FinishLands ==
  ASSUME TypeOK, Runs, NEW r \in Run, Finish(r), run[r].alone, run[r].steady, run[r].missed = {},
         account = "live"
  PROVE  /\ rows' \subseteq mapped' \/ run[r].kind = "refresh"
         /\ IF run[r].kind = "sync" THEN rows' = catalog /\ manifest' = Cardinality(catalog)
            ELSE rows' \cap run[r].prev = catalog \cap run[r].prev
<1> DEFINE q == run[r]
<1>1. /\ q.stage = "reconciling" /\ q.gone = {} /\ UNCHANGED <<rows, mapped>>
      /\ q.kind = "sync" => manifest' = q.items
  BY DEF Finish
<1>2. q \in RunState /\ Sound(q, catalog, mapped, rows, account)
  BY <1>1, RunIsSound
<1>3. Closing(q) /\ q.kind \in {"sync", "refresh"} /\ Written(q, rows)
  BY <1>1, <1>2 DEF Sound, Shaped, Closing, RunState
<1>4. /\ q.batch = {} /\ q.seen \subseteq mapped /\ q.seen \subseteq rows
      /\ q.kind = "sync" => ~q.more
  BY <1>2, <1>3 DEF Sound, Shaped, Written
<1>5. CASE q.kind = "sync"
  <2>1. rows = q.seen
    BY <1>1, <1>3, <1>4, <1>5 DEF Written
  <2>2. q.seen = catalog /\ q.items = Cardinality(q.seen)
    BY <1>2, <1>4, <1>5 DEF Sound, Exact
  <2> QED BY <1>1, <1>4, <1>5, <2>1, <2>2
<1>6. CASE q.kind = "refresh"
  <2>1. rows \cap q.prev \subseteq q.seen
    BY <1>1, <1>3, <1>6 DEF Written
  <2>2. q.seen = q.prev \cap catalog
    BY <1>1, <1>2, <1>4, <1>6 DEF Sound, Exact
  <2> QED BY <1>1, <1>4, <1>6, <2>1, <2>2
<1> QED BY <1>3, <1>5, <1>6

(* A run that nothing disturbed lands whole: after a complete sync the rows  *)
(* are the catalogue, mapped and counted by the marker, and after a complete *)
(* refresh the items asked for have rows exactly if the provider carries     *)
(* them, whatever earlier runs left half done (sourcecache.go SyncAccount,   *)
(* RefreshItems).                                                            *)
THEOREM LandsWholeHolds == Spec => LandsWhole
<1> DEFINE Whole ==
      \A r \in Run :
        LET q == run[r] IN
        Finish(r) /\ q.alone /\ q.steady /\ q.missed = {} /\ account = "live" =>
          /\ rows' \subseteq mapped' \/ q.kind = "refresh"
          /\ IF q.kind = "sync" THEN rows' = catalog /\ manifest' = Cardinality(catalog)
             ELSE rows' \cap q.prev = catalog \cap q.prev
<1>1. TypeOK /\ Runs => Whole
  BY FinishLands
<1>2. Spec => [][Whole]_vars
  <2> HIDE DEF Whole
  <2> QED BY <1>1, TypeInit, TypeStep, RunsInit, RunsStep, PTL DEF Spec
<1> QED BY <1>2 DEF LandsWhole
=============================================================================
