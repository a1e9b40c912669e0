----------------------------- MODULE SourceCache -----------------------------
(***************************************************************************)
(* The source cache of one provider account: the rows the core keeps of    *)
(* what the account carries (core/internal/sourcecache/sourcecache.go), the *)
(* runs that rewrite them, the registry mappings they leave, the events    *)
(* they emit, and the removal of the account (core/app/slots.go).          *)
(*                                                                         *)
(* A library-class account is synced, page by page, at boot, when it is    *)
(* linked and on its job's cadence; a lazy one is refreshed and searched   *)
(* by users. Nothing serializes the runs of an account and every step is   *)
(* one store access, so runs interleave and each may abort between any two *)
(* steps. The provider is external: its catalogue changes at any time and  *)
(* it answers a page by its offset in the catalogue sorted by name         *)
(* (adapters/jellyfin/jellyfin.go), so items are numbered in that order.   *)
(***************************************************************************)
EXTENDS Integers, FiniteSets

CONSTANTS
  Item,       \* native ids, numbered by the names of the items
  PageSize,   \* items on a page of the provider
  Run,        \* runs that may be in progress at once
  Classes,    \* the classes of account checked
  Marker,     \* the key of the completion marker
  MaxChanges, MaxFaults \* bounds (model checking only)

RunState ==
  [kind: {"sync", "refresh", "search"},
   stage: {"idle", "fetching", "looking", "storing", "resolving", "reconciling", "telling"},
   prev: SUBSET Item,     \* the rows a sync starts from, the items a refresh asks for
   offset: Nat,           \* of the next page
   more: BOOLEAN,         \* the last page named a next one
   batch: SUBSET Item,    \* answered and not yet stored
   cur: Item,             \* the item at hand
   fresh: BOOLEAN,        \* it had no row when it was looked up
   seen: SUBSET Item, items: Nat, \* stored and resolved so far
   gone: SUBSET Item, news: SUBSET Item, \* to delete, to announce
   \* history of the run:
   carried: SUBSET Item,  \* in the catalogue ever since the run began
   shrunk: BOOLEAN, steady: BOOLEAN, \* something left the catalogue; nothing changed in it
   alone: BOOLEAN,        \* no other run overlapped
   missed: SUBSET Item,   \* lookups that failed though the item is there
   owed: SUBSET Item]     \* rows it made or deleted and has not announced

ASSUME ConstantsAssumption ==
  /\ Item \subseteq Nat /\ Item # {} /\ IsFiniteSet(Item)
  /\ PageSize \in Nat \ {0}
  /\ Classes \subseteq {"library", "lazy"}
  /\ {MaxChanges, MaxFaults} \subseteq Nat
  /\ Marker \notin Nat

VARIABLES
  class,     \* of the account
  catalog,   \* what the provider carries
  rows,      \* what the source cache holds
  mapped,    \* items the registry maps to an entry
  manifest,  \* the completion marker: the items of the last complete sync, or Marker
  account,   \* "live", then out of the library, out of its slot, being dropped, "gone"
  keys,      \* what its removal has still to delete
  told,      \* the items whose last event said present
  run,
  changes, faults,
  stranded,  \* history: items whose change a fault kept from being announced
  overlap,   \* history: two runs were in progress at once
  overrun    \* history: the removal met a run in progress, or failed

provider == <<class, catalog, changes>>
cache == <<rows, mapped, manifest>>
removal == <<account, keys, overrun>>
events == <<told, stranded>>
vars == <<class, catalog, rows, mapped, manifest, account, keys, told, run,
          changes, faults, stranded, overlap, overrun>>

TypeOK ==
  /\ class \in Classes /\ catalog \subseteq Item
  /\ rows \subseteq Item /\ mapped \subseteq Item /\ told \subseteq Item
  /\ manifest \in Nat \cup {Marker}
  /\ account \in {"live", "leaving", "unserved", "dropping", "gone"}
  /\ keys \subseteq Item \cup {Marker}
  /\ run \in [Run -> RunState]
  /\ changes \in 0..MaxChanges /\ faults \in 0..MaxFaults
  /\ stranded \subseteq Item /\ overlap \in BOOLEAN /\ overrun \in BOOLEAN

Idle ==
  [kind |-> "sync", stage |-> "idle", prev |-> {}, offset |-> 0, more |-> TRUE,
   batch |-> {}, cur |-> CHOOSE i \in Item : TRUE, fresh |-> FALSE, seen |-> {}, items |-> 0,
   gone |-> {}, news |-> {}, carried |-> {}, shrunk |-> FALSE, steady |-> TRUE,
   alone |-> TRUE, missed |-> {}, owed |-> {}]
Active == {r \in Run : run[r].stage # "idle"}

Init ==
  /\ class \in Classes /\ catalog \in SUBSET Item
  /\ rows = {} /\ mapped = {} /\ manifest = Marker
  /\ account = "live" /\ keys = {} /\ told = {}
  /\ run = [r \in Run |-> Idle]
  /\ changes = 0 /\ faults = 0
  /\ stranded = {} /\ overlap = FALSE /\ overrun = FALSE

-----------------------------------------------------------------------------
(* The provider.                                                           *)

\* external: an item joins or leaves what the account carries
CatalogChanges(i) ==
  /\ changes < MaxChanges /\ changes' = changes + 1
  /\ catalog' = IF i \in catalog THEN catalog \ {i} ELSE catalog \cup {i}
  /\ run' = [r \in Run |-> IF r \notin Active THEN run[r] ELSE
               [run[r] EXCEPT !.carried = @ \cap catalog', !.steady = FALSE,
                              !.shrunk = @ \/ i \in catalog]]
  /\ UNCHANGED <<class, cache, removal, events, faults, overlap>>

\* the items at positions offset+1 .. offset+PageSize by name
Page(offset) ==
  LET position(i) == Cardinality({j \in catalog : j <= i}) IN
  {i \in catalog : position(i) \in offset + 1 .. offset + PageSize}

\* a slip: the arithmetic is one off
BugMoreAfter(offset) == offset + Cardinality(Page(offset)) + 1 < Cardinality(catalog)
\* a next token as long as the offset arithmetic says there is more
MoreAfter(offset) ==
  Page(offset) # {} /\ offset + Cardinality(Page(offset)) < Cardinality(catalog)

-----------------------------------------------------------------------------
(* What the runs share.                                                    *)

Begin(r, q) ==
  /\ run[r].stage = "idle"
  /\ run' = [p \in Run |->
       IF p = r THEN [q EXCEPT !.stage = "fetching", !.carried = catalog, !.alone = Active = {}]
       ELSE IF p \in Active THEN [run[p] EXCEPT !.alone = FALSE] ELSE run[p]]
  /\ overlap' = (overlap \/ Active # {})
  /\ UNCHANGED <<provider, cache, removal, events, faults>>

\* a slip: reconciles after the first page
BugProceed(q) ==
  CASE q.batch # {} /\ q.kind = "sync" -> [q EXCEPT !.stage = "storing"]
    [] q.batch # {} /\ q.kind # "sync" -> [q EXCEPT !.stage = "looking"]
    [] q.batch = {} /\ q.kind = "search" -> [q EXCEPT !.stage = "fetching"]
    [] OTHER -> [q EXCEPT !.stage = "reconciling", !.gone = q.prev \ q.seen,
                          !.news = IF q.kind = "sync" THEN q.seen \ q.prev ELSE @]
\* what follows a stored item: the next one, the next page, or the reconciliation
Proceed(q) ==
  CASE q.batch # {} /\ q.kind = "sync" -> [q EXCEPT !.stage = "storing"]
    [] q.batch # {} /\ q.kind # "sync" -> [q EXCEPT !.stage = "looking"]
    [] q.batch = {} /\ (q.kind = "search" \/ (q.kind = "sync" /\ q.more)) ->
         [q EXCEPT !.stage = "fetching"]
    [] OTHER -> [q EXCEPT !.stage = "reconciling", !.gone = q.prev \ q.seen,
                          !.news = IF q.kind = "sync" THEN q.seen \ q.prev ELSE @]

\* a slip: only arrivals are announced
BugEmit(i, present) ==
  /\ told' = IF i \in mapped /\ present THEN told \cup {i} ELSE told
  /\ stranded' = stranded \ {i} /\ UNCHANGED faults
\* notifyAvailability: an item the registry does not map is skipped, and so is the event of
\* one whose lookup fails
Emit(i, present) ==
  \/ /\ told' = IF i \notin mapped THEN told ELSE IF present THEN told \cup {i} ELSE told \ {i}
     /\ stranded' = IF i \in mapped THEN stranded \ {i} ELSE stranded
     /\ UNCHANGED faults
  \/ /\ faults < MaxFaults /\ faults' = faults + 1
     /\ stranded' = stranded \cup {i} /\ UNCHANGED told

\* Get before Put: anything but a row found counts as absent
Look(r, i) ==
  LET q == run[r] IN
  /\ q.stage = "looking" /\ i \in q.batch
  /\ \/ /\ run' = [run EXCEPT ![r] = [q EXCEPT !.stage = "storing", !.cur = i, !.fresh = i \notin rows]]
        /\ UNCHANGED faults
     \/ /\ faults < MaxFaults /\ faults' = faults + 1
        /\ run' = [run EXCEPT ![r] = [q EXCEPT !.stage = "storing", !.cur = i, !.fresh = TRUE]]
  /\ UNCHANGED <<provider, cache, removal, events, overlap>>

\* a sync stores a page in the order it came, the others what they looked up
Store(r, i) ==
  LET q == run[r] IN
  /\ q.stage = "storing" /\ i \in q.batch
  /\ IF q.kind = "sync" THEN \A j \in q.batch : i <= j ELSE i = q.cur
  /\ rows' = rows \cup {i}
  /\ run' = [run EXCEPT ![r] = [q EXCEPT !.stage = "resolving", !.cur = i, !.owed = @ \cup ({i} \ rows)]]
  /\ UNCHANGED <<provider, mapped, manifest, removal, events, faults, overlap>>

\* identity resolution; a refresh remembers an arrival, a search announces it at once
Resolve(r) ==
  LET q == [run[r] EXCEPT !.batch = @ \ {run[r].cur}, !.seen = @ \cup {run[r].cur},
                          !.items = @ + 1,
                          !.news = IF run[r].kind = "refresh" /\ run[r].fresh
                                   THEN @ \cup {run[r].cur} ELSE @]
  IN
  /\ q.stage = "resolving"
  /\ mapped' = mapped \cup {q.cur}
  /\ run' = [run EXCEPT ![r] =
       IF q.kind = "search" /\ q.fresh THEN [q EXCEPT !.stage = "telling"] ELSE Proceed(q)]
  /\ UNCHANGED <<provider, rows, manifest, removal, events, faults, overlap>>

\* a slip: the row stays until the next run
BugDeleteDeparted(r, i) ==
  /\ run[r].stage = "reconciling" /\ i \in run[r].gone
  /\ run' = [run EXCEPT ![r].stage = "telling", ![r].cur = i, ![r].gone = @ \ {i}]
  /\ UNCHANGED <<provider, cache, removal, events, faults, overlap>>
\* reconciliation: what is no longer there goes, each with its event ...
DeleteDeparted(r, i) ==
  LET q == run[r] IN
  /\ q.stage = "reconciling" /\ i \in q.gone
  /\ rows' = rows \ {i}
  /\ run' = [run EXCEPT ![r] = [q EXCEPT !.stage = "telling", !.cur = i, !.gone = @ \ {i},
                                         !.owed = @ \cup ({i} \cap rows)]]
  /\ UNCHANGED <<provider, mapped, manifest, removal, events, faults, overlap>>

Tell(r) ==
  LET q == [run[r] EXCEPT !.owed = @ \ {run[r].cur}] IN
  /\ q.stage = "telling"
  /\ Emit(q.cur, q.cur \in q.seen)
  /\ run' = [run EXCEPT ![r] = IF q.kind = "search" THEN Proceed(q) ELSE [q EXCEPT !.stage = "reconciling"]]
  /\ UNCHANGED <<provider, cache, removal, overlap>>

\* ... then what is new is announced
TellArrival(r, i) ==
  LET q == run[r] IN
  /\ q.stage = "reconciling" /\ q.gone = {} /\ i \in q.news
  /\ Emit(i, TRUE)
  /\ run' = [run EXCEPT ![r] = [q EXCEPT !.news = @ \ {i}, !.owed = @ \ {i}]]
  /\ UNCHANGED <<provider, cache, removal, overlap>>

Finish(r) ==
  LET q == run[r] IN
  /\ q.stage = "reconciling" /\ q.gone = {} /\ q.news = {}
  /\ manifest' = IF q.kind = "sync" THEN q.items ELSE manifest
  /\ run' = [run EXCEPT ![r] = Idle]
  /\ UNCHANGED <<provider, rows, mapped, removal, events, faults, overlap>>

\* a slot that dropped the account answers no more pages
Refused(r) == class = "library" /\ run[r].stage = "fetching" /\ account \notin {"live", "leaving"}

\* a call that fails, an answer or an item that fails validation, an access that fails: the
\* run returns, and what it did stays. A failing resolution may have written the mapping.
Abort(r) ==
  LET q == run[r] IN
  /\ q.stage \notin {"idle", "telling"}
  /\ \/ Refused(r) /\ UNCHANGED faults
     \/ faults < MaxFaults /\ faults' = faults + 1
  /\ mapped' \in {mapped} \cup (IF q.stage = "resolving" THEN {mapped \cup {q.cur}} ELSE {})
  /\ run' = [run EXCEPT ![r] = Idle]
  /\ stranded' = stranded \cup q.owed
  /\ UNCHANGED <<provider, rows, manifest, removal, told, overlap>>

-----------------------------------------------------------------------------
(* The three kinds of run.                                                 *)

BeginSync(r) ==
  /\ class = "library" /\ account \in {"live", "leaving"}
  /\ Begin(r, [Idle EXCEPT !.prev = rows])

FetchPage(r) ==
  LET q == run[r] IN
  /\ q.stage = "fetching" /\ q.kind = "sync" /\ ~Refused(r)
  /\ run' = [run EXCEPT ![r] =
       Proceed([q EXCEPT !.batch = Page(q.offset), !.offset = @ + Cardinality(Page(q.offset)),
                       !.more = MoreAfter(q.offset)])]
  /\ UNCHANGED <<provider, cache, removal, events, faults, overlap>>

BeginRefresh(r, asked) ==
  /\ class = "lazy" /\ account = "live" /\ asked # {}
  /\ Begin(r, [Idle EXCEPT !.kind = "refresh", !.prev = asked])

\* the adapter leaves out what it could not look up, for whatever reason (stremio.go)
AnswerRefresh(r, missed) ==
  LET q == run[r] IN
  /\ q.stage = "fetching" /\ q.kind = "refresh"
  /\ missed \subseteq q.prev \cap catalog
  /\ IF missed = {} THEN UNCHANGED faults ELSE faults < MaxFaults /\ faults' = faults + 1
  /\ run' = [run EXCEPT ![r] =
       Proceed([q EXCEPT !.batch = (q.prev \cap catalog) \ missed, !.missed = missed])]
  /\ UNCHANGED <<provider, cache, removal, events, overlap>>

BeginSearch(r) ==
  /\ class = "lazy" /\ account = "live"
  /\ Begin(r, [Idle EXCEPT !.kind = "search"])

\* a page of hits, validated as a whole before it is ingested
AnswerSearch(r, hits) ==
  LET q == run[r] IN
  /\ q.stage = "fetching" /\ q.kind = "search" /\ hits # {} /\ hits \subseteq catalog
  /\ run' = [run EXCEPT ![r] = Proceed([q EXCEPT !.batch = hits, !.seen = {}, !.items = 0])]
  /\ UNCHANGED <<provider, cache, removal, events, faults, overlap>>

EndSearch(r) ==
  /\ run[r].stage = "fetching" /\ run[r].kind = "search"
  /\ run' = [run EXCEPT ![r] = Idle]
  /\ UNCHANGED <<provider, cache, removal, events, faults, overlap>>

-----------------------------------------------------------------------------
(* Removal of the account, and the end of the process.                     *)

\* the account's record is deleted, then its reach
RemoveReach ==
  /\ account = "live" /\ account' = "leaving"
  /\ UNCHANGED <<provider, cache, keys, events, run, faults, overlap, overrun>>

\* the slot forgets it and its job is retired; a run in progress goes on
Unserve ==
  /\ account = "leaving" /\ account' = "unserved"
  /\ UNCHANGED <<provider, cache, keys, events, run, faults, overlap, overrun>>

\* a slip: the marker is not listed with the rows
BugListRows ==
  /\ account = "unserved" /\ account' = "dropping"
  /\ keys' = rows
  /\ overrun' = (Active # {})
  /\ UNCHANGED <<provider, cache, events, run, faults, overlap>>
ListRows ==
  /\ account = "unserved" /\ account' = "dropping"
  /\ keys' = rows \cup (IF manifest = Marker THEN {} ELSE {Marker})
  /\ overrun' = (Active # {})
  /\ UNCHANGED <<provider, cache, events, run, faults, overlap>>

DropRow(k) ==
  /\ account = "dropping" /\ k \in keys
  /\ keys' = keys \ {k} /\ rows' = rows \ {k}
  /\ manifest' = IF k = Marker THEN Marker ELSE manifest
  /\ UNCHANGED <<provider, mapped, account, events, run, faults, overlap, overrun>>

Dropped ==
  /\ account = "dropping" /\ keys = {} /\ account' = "gone"
  /\ UNCHANGED <<provider, cache, keys, events, run, faults, overlap, overrun>>

\* a listing or a deletion fails: the caller ignores the error
DropFails ==
  /\ account \in {"unserved", "dropping"} /\ account' = "gone"
  /\ faults < MaxFaults /\ faults' = faults + 1
  /\ keys' = {} /\ overrun' = TRUE
  /\ UNCHANGED <<provider, cache, events, run, overlap>>

\* the instance stops and boots again: a durable cache keeps its rows, a removal in progress
\* is forgotten with the record it began by deleting
Restart ==
  /\ faults < MaxFaults /\ faults' = faults + 1
  /\ run' = [r \in Run |-> Idle]
  /\ stranded' = stranded \cup UNION {run[r].owed : r \in Run}
  /\ account' = IF account = "live" THEN "live" ELSE "gone"
  /\ keys' = {} /\ overrun' = (overrun \/ account \in {"leaving", "unserved", "dropping"})
  /\ UNCHANGED <<provider, cache, told, overlap>>

RunStep(r) ==
  \/ FetchPage(r) \/ Resolve(r) \/ Tell(r) \/ Finish(r)
  \/ \E i \in Item : Look(r, i) \/ Store(r, i) \/ DeleteDeparted(r, i) \/ TellArrival(r, i)

Next ==
  \/ \E i \in Item : CatalogChanges(i)
  \/ \E r \in Run : \/ BeginSync(r) \/ BeginSearch(r) \/ EndSearch(r)
                    \/ RunStep(r) \/ Abort(r)
                    \/ \E S \in SUBSET Item : \/ BeginRefresh(r, S) \/ AnswerRefresh(r, S)
                                              \/ AnswerSearch(r, S)
  \/ RemoveReach \/ Unserve \/ ListRows \/ Dropped \/ DropFails \/ Restart
  \/ \E k \in Item \cup {Marker} : DropRow(k)

Spec == Init /\ [][Next]_vars

\* the job of an account runs again on every cadence, and a run that began goes on
FairSpec ==
  Spec /\ WF_vars(\E r \in Run : BeginSync(r)) /\ \A r \in Run : WF_vars(RunStep(r))

-----------------------------------------------------------------------------
(* Properties.                                                             *)

\* A run that nothing disturbed lands whole, whatever earlier runs left half done: after a
\* complete sync the rows are the catalogue, all of them mapped, and counted by the marker;
\* after a complete refresh the items asked for have rows exactly if the provider carries them.
LandsWhole ==
  [][\A r \in Run :
       LET q == run[r] IN
       Finish(r) /\ q.alone /\ q.steady /\ q.missed = {} /\ account = "live" =>
         /\ rows' \subseteq mapped' \/ q.kind = "refresh"
         /\ IF q.kind = "sync" THEN rows' = catalog /\ manifest' = Cardinality(catalog)
            ELSE rows' \cap q.prev = catalog \cap q.prev]_vars

\* Listeners know what is cached: when no run is in progress, the items last announced as
\* present are the ones with rows, but for those a failure kept from being announced
\* (reconcile, and the arrivals of refreshes and searches). Runs that overlap do mislead them.
ToldWhatIsCached ==
  Active = {} /\ ~overlap /\ account = "live" =>
    (told \ rows) \cup (rows \ told) \subseteq stranded

\* No row of an item the provider carried all along is deleted by a run, aborted, overlapping
\* or complete, unless something left the catalogue while it was paged or the item's own
\* lookup failed (the success boundary of SyncAccount).
NoFalseDeparture ==
  [][\A i \in rows \ rows' :
       \/ account = "dropping"
       \/ \E r \in Run : /\ i \in run[r].gone
                         /\ \/ i \notin run[r].carried \/ run[r].shrunk \/ i \in run[r].missed]_vars

\* Nothing of a removed account stays: when its removal is over, no row and no marker are
\* left, unless a run was in progress when they were listed or the removal failed.
DropLeavesNothing ==
  account = "gone" /\ ~overrun => rows = {} /\ manifest = Marker

\* The cache of a library-class account heals: once faults and changes stop, the syncs of the
\* cadence make its rows the catalogue and map all of them for good, even if runs overlap.
Heals ==
  class = "library" /\ [](account = "live") => <>[](rows = catalog /\ rows \subseteq mapped)
=============================================================================
