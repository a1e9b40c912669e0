# A verification project for the ABCMovies core

TLA+ models of the core's concurrent machinery, TLC configurations that check
them on small instances, and theorems checked by TLAPS. Code paths are relative to
the repository's `core/`, documents (`docs/`) to its root; `delivery.go` alone means
`internal/delivery/delivery.go`, and so for the other packages. Numbers after a file
are its lines.

The core is one Go process. gRPC handlers, the scheduler's jobs, the enrichment
worker and the delivery watchdog share stores (SQLite and in-memory key/value
maps behind `store.Store`) and in-memory maps guarded by their own mutexes. What
makes it hard is not the data but the order of things: most operations are several
store accesses with no transaction around them, and locks are held for one map
access, not for one operation.

## 1. Inventory

| Component | State | Operations | Talks to | What is hard |
|---|---|---|---|---|
| **Delivery engine** `internal/delivery` | `sessions`, `byAccount` index, per-session status and proofs of life; relay tickets; the disk sink's files | `Start`, `Heartbeat`, `Progress`, `Complete`, four revocations, `ApplyAccountCap`, `Watch`/`sweep`, relay `Grant`/`Open`/`Revoke` | API (calls), policy and accounts (limits), jobs store and bus (`RecordJob`), relay HTTP handler | a `Start` is locked only while it counts and admits; statuses are written outside the lock; revocations, the watchdog and a cap cut overlap with every part of it |
| **Delivery wiring** `app/delivery.go`, `apiserver/server.go` | jobs store | `StartDelivery`, constraint lookup, `recordJob` | library (reach check), engine, bus | check of the reach before the start; a second, unlocked store of the job |
| **Accounts and sharing** `internal/accounts`, `apiserver/accounts.go` | records and session blobs in the vault | link, update, remove, boot | library reaches, slots, engine revocations | several stores per call, rolled back by hand; unlocked read-modify-write; restarts between steps |
| **Library service** `internal/library` | reaches; per-user cached libraries | derive, rebuild, invalidate, `AddReach`/`SetReachSharing`/`RemoveReach` | item registry, source cache, metadata cache | a rebuild from a snapshot may be stored after the sweep that should have dropped it |
| **Source cache** `internal/sourcecache` | rows and completion marker per account | `SyncAccount` (page by page, then reconcile), `RefreshItems`, `IngestItems`; rows dropped with the account | provider (pages by offset), item registry, events, account removal | every step is one store access and nothing serializes the runs of an account; the catalogue shifts between pages; a run that fails half-way has stored items whose arrival is never announced |
| **Item registry** `internal/itemregistry`, `internal/identity` | entries, index rows, mappings, aliases, generations, conflicts | `Resolve`, `Canonical` | source cache (callers), library and enrichment (readers) | one `Resolve` is many stores without a transaction, read without its lock |
| **Pacing** `internal/pacing`, `slotwiring/pacing.go` | limiter per account, governor per slot, budgets | `Limiter.Allow`, `Release`, `Governor.Allow`, `NoteError`, `NoteSuccess`, `Gate` | every provider call | a waiter that slept does not look again; old outcomes overwrite new ones; each way out of a wait must give back its place and no other |
| **Scheduler** `internal/scheduler` | job map, running workers | `Register`, `Remove`, `Run` | sync and drain jobs | registration and removal racing the start of the workers |
| **Slot registry and wiring** `internal/registry`, `internal/slotwiring`, `app/slots.go` | live slots, resolvers, the runtime's list, slot account lists | boot, `AttachAccount`, `DropAccount`, retirement | accounts, library, scheduler, adapters | five structures changed one after the other by calls that overlap; the list is read and replaced without a lock |
| **Enrichment** `internal/enrichment`, `internal/metadatacache` | coalescing queue, cached records, alias links | `Enqueue`, drain, `Enrich`, merge | catalogues, library, registry | entries marked again while they are worked on; partial answers; a queue in memory only |
| **Auth and sessions** `internal/auth`, `apiserver/auth.go` | users, tokens, cached data keys, per-user blobs | sign-up, login, mint, validate | API | check-then-put; one session lives in two stores; durability of each store is configured apart |
| **Event bus** `apiserver/bus.go` | bounded buffer per subscriber | publish, subscribe, close | everybody | streams end, hang up and are closed in any order |
| Policy, pipeline selection, live search, configuration | none | pure functions | | boundary values |
| Adapters, web frontend | caches of their own | HTTP clients, template rendering | external services | out of the core's guarantees |

Correctness, per component: the engine keeps its stream quotas, never loses a
session it must end, leaves nothing of a revoked session behind and lets no
abandoned session count for ever; the accounts never half-apply a call and the live
reach is the recorded one; a derived library never outlives the access it was
derived from; a complete sync makes the cache what the provider has and announces
every difference once; a provider item maps to one entry and its moves are on record;
pacing books balance and no caller waits for ever; a registered job has one worker and
a removed one none; linking and removing leave nothing half wired; enrichment stores no
guess and starves no entry; a session never outlives one of its halves, and what one
session wrote every other opens.

## 2. Modules

| Module | Models | Checked by | Proofs |
|---|---|---|---|
| `StreamGate` | what the engine promises about quotas: slots taken one at a time under two limits, given back in any number | through `Delivery` | in `DeliveryProofs` |
| `Delivery` | the delivery engine, its sinks, relay, watchdog and job records | `MCDelivery` | `DeliveryProofs` |
| `AccountSharing` | linked accounts: vault, reaches, slot lists, API calls, deliveries they allow and end, restarts | `MCAccountSharing` | `AccountSharingProofs` |
| `SourceCache` | the rows of one provider account: syncs, refreshes and searches against a changing catalogue, availability events, the account's removal | `MCSourceCache` | `SourceCacheProofs` |
| `LibraryCache` | the cached libraries of the users: rebuilds, sweeps, the events and edits that cause them | `MCLibraryCache` | `LibraryCacheProofs` |
| `SlotRuntime` | slots, resolvers and jobs as accounts are linked and removed, and the scheduler's workers | `MCSlotRuntime` | `SlotRuntimeProofs` |
| `Pacing` | limiters, governor and gate of one slot | `MCPacing` | `PacingProofs` |
| `Identity` | the merge rule and the choice of a candidate, as operators | through the next two | `AdoptIsCertain` in `IdentityProofs` |
| `IdentityHistory` | what the registry promises of the past: entries are never destroyed, the entries of an item only grow at the end | through `ItemRegistry` | in `IdentityProofs` |
| `ItemRegistry` | `Resolve`, write by write | `MCItemRegistry` | `IdentityProofs` |
| `Enrichment` | the queue, its two triggers, the worker and the metadata cache | `MCEnrichment` | `IdentityProofs` |
| `EventBus` | subscriptions and streams | through `AuthSession` | in `AuthSessionProofs` |
| `AuthSession` | users, sessions, key material, blobs; composed with the bus | `MCAuthSession` | `AuthSessionProofs` |

How they compose. `Delivery` refines `StreamGate` (`Gate == INSTANCE StreamGate WITH
held <- ...`): a slot is held by an active session the account index still leads to.
`ItemRegistry` refines `IdentityHistory` (`History`): the trail of an item is its aliases
followed by its mapping. `AuthSession` EXTENDS `EventBus`: a stream is opened under a
validated identity and its steps are the bus's. `ItemRegistry` and `Enrichment` share
`Identity`, as the two packages share `internal/identity`; no name of one is a name of the
other, so that one proof module extends both. Other components meet through
one visible piece of state, and each module keeps of its neighbour what it can see:
`AccountSharing` of the engine whether a session is checked, active or ended (`Delivery`
is that part in detail); `LibraryCache` of a sync when a row is stored, resolved and
announced (`SourceCache`), of an account edit the swap of the audience and its sweep
(`AccountSharing`); `SlotRuntime` of a job that it has a worker.

Operators named `Bug...` stand before the definition they belong to: a plausible slip in
that piece of code. `PROJECT.json` lists, for every property, the slip it catches.

### Delivery against the code

`call[s]` is how far the goroutine serving one `StartDelivery` has come. A session id
is used by one start.

| Model | Code |
|---|---|
| `Prepare` | `delivery.go` 228-320: manifest, constraints, id, sink - nothing locked. A failure before the sink exists leaves no trace and is not a step |
| `Admit`, `Refuse` | 322-352, one hold of the mutex. A refused start does not abort its sink |
| `MarkRunning`, `FinishMark` | 354, `sess.Status = StatusRunning` after the mutex is released. With `TornStores` the two words of a Go string are stored one after the other, as the memory model allows for an unsynchronised store |
| `StageTrack`, `StageFail`, `MenuReady` | 356-376 and the device sink's `Deliver`; a download stages nothing |
| `RenderJob`, `StoreJob` | `recordJob` in 378, in `server.go` 308 and after `Complete`: the job is rendered, then stored |
| `ProveAlive`, `Sweep`, `Tick` | `Heartbeat`/`Progress`, `sweep`, `Watch` |
| `Complete` | 591-608; the disk sink may fail to close or rename its file (`stuck`) |
| `RevokeAccount`, `RevokeAllOnAccount`, `RevokeOthersOnAccount` | 442-527, each one hold of the mutex; they differ in how they find sessions |
| `SetCap`, `CutRead`, `CutSnapshot`, `CutEvict`, `CutReturn` | the recorded cap and `ApplyAccountCap` 535-589: look once, then one hold of the mutex per victim |
| `PullOpen`, `PullEnd` | the relay checks a ticket once and then copies to the end |

Simplifications: a play uses the device sink and a download the disk sink (the
defaults of the composite factory); one pull per session; the order of equally old
victims, which the code takes from the spelling of ids, is left open; a client knows
a session only once its menu or its job is published; `Complete` comes only after
`Start` returned. `Progress`, `Complete` and `RevokeAccount` are called by tests
only, but are the engine's API and are modelled. `cancelled` is a status the code
never assigns. The two limits are looked up by account id whatever the provider, as
the code does.

### AccountSharing against the code

`call[c]` is one handler in progress: its request, the record it first read (`old`),
the one it last read (`rec`) and the fields still to store (`todo`). Every store
access is a step and may fail where `FaultSites` says so. `Read`/`WriteBack` are the
two halves of `Store.update`; `UndoOf` is what each error return of `UpdateAccount`
puts back; `Swap` is `SetReachSharing`, which swaps the reach first and returns the
error of the cache sweep after; `Unrecord`, `Unvault` are the two deletes of
`Store.Delete`, of a removal or of a failed link; `Restart` loses calls and sessions
and builds the reaches from the records, as `SetupProviders` does at boot. `Check` and
`Admit` are the two halves of `StartDelivery`. A call by anybody but the owner, a
rejected request and a failing first read change nothing and are not steps. Which
sessions a cap cut ends is left to `Delivery`. Sessions do not end by themselves
here; that only removes obligations.

### SourceCache against the code

One account; a field of `run[r]` is a local of the call in progress, or a history of it
(`carried`, `shrunk`, `steady`, `alone`, `missed`, `owed`). Every store access is a step.

| Model | Code (`sourcecache.go` unless said) |
|---|---|
| `BeginSync`, `FetchPage` | `SyncAccount` 197-221; the page is what `jellyfin.go` asks for, by offset in the catalogue sorted by name (389), and `MoreAfter` its next token (506) |
| `BeginRefresh`, `AnswerRefresh` | `RefreshItems` 313-327, from `library.go` 242; `stremio.go` 228 leaves out an item it could not look up, whatever the reason |
| `BeginSearch`, `AnswerSearch`, `EndSearch` | live search, page by page (`livesearch.go` 51-83), and `IngestItems` 280-289 |
| `Look`, `Store`, `Resolve` | 222-237, 290-309, 329-350: a sync stores without looking |
| `DeleteDeparted`, `Tell`, `TellArrival`, `Finish` | 351-366, `reconcile` 384-400 and the completion marker 251 |
| `Emit` | `notifyAvailability`: an item without a mapping, or whose lookup fails, is skipped |
| `Abort` | any error return: what the run did stays |
| `RemoveReach`, `Unserve`, `ListRows`, `DropRow`, `Dropped`, `DropFails` | `RemoveAccount` 326-338 and `SlotRuntime.DropAccount` (`slots.go` 173-195); its caller ignores the error |
| `Restart` | a durable cache keeps its rows, a run in progress is lost |

`catalog` is the provider's and changes at any time (`CatalogChanges`, external). The
items are numbered by name, so that a page is a range of positions. Simplifications:
the lookups of one refresh answer are one step; the lookup of an entry is folded into
its event; a mapping, once made, stays (the registry never unmaps); the limit of
10000 pages, the order of deletions (a Go map) and the contents of rows are left out; the
removal of an account whose slot is not live deletes no rows and is not a step.

### LibraryCache against the code

One title stands for the catalogue, so that a library is the set of its user's accounts
that carry it (its coverage row). `build[r]` is a call for a library, `sweep[w]` a sweep by
a sync or an API call, `sync[a]` what the library sees of a sync.

| Model | Code (`library.go` unless said) |
|---|---|
| `Read`, `ListAccount`, `StoreLibrary`, `ReadBack`, `BuildFails` | `Library`, `RebuildUser`: no cached library, or one that does not decode (264-269, a fault); snapshot of the reaches, account after account, the store, the re-read |
| `ListKeys`, `DropLibrary`, `SweepEnds`, `SweepFails` | `sweepUserCaches` 483: list the cached keys, look at one after the other; an error ends it |
| `SyncStores`, `SyncResolves`, `SyncDeletes`, `Publish`, `SyncAborts`, `SyncRepairs` | `SyncAccount`, and the mux that hands its event to the bus and then to `InvalidateAccount` (`slots.go` 52) |
| `AddReach`, `RemoveReach`, `SetReachSharing` | the operations of that name (136-180); `Swept` is whom the last one sweeps |
| `Restart`, `Listen` | a durable cache lasts; boot syncs run before the library is wired to their events (`slots.go` 347-349) |

`excused` is a history: the users whose library the code leaves stale (section 3). A
removed account with rows is not linked again (its id is fresh); contents and ordering of
rows are left out.

### SlotRuntime against the code

`call[c]` is one link or removal in progress. Adding a slot and its account, dropping
them, and each hold of the scheduler's lock are steps.

| Model | Code |
|---|---|
| `Boot`, `Restart` | `RouteLinkedAccounts` and `SetupProviders` (`slotwiring.go` 347, 439): every factory builds before any slot is admitted |
| `Record`, `Route`, `Admit`, `Publish`, `Schedule`, `Undo` | `LinkAccount` and `AttachAccount` (`slots.go` 143, `slotwiring.go` 131): slot of the server, the slot's account list, the reach, the job |
| `Remove`, `Unreach`, `FindSlot`, `Drop`, `Unschedule`, `Clear` | `RemoveAccount` and `DropAccount` 173-200 |
| `Count`, `Forget`, `Unresolve`, `ReadProviders`, `ReplaceProviders` | retirement of a slot without accounts, 200-219; the list is copied in one step and replaced in another |
| `RunBegin`, `RunStart`, `Register`, `Unregister` | `scheduler.go` `Run` (a copy, then each job's start), `Register`, `Remove` |

A worker's firings are the syncs of `SourceCache`; jitter and backoff are timing only.
The handshake with a provider is one step that may fail. Catalogue slots (TMDB) are wired
once and change nothing later.

### Pacing against the code

Time is relative: a lead, a wait and a backoff are the ticks left of them. The code only
ever compares such an instant with now, so time needs no bound. A sleeper may wake late.

| Model | Code (`pacing.go` unless said) |
|---|---|
| `SetBudget`, `Enter`, `ReadBudget` | `slotwiring/pacing.go`: budgets per account; the limiter made when first asked for and the budget read again for the retries, each under its own hold of the lock |
| `Ask`, `Wake`, `GiveUp`, `Release` | `Limiter.Allow` and `Release`: a full limiter is polled, a rate slot reserved and slept into |
| `Refuse`, `Pass`, `Unpark`, `LeavePark` | `Governor.Allow`: busy while in backoff, else the next slot of the provider |
| `Note`, `NoteError`, `NoteSuccess`, `Delay` | `NoteError` and `NoteSuccess`: the doubling backoff, in an integer of `Width` bits; and the retry loop of `Gate` |
| `Answer`, `HangUp`, `Tick` | external: the provider, the caller, the clock; a call may end with a deadline of the provider's client while its caller waits, which `Gate` does not retry (244) |

### ItemRegistry and Identity against the code

`Resolve` holds the registry's lock to the end and writes one thing after another; readers
take no lock. `job` is the resolve in progress, each of its writes a step: `Begin` (the
decision), `PutRecord`, `PutTitleRow`, `PutIdRow`, `Indexed`, `RecordConflict`, `PutAlias`,
`PutMapping`; `Interrupted` is a failing write or a crash before any of them.
`Identity.Merges` is `Decide` (`match.go`), and `ProofOf`, `SameProof`, `Contradicts`,
`Screen`, `Adopt` are those of `proof.go` and `select.go`. Titles are taken to be in
normal form; `normalize.go` is left out.

### Enrichment against the code

| Model | Code (`internal/enrichment`) |
|---|---|
| `Mark`, `TryNext` | `queue.go`: an entry that is pending is not queued again; taking it up forgets it |
| `Rebuild`, `MarkMissed` / `Identify`, `MarkNoticed` | the triggers: a library rebuild, and a sync that did identity work |
| `Gather`, `Lookup`, `ScreenPool`, `Fetch`, `Choose` | `Engine.Enrich`: the evidence and the identities already resolved - a failing read ends the entry, but a failing read of the record itself goes for no record (106); then catalogue after catalogue, candidate after candidate, and one that fails is left out |
| `Store`, `Link`, `Linked` | the merge into the record (ownership of fields) and the alias links (`metadatacache`); a failing read of the record goes for an empty one (175) |
| `Restart` | the queue is lost, the cached library may last |

Simplifications: the one worker puts an entry back when it finds the instance stopping
(`worker.go` 51-53), into a queue in memory that is lost with it (`Restart`); a record is
only written by catalogues on this path, so that of the two rules of `merge.go` for a
taken field (a catalogue outranks a provider, nobody else displaces anybody) only the
second can apply (`TakesOver`).

### AuthSession and EventBus against the code

`calls[c]` is the call in progress on a connection. `SignUp`, `StoreUser`, `Login`, `Mint`,
`CacheKey` are `auth.go` and `mintSession` store access by store access; `Present`,
`ForgetToken`, `ForgetKey` the validation of a token with the two deletes of an expired one
(`session.go`); a sealed key that cannot be read is an absent one (`store.go` 136); `Authorize`, `EditBlob`, `Answer`, `OpenStream`, `CloseStream` the
interceptors and handlers; `Expire` the passing of time; `Restart` keeps what `config` says
is durable and draws a new instance key unless it is pinned. Cryptography is reduced to
which key opens what. In `EventBus`, `Register`, `Unsubscribe`, `Close` are one hold of the
bus's lock each, `Publish` delivers to the subscribers it entitles or drops, `Send`,
`HangUp`, `LoopEnds` are the streaming handler's loop. `Session.Revoke` and the recovery
key have no caller and are left out.

## 3. Runs

`CHECK_DEADLOCK FALSE` everywhere: ids are used once, calls, faults, syncs and the clock
are bounded, so an instance really stops when all are spent.

| Run | Question | Bounds, and why they are enough |
|---|---|---|
| `quotas` | does concurrent admission keep the member's and the account's limit under a changing cap, never above the policy, and is every step a step of the gate (`GateSpec`)? | two starts of two members over two accounts, limits of one: one start more than fits, caps below and above the policy and changed between the read and the use. Statuses are stored whole |
| `lifecycle` | does the index lead only to live sessions (`IndexSound`); does a cut in progress mark enough, the oldest first (`CutIsOldestFirst`)? | two plays of different ages, two watchdog ticks, one cut: eviction, completion, heartbeat and revocation between any two steps |
| `liveness` | does every session stop counting (`PhantomsEnd`); does a revocation leave tickets, file, index and job consistent (`RevocationIsWhole`), and is a revoked download never delivered (`RevokedIsDiscarded`)? | one session, a play or a download of two tracks, torn statuses, nine instants, periods of two: heartbeating for ever, failed, completed or revoked at any point; obligations are stated with two watchdog periods left |
| `sharing` | after any two overlapping calls, one failing store access and one restart: do record and reach agree, are link and removal whole, does a failed edit change nothing, do sessions follow the reach, are the authorized spared? | one account, owner and guest, two calls, one delivery; a fault at the blob, the record, the wiring, the first delete or either half of any field's edit |
| `source_cache` | does an undisturbed run land whole whatever earlier ones left (`LandsWhole`), do listeners know what is cached (`ToldWhatIsCached`), does a removal leave nothing (`DropLeavesNothing`)? | two items on pages of one, so that a sync pages and the offsets shift; two catalogue changes, one failure or restart anywhere; one run at a time, of either class of account |
| `source_overlap` | can a run delete what the provider carried all along (`NoFalseDeparture`); does the cadence repair the cache for good (`Heals`)? | two syncs that overlap in every way, two items on pages of one, one catalogue change; no failures (an aborted run only leaves rows behind, which `LandsWhole` covers) |
| `library_cache` | is a stale library always one that a sweep will drop (`StaleIsSwept`), and does it go (`StaleLeaves`)? | two users, one account, one rebuild, one edit call beside the account's sync; two syncs, two edits, one fault or restart: a sweep of each kind within a build of either user |
| `slot_runtime` | do linking and removing leave nothing half wired (`LinkedIsWired`), do the three views of the slots agree (`SlotsAgree`), has each job one worker (`OneWorkerPerJob`)? | two overlapping calls over a slot of the operator, one shared by two linked accounts and a lazy one; one failing step or restart, any records at boot |
| `pacing` | do the books balance, are slots an interval apart, who can exceed a budget, do backoffs only grow on errors, does every call return (`CallsReturn`)? | two callers on any of two accounts, budgets off or with rate, one concurrent call and one retry; one hang-up; a duration of three bits overflows within the errors two callers can make |
| `item_registry` | is a mapping always backed (`ProofIsBacked`), an entry found by its identities (`ClaimsAreFound`), a move on record (`MovesAreOnRecord`), the past kept (`HistorySpec`)? | two items of two providers, four materials that corroborate, resemble, contradict or differ in kind; three entries and generations, one interruption at any write |
| `enrichment` | is nothing guessed (`TiesAbstain`), nobody starved (`NobodyStarves`), does a marked entry get its record (`MarkedGetsRecord`)? | two entries of one name gaining identities, two catalogues with three candidates of which two tie; one failing call or restart |
| `auth_session` | do the two halves of a session stay together (`NoOrphanKey`, `SessionHasKey`), do all keys of a user agree (`KeysAgree`), bus and streams (`StreamsAgree`)? | two connections, two names, two sign-ups, two tokens, buffers of one, one failing access or restart, under the shipped configuration and three durable ones |

One type invariant per module is kept in its `TypeOK`. They are theorems, and belong to no
run; those of `StreamGate` and `IdentityHistory` document the state. Three action properties
likewise belong to no run and are theorems: `NoRecordSeenIsReplaced` of `AuthSession`,
`GivesUpForCause` and `NobodyIsOvertaken` of `Enrichment`.

**What the properties exempt.** An exemption marks a place where the code promises less,
not one where the model is weak; each is a history variable that the step responsible for
it sets. Properties of single accounts' records are claimed of accounts whose calls did
not overlap (`contended`): the unlocked edits do lose updates when they do.
`SessionsFollowReach` is claimed however calls overlap. `NoFalseDeparture` exempts runs
during which something left the catalogue, because paging by offset then skips an item
that was there all along and reconciliation deletes it until the next sync (`reconcile`'s
comment, 372-373, says that a partial catalogue can never masquerade as a deletion wave).
`ToldWhatIsCached` exempts items whose event a failure lost - an aborted run announces
nothing of what it stored, and the next one finds the rows there and stays silent - and
histories with overlapping runs, which announce in the wrong order. `DropLeavesNothing`
exempts removals that met a run in progress, which stores rows again after they were
listed. `StaleIsSwept` exempts the `excused`: a rebuild that a change overtook, a sweep or
a sync that failed, an account taken out, a boot. `LinkedIsWired` and `SlotsAgree` exempt
the `exposed` servers: an account linked while the slot retires or the account is removed,
a count by a failed listing, a copy of the list put over another removal's;
`OneWorkerPerJob` exempts jobs removed between `Run`'s copy and their start.
`ClaimsAreFound` exempts entries whose writing was cut off (`torn`) and not resumed;
`TiesAbstain` and `GivesUpForCause` partial answers; `KeysAgree` names signed up twice;
`SessionHasKey` sessions a restart cut short under stores that do not all survive it.

**Fairness.**

* `Delivery`: weak fairness of `Tick` and `Sweep` and nothing else: `go eng.Watch(ctx)`
  (`app/delivery.go` 200-212) runs as long as the stack and its ticker keeps firing;
  nothing is assumed of clients, of the goroutine inside `Start`, or of revocations.
  `Watch` ticks once per session TTL and a tick nobody took is dropped, which `tickDue` (a
  one-slot channel) models.
* `SourceCache`: the account's job fires again after every run, failed or not
  (`scheduler.go` 123-147, one loop per job, backoff bounded by `backoffMax`), and a run
  that began goes on; nothing is assumed of users, of the catalogue or of removals.
  `Heals` therefore speaks of accounts never removed.
* `LibraryCache`: a sweep is a loop inside one call, and a sync that began goes on.
  Nothing makes anybody ask for a library: a stale one leaves by its sweep alone.
* `Pacing`: time passes, timers fire, and a provider's client answers or times out (each
  call of the adapters carries a deadline). Callers need not hang up. Weak fairness is
  enough: a poller of a full limiter is enabled whenever it is not full, and with the
  places given back it cannot be passed for ever by the finitely many calls there are.
* `Enrichment`: the drain job fires again and again and its calls return; a rebuild or a
  sync marks what it owes in the call it is in; a user without a cached library asks for
  it some day.

## 4. Disagreements between the code and what it says of itself

Met while modelling. The models do what the code does; those of the code that
the properties would otherwise refuse are the reason for the exemptions above.

*Delivery and sharing.*
- `Start` writes `StatusRunning` without the lock over a revocation's status
  (`delivery.go` 354); another session was admitted in its place and both are active,
  against "the limit is exact" of the admission (322).
- A session the watchdog ended (684 aborts no sink), or one revoked while its menu is
  being staged, leaves tickets that still open, where `app.go` 178 says tokens die with
  their session.
- A job rendered before a revocation is stored after the revocation's own (`server.go`
  308, 339): `GetJob` says running.
- `SetReachSharing` swaps the reach and then returns the sweep's error (`library.go` 179);
  `UpdateAccount` rolls back the record alone (`apiserver/accounts.go` 180), and a private
  account stays reachable by everyone.
- A start is refused because of a play silent beyond its window, which `docs/PLAN.md` 553
  says is "evicted rather than blocking others": the watchdog's period (633) is the TTL,
  24 h by default, the window two minutes. Revoking drops tickets, and a pull already open
  is copied to its end (`relay.go` 120), where `docs/PLAN.md` 468 says the engine "ends
  them mid-stream".
- `Complete` (599) turns a revoked session into a done one although revoked is called
  terminal (51); a start whose staging fails (370) leaves its session running and counted
  until the next sweep; the TTL counts from the creation (674), proofs of life or not,
  while `config.go` 149 speaks of "no liveness proof"; `device.go` 41 says grants are
  "re-granted" and nothing does, so they expire (68) while the play goes on;
  `ApplyAccountCap` ends sessions no longer in excess when others ended meanwhile (573); a
  recorded cap of zero means no cap (`app/delivery.go` 117), while `delivery.go` 532 says
  it ends all.
- The re-read at `apiserver/accounts.go` 166 failing leaves an edit reported as failed in
  the record; a failing second delete (`accounts.go` 299) leaves a reach no call can
  remove; a delivery checked before a narrowing and admitted after its sweep keeps playing
  (`server.go` 292).

*Source cache and library.*
- `RefreshItems` validates and stores item by item, while `sourcecache.go` 271-272 says
  every returned item is validated before any of them land.
- A rebuild overtaken by a narrowing stores its stale audience after the sweep
  (`library.go` 291); `RemoveReach` sweeps nothing (149; `docs/PLAN.md` 224); there is no
  periodic rebuild (`docs/PLAN.md` 232, `library.go` 7). Boot syncs announce to nobody, so a
  durable cache keeps what changed while the instance was down (`slots.go` 347-349), and
  the sync that repairs an aborted one announces nothing.
- `Library()` fails when a sweep lands between its store and its re-read (276); events
  reach the bus before the sweep, so that a client told of a change may read the old
  library.

*Slots and scheduler.*
- `DropAccount` takes a missing slot for "nothing to take back" (`slots.go` 175-179): when
  another removal retired it meanwhile the account stays served, its job registered and
  running. A listing that fails at 202 counts no accounts and retires a slot in use.
  `rt.Providers` is read and replaced without a lock (212-219). Linking to a server whose
  slot is gone fails until the next boot.
- A job removed between `Run`'s copy and its start runs on (`scheduler.go` 108-119).

*Pacing.*
- The concurrency of a budget is exceeded by callers that slept (`pacing.go` 75, 115-119),
  where 53-54 calls it the maximum in flight. Accounts linked at boot get the zero budget
  (`slotwiring/pacing.go` 206), a limiter keeps the budget it was made with, and a jellyfin
  account linked at run time syncs unpaced (`slotwiring.go` 131-164). The spacing is
  ignored when a rate is set; callers parked before a backoff go on into it; an old
  success clears a newer error's backoff (216); a cancelled caller's slot stays reserved.

*Registry and identity.*
- `sameIDSet` counts duplicates, though `proof.go` 35-37 says they are ignored; a change of
  signals alone is no change of proof, while the status comment of `registry.go` 55-58
  speaks of any update; identities that contradict each other merge all the same when
  title, year and a signal agree, where `docs/PLAN.md` 73 keeps them apart.
- A crash between the writes of an entry and its mapping leaves an orphan entry, one after
  a conflict was recorded records it twice; claims of an item that moved away stay.

*Enrichment.*
- A lost queue does not heal itself (`queue.go` 25-28): a durable library cache makes no
  rebuild mark the entries again. Entries without external ids can never be enriched, as
  the evidence carries no signals (`slots.go` 229-245). A failed lookup or fetch can hide a
  tie (`engine.go` 137-146); an entry that failed is not queued again; enrichment
  invalidates no cached library. A record whose read fails counts as absent (106, 175): the
  entry is looked up again, and the fields other owners had of the record are overwritten.

*Auth and bus.*
- Sign-up looks a name up and stores it in two steps and takes any failing or unreadable
  lookup for a free name (`auth.go` 81). With a generated instance key and durable users
  every name is free again after a restart, and the next sign-up replaces the record with
  its only wrapped data key; sessions minted for the earlier owner stay valid for the same
  user id.
- An expired token nobody presents again leaves its record and key for ever (`session.go`
  20 says the entry lives exactly as long as the session); a failing store of the key
  leaves a token record nobody knows; with keys in memory and tokens on disk a restart
  leaves valid tokens without keys. There is no logout. A stream outlives its token; a full
  buffer drops events silently (by design, `docs/PLAN.md` 2.4).

## 5. Proofs

Eight modules hold theorems; each EXTENDS its component (`IdentityProofs` two of them)
and is checked to the last leaf. All are for every value of the constants under the module's named assumption; what a
theorem assumes beyond it stands in its ASSUME and is said here.

`DeliveryProofs`: `TypeCorrect`, `IndexIsSound`, `RevocationIsWholeHolds`,
`RevokedIsDiscardedHolds` for every instance, torn statuses included; `ImplementsGate`
(`Spec => GateSpec`) and, through it, `MemberQuotaHolds`, `AccountQuotaHolds`,
`PolicyCeilingHolds`, assuming finitely many sessions and `~TornStores`. The first is
needed to count; the second because a session whose status is half written is not counted
by the engine, so that another can be admitted in its place: the refinement is false then,
and is not claimed. `IndexSound` is not inductive by itself. The invariant `Ind` adds to
the types that every id in use has a context (`KnownContext`), that a session not yet
admitted is in no map (`FreshUntilAdmitted`), that one admitted and not yet marked is
queued or revoked or failed, never running (`QueuedUntilMarked`), that nothing is torn when
stores are whole (`WholeStores`). `QueuedUntilMarked` carries the refinement: the late
write of `running` to a revoked session makes it active again, but the index has forgotten
it, so it takes no slot of the gate - the quota holds of the slots, not of all active
sessions. The quotas are proved of the gate's specification and carried over by the
refinement; their inductive invariant `Quotas` adds that the held slots are finite, since
the cardinality of an infinite set says nothing.
`CutIsOldestFirstHolds`, under the same two assumptions: a cut marks only sessions that
were admitted (`CutsMarkAdmitted`), and those of its snapshot that it has not marked and
that still hold a slot are within the limit and no older than any it marked
(`CutsSpare`). With torn statuses it is false: a queued
session seen half written is skipped as inactive, and runs on.

`AccountSharingProofs` (its assumption also says that the marks `Unset` and `Nothing` are
no records): `TypeCorrect`, and `SessionsFollowReachHolds` for any number of accounts,
users, calls, deliveries, restarts and failures, provided the sweep of the derived
libraries does not fail (with it the property is false, as section 4 says). `Shape` says
what a call has in hand at each of its stages. `Follows` strengthens the property: the
revocation a session without access waits for is that of the call whose sharing the reach
now has; any other pending revocation might spare it. `FreshLinks` says that a link in
progress wires an account no reach exists for.

`RecordAndReachAgreeHolds` and `FailedEditChangesNothingHolds` assume `Recoverable`: what
puts a failed call right does not fail as well. The second delete, the re-read and the
sweep have nothing that puts them right (each failing is a disagreement of section 4); a
delete of a record, a read and a write can be the rollback of another failure, so at most
one thing fails where these do. Without it both are false. The invariant is `Steady`: an
account no two calls met on (`Apart`: two in progress mark it `contended`) and no call is
at work on is `Settled` - record, reach, slot and, unless a restart cut a call, blob agree -
and a call at work on it is `InStep`, which says for each stage of a link, a removal and an
edit what it has made of the account so far: of an edit, which fields of the record are the
new ones (`Stored`) and, while it is undone, which are the old ones again (`PutBack`).

`AllOrNothingHolds` assumes only `Deletable`: edits may fail in any way and any number of
times, and so may links and removals but for their own deletes. Its invariant `Wires` looks
at presence alone (`Entire`), which an edit never changes whatever becomes of the fields
(`EditWires`). `NarrowingSparesTheAuthorizedHolds` assumes nothing: the record a call
reread is the one in the vault for as long as it swaps the reach and revokes (`Facing`).

`SourceCacheProofs`: `TypeCorrect` and `DropLeavesNothingHolds`, for any number of items,
runs, changes and failures. `Listed` adds what a removal in progress has ensured - when it
listed the keys no run was in progress, none can begin any more, and every row and the
marker are among the keys still to delete.
`ToldWhatIsCachedHolds`, `NoFalseDepartureHolds` and `LandsWholeHolds`, for any finite set
of items and any page size: `Runs` says of every run what it has in hand - of one under a
steady catalogue, that what it carried is exactly the first pages of it, of one that ran
alone, that it has written what it carried - and `Balance` that rows and announcements
differ by what a run still has to say or by what a failure or an overlap lost. The page
arithmetic is in lemmas of its own: a place is a count of items (`Place`), so that each
page extends the ones before it without a gap (`PageExtends`), the last one completes them
(`LastPage`), and while nothing leaves the catalogue an item's place never falls
(`PlacesGrow`).

`LibraryCacheProofs`: `TypeCorrect` and `StaleIsSweptHolds`, for any number of users,
accounts, rebuilds and edits. Staleness of a whole library is too coarse to be inductive:
`Covered` says of *each* account that a cached library is wrong about that a sweep still to
come names the user, and `Faithful` says of each build in progress what it has read: unless
a change overtook it, what it found and has still to list are the accounts its user
reaches now.

`SlotRuntimeProofs`: `TypeCorrect`, `OneWorkerPerJobHolds`, `SlotsAgreeHolds`, for any
number of servers, accounts and overlapping calls. For the workers: `Counted` (loops and
table agree), `Queued` (what waits to be started is not running), `LinksAreFresh` (the
account of a link in progress is known to neither scheduler nor another link, because an
id is minted once), `JobsRun`. For the slots: `Views` says that registry, resolvers and
list are nested, that each retirement under way has left the views it came past and lags
only in those it has not, and that the copy of the list it holds lacks nothing of the list
but its own slot. `LinkedIsWiredHolds` needs both: `CallsApart` says that no two calls are
at work on one account, `Wiring` what is wired of it at each stage of its call (`Halfway`)
and at rest, and `Housed` that an account with a record has its slot unless a link waits for
one - all but on the `exposed` servers.

`PacingProofs`: `TypeCorrect`, `BooksBalanceHolds`, `OnlySleepersExceedHolds`,
`SlotsAreApartHolds`, for finitely many callers and any budgets. `Entered` (a call under way
has a limiter) makes the books inductive; for the slots, `LimiterSlots` and
`GovernorSlots` bound every reservation by the next one, and steps are grouped by whether
they let somebody in or reserve a slot. `ErrorsNeverShortenBackoffHolds` (an action property,
from `BackedOff`: what is left of a backoff is at most the delay of the last error noted)
assumes `DelaysGrow`: the delays of the errors within the width of the integer are positive
and never shrink. That is arithmetic of powers and shifts, which the provers do not have,
and it is no theorem: with base 5, maximum 6 and four bits the third error waits less than
the second, as 20 becomes 4. It is true of the code's one second, thirty seconds and 64
bits (`slotwiring/pacing.go` 184) and of the run's values.

`IdentityProofs`, of the registry: `TypeCorrect`, `ProofIsBackedHolds`, `ClaimsAreFoundHolds`,
`MovesAreOnRecordHolds`, for any number of items, providers, identities and entries and
any interruptions, and `ImplementsHistory` (`Spec => HistorySpec`). `Ind` conjoins
`Backed` (the property, and that the record the job has written holds what its mapping will
be proved with),
`Indexing` (an entry's identities are indexed, or torn, or among the rows the job has still
to write), `Generations` and `OnRecord` (an alias for every generation below the mapping's,
and for the mapping's own only when the job is about to write the next). In the
refinement the write of a mapping appends to its item's trail, that of a new record
creates an entry, and no other write shows. `AdoptIsCertain` is about the choice that
registry and enrichment share (`select.go` 102-140): a candidate it returns is the only
one, none other shares an identity with the evidence, and one that shares none is the only
one that merges - for any evidence and candidates.

`IdentityProofs`, of the enrichment, which chooses by the same rule: `WorkerTypeCorrect`, `TiesAbstainHolds`,
`GivesUpForCauseHolds` and `NobodyIsOvertakenHolds`, for any entries, catalogues,
candidates, failures and restarts, under `Enrichment`'s own assumption. The types say that
the queue holds nobody twice and exactly those that count as pending. `InHand` says what
the worker has while nothing has failed: what the catalogues asked so far hold, then all
that passes the screen - the screen looks at one candidate at a time
(`ScreenedOneByOne`), so that screening the pool at the end is screening everything - and
at last the one candidate chosen. The evidence is that the worker gathered, not what the
registry says by then: syncs go on meanwhile. That the chosen one has no rival is
`AdoptIsCertain`, as without signals only an identity corroborates
(`ChosenHasNoRival`). `GivesUpForCause` and `NobodyIsOvertaken` are the safety halves of
`MarkedGetsRecord` and `NobodyStarves`: what fairness must add is that the worker runs.

`AuthSessionProofs`: `TypeCorrect`, `StreamsAgreeHolds`, `NoOrphanKeyHolds`,
`SessionHasKeyHolds`, `KeysAgreeHolds` and `NoRecordSeenIsReplacedHolds` (a record is only
ever replaced by a sign-up that did not see it), for any number of connections, names,
tokens and faults and any configurations. `Grounded` and `CallsFit` say what a call in
progress may hold; for the keys, `OneKey` says that all places that hold a user's key agree
and `Tells` that a call carries the key it was told.

Only model-checked: `PhantomsEnd`, `Heals`, `StaleLeaves`, `CallsReturn`, `NobodyStarves`
and `MarkedGetsRecord`, since liveness under fairness is out of the prover's reach. Every
other property of the runs is a theorem.

## 6. Not modelled

- Pipeline selection: a pure choice of a step chain from a manifest and a target's
  capabilities; its unit tests enumerate the cases.
- Live search beyond what it stores in the source cache: a fan-out and a merge of answers,
  without state.
- Configuration and policy parsing: strings at start-up; the numbers are CONSTANTS here.
- Cryptography of the vault and of auth beyond which key opens what.
- Adapters beyond paging and refresh answers, and the frontend: I/O against external
  services, template rendering.
- Text normalisation of titles, views and ordering of lists, log and event texts.

## 7. What is left

- Some hazards have no property, because what can go wrong there is what the code does: a
  property would have to be false. `PROJECT.json` says so at each of them (a late status
  over a revocation, tickets of a dropped session, jobs stored out of order, reaches checked
  before a start, overlapping edits of a record, overtaken rebuilds and failed sweeps, ...),
  sections 3 and 4 say what happens, and the properties beside them say what is left.
- Adapters and configuration are covered only where the core depends on them.
