----------------------------- MODULE Enrichment -----------------------------
(***************************************************************************)
(* Enrichment (core/internal/enrichment, over core/internal/metadatacache):*)
(* entries without display data are queued by library rebuilds (T1) and by *)
(* syncs that did identity work (T2); one worker drains the queue, asks    *)
(* the catalogues about each entry and keeps the record it can tell for    *)
(* certain, with an alias for every identity the record asserts.           *)
(*                                                                         *)
(* The queue is in memory. Rebuilds and syncs go on while the worker is in *)
(* the middle of an entry; only the worker writes the metadata cache.      *)
(*                                                                         *)
(* Its names differ from ItemRegistry's: IdentityProofs extends both.      *)
(***************************************************************************)
EXTENDS Identity, FiniteSets, Sequences

CONSTANTS
  Title,       \* of each entry: its kind, titles and year, as the founding item had them
  Asserted,    \* of each entry: the identities that items of it may assert
  Catalogue, Field, Nobody,
  Candidate,   \* what the catalogues know: [catalogue, ref, summary, full, asserts, fields]
  MaxFailures  \* bound (model checking only): failing calls and restarts

ASSUME EnrichmentAssumption ==
  /\ Nobody \notin Catalogue \cup Candidate \cup Id \cup Entry
  /\ \A c \in Candidate : c.catalogue \in Catalogue /\ c.ref \in Id /\ c.asserts \subseteq Id /\ c.fields \subseteq Field
  \* no two candidates look the same: the code's are a list, in which two that did would tie
  /\ \A c, d \in Candidate : c.full = d.full => c = d
  /\ \A e \in Entry : DOMAIN Title[e] = {"kind", "titles", "year", "ids", "signals"}
  /\ Asserted \in [Entry -> SUBSET Id]
  /\ MaxFailures \in Nat

VARIABLES
  claims,    \* of each entry in the registry: the identities asserted of it
  queue, seen, \* pending entries, first come first; and what Enqueue looks at to coalesce
  worker,    \* the drain job
  record,    \* of each identity that is a record's ref: who owns each field
  refOf,     \* of each identity: the ref it was linked to
  cached,    \* the derived library is cached
  missed,    \* entries a rebuild found without record and has not marked yet
  noticed,   \* entries a sync did identity work on and has not marked yet
  failures

cache == <<record, refOf>>
triggers == <<cached, missed, noticed>>
enrichmentVars == <<claims, queue, seen, worker, record, refOf, cached, missed, noticed, failures>>

First(S) == CHOOSE x \in S : TRUE \* of a list whose order does not matter
Members(s) == {s[k] : k \in DOMAIN s}
NoFields == [f \in Field |-> Nobody]
Waiting ==
  [stage |-> "idle", entry |-> Nobody, ids |-> {}, asking |-> {}, pool |-> {}, fetching |-> {},
   full |-> {}, win |-> Nobody, links |-> {}, partial |-> FALSE]

EnrichmentTypeOK ==
  /\ claims \in [Entry -> SUBSET Id]
  /\ queue \in Seq(Entry) /\ seen = Members(queue)
  /\ \A j, k \in DOMAIN queue : queue[j] = queue[k] => j = k
  /\ worker \in [stage : {"idle", "taken", "looking", "fetching", "storing", "linking", "pacing"},
                 entry : Entry \cup {Nobody}, ids : SUBSET Id, asking : SUBSET Catalogue,
                 pool : SUBSET Candidate, fetching : SUBSET Candidate, full : SUBSET Candidate,
                 win : Candidate \cup {Nobody}, links : SUBSET Id, partial : BOOLEAN]
  /\ worker.stage # "idle" => worker.entry \in Entry
  /\ worker.stage \in {"storing", "linking"} => worker.win \in Candidate
  /\ record \in [Id -> [Field -> Catalogue \cup {Nobody}]] /\ refOf \in [Id -> Id \cup {Nobody}]
  /\ cached \in BOOLEAN /\ missed \subseteq Entry /\ noticed \subseteq Entry
  /\ failures \in 0..MaxFailures

EnrichmentInit ==
  /\ claims \in [Entry -> SUBSET Id] /\ \A e \in Entry : claims[e] \subseteq Asserted[e]
  /\ queue = <<>> /\ seen = {} /\ worker = Waiting
  /\ record = [id \in Id |-> NoFields] /\ refOf = [id \in Id |-> Nobody]
  /\ cached = FALSE /\ missed = {} /\ noticed = {} /\ failures = 0

-----------------------------------------------------------------------------
(* The metadata cache.                                                     *)

Stored(ref) == record[ref] # NoFields

\* the ref behind an identity: by its alias, or by a record of its own
Resolve(id) == IF refOf[id] # Nobody THEN refOf[id] ELSE IF Stored(id) THEN id ELSE Nobody

\* some identity of the entry has a record: the library can show it
HasRecord(ids) == \E id \in ids : Resolve(id) # Nobody /\ Stored(Resolve(id))

\* a contribution claims what nobody owns and refreshes what is its own; catalogues never fight
\* over a field, and an absent one clears nothing
TakesOver(owner, catalogue) == owner \in {Nobody, catalogue}
Merge(current, c) ==
  [f \in Field |-> IF f \in c.fields /\ TakesOver(current[f], c.catalogue) THEN c.catalogue ELSE current[f]]

-----------------------------------------------------------------------------
(* The queue and its producers.                                            *)

\* an entry that is pending already is not queued again
Mark(e) ==
  /\ queue' = IF e \in seen THEN queue ELSE Append(queue, e)
  /\ seen' = seen \cup {e}

\* T1: a rebuild stores the library, then marks every entry it found no record for
Rebuild ==
  /\ ~cached /\ cached' = TRUE /\ missed' = {e \in Entry : ~HasRecord(claims[e])}
  /\ UNCHANGED <<claims, queue, seen, worker, cache, noticed, failures>>
MarkMissed(e) ==
  /\ e \in missed /\ missed' = missed \ {e} /\ Mark(e)
  /\ UNCHANGED <<claims, worker, cache, cached, noticed, failures>>

\* availability changes: the cached library goes
DropLibrary ==
  /\ cached /\ missed = {} /\ cached' = FALSE
  /\ UNCHANGED <<claims, queue, seen, worker, cache, missed, noticed, failures>>

\* T2: a sync attaches an item to the entry, then marks it; a sync that changes nothing of an
\* entry's identity marks nothing
Identify(e, id) ==
  /\ id \in Asserted[e] \ claims[e] /\ claims' = [claims EXCEPT ![e] = @ \cup {id}]
  /\ noticed' = noticed \cup {e}
  /\ UNCHANGED <<queue, seen, worker, cache, cached, missed, failures>>
MarkNoticed(e) ==
  /\ e \in noticed /\ noticed' = noticed \ {e} /\ Mark(e)
  /\ UNCHANGED <<claims, worker, cache, cached, missed, failures>>

-----------------------------------------------------------------------------
(* The worker.                                                             *)

\* a slip: the newest entry is served first
BugServed == Len(queue)
\* the oldest entry is served first
Served == 1

\* a slip: the entry counts as pending until it has been enriched
BugForget(e) == seen
\* from here on a mark queues the entry again
Forget(e) == seen \ {e}

TryNext ==
  /\ worker.stage \in {"idle", "pacing"} /\ queue # <<>>
  /\ LET e == queue[Served] IN
     /\ worker' = [Waiting EXCEPT !.stage = "taken", !.entry = e]
     /\ seen' = Forget(e)
     /\ queue' = SubSeq(queue, 1, Served - 1) \o SubSeq(queue, Served + 1, Len(queue))
  /\ UNCHANGED <<claims, cache, triggers, failures>>

\* the tick ends with an empty queue
Drained ==
  /\ worker.stage = "pacing" /\ queue = <<>> /\ worker' = Waiting
  /\ UNCHANGED <<claims, queue, seen, cache, triggers, failures>>

\* what the registry knows of the entry now; an identity that has its record ends the work, and
\* so does a failing read, but a record whose own read fails is not seen
Gather ==
  LET looking == [worker EXCEPT !.stage = "looking", !.ids = claims[worker.entry], !.asking = Catalogue]
      over == [worker EXCEPT !.stage = "pacing"] IN
  /\ worker.stage = "taken"
  /\ \/ worker' = (IF HasRecord(claims[worker.entry]) THEN over ELSE looking) /\ failures' = failures
     \/ worker' \in {over, looking} /\ failures < MaxFailures /\ failures' = failures + 1
  /\ UNCHANGED <<claims, queue, seen, cache, triggers>>

\* the evidence: the registry's Canonical, without signals
Evidence == [Title[worker.entry] EXCEPT !.ids = worker.ids, !.signals = {}]

\* an answer joins those before it
Gathered(pool, k) == pool \cup {c \in Candidate : c.catalogue = k}

\* catalogue after catalogue is asked, in their order, and one that fails is left out
Lookup(k) ==
  /\ worker.stage = "looking" /\ worker.asking # {} /\ k = First(worker.asking)
  /\ \/ /\ worker' = [worker EXCEPT !.asking = @ \ {k}, !.pool = Gathered(@, k)]
        /\ failures' = failures
     \/ /\ failures < MaxFailures /\ failures' = failures + 1
        /\ worker' = [worker EXCEPT !.asking = @ \ {k}, !.partial = TRUE]
  /\ UNCHANGED <<claims, queue, seen, cache, triggers>>

\* summaries that cannot be the title are not fetched
Passing(pool) ==
  LET kept == Screen(Evidence, {c.summary : c \in pool}) IN {c \in pool : c.summary \in kept}
ScreenPool ==
  /\ worker.stage = "looking" /\ worker.asking = {}
  /\ worker' = IF Passing(worker.pool) = {} THEN [worker EXCEPT !.stage = "pacing"]
               ELSE [worker EXCEPT !.stage = "fetching", !.fetching = Passing(worker.pool)]
  /\ UNCHANGED <<claims, queue, seen, cache, triggers, failures>>

\* the survivors are fetched in full, in the order they were listed, and one that fails is left out
Fetch(c) ==
  /\ worker.stage = "fetching" /\ worker.fetching # {} /\ c = First(worker.fetching)
  /\ \/ worker' = [worker EXCEPT !.fetching = @ \ {c}, !.full = @ \cup {c}] /\ failures' = failures
     \/ /\ failures < MaxFailures /\ failures' = failures + 1
        /\ worker' = [worker EXCEPT !.fetching = @ \ {c}, !.partial = TRUE]
  /\ UNCHANGED <<claims, queue, seen, cache, triggers>>

\* a slip: a tie goes to one of the candidates
BugAdopted(full) == {c \in full : Merges(Evidence, c.full)}
\* the one candidate that can be told for certain, if there is one
Adopted(full) ==
  LET sure == Adopt(Evidence, {c.full : c \in full}) IN {c \in full : c.full \in sure}
Choose ==
  /\ worker.stage = "fetching" /\ worker.fetching = {}
  /\ IF Adopted(worker.full) = {} THEN worker' = [worker EXCEPT !.stage = "pacing"]
     ELSE \E c \in Adopted(worker.full) : worker' = [worker EXCEPT !.stage = "storing", !.win = c]
  /\ UNCHANGED <<claims, queue, seen, cache, triggers, failures>>

\* merged into what the cache holds under the ref, or into nothing when that read fails: other
\* owners' fields are then lost; a write that fails ends the entry
Store ==
  LET c == worker.win IN
  /\ worker.stage = "storing"
  /\ \/ /\ \/ record' = [record EXCEPT ![c.ref] = Merge(@, c)] /\ failures' = failures
           \/ /\ record' = [record EXCEPT ![c.ref] = Merge(NoFields, c)]
              /\ failures < MaxFailures /\ failures' = failures + 1
        /\ worker' = [worker EXCEPT !.stage = "linking", !.links = c.asserts \ {c.ref}]
     \/ /\ failures < MaxFailures /\ failures' = failures + 1
        /\ worker' = [worker EXCEPT !.stage = "pacing"] /\ UNCHANGED record
  /\ UNCHANGED <<claims, queue, seen, refOf, triggers>>

\* every identity the record asserts leads to it; a link that fails is passed over
Link(id) ==
  /\ worker.stage = "linking" /\ id \in worker.links
  /\ worker' = [worker EXCEPT !.links = @ \ {id}]
  /\ \/ refOf' = [refOf EXCEPT ![id] = worker.win.ref] /\ failures' = failures
     \/ failures < MaxFailures /\ failures' = failures + 1 /\ UNCHANGED refOf
  /\ UNCHANGED <<claims, queue, seen, record, triggers>>

Linked ==
  /\ worker.stage = "linking" /\ worker.links = {} /\ worker' = [worker EXCEPT !.stage = "pacing"]
  /\ UNCHANGED <<claims, queue, seen, cache, triggers, failures>>

\* the instance stops anywhere: the queue is lost, the cached library may last
Restart ==
  /\ failures < MaxFailures /\ failures' = failures + 1
  /\ queue' = <<>> /\ seen' = {} /\ worker' = Waiting
  /\ missed' = {} /\ noticed' = {} /\ cached' \in {cached, FALSE}
  /\ UNCHANGED <<claims, cache>>

WorkerStep ==
  \/ TryNext \/ Drained \/ Gather \/ ScreenPool \/ Choose \/ Store \/ Linked
  \/ (\E k \in Catalogue : Lookup(k)) \/ (\E c \in Candidate : Fetch(c)) \/ (\E id \in Id : Link(id))

EnrichmentNext ==
  \/ WorkerStep
  \/ Rebuild \/ DropLibrary
  \/ \E e \in Entry : MarkMissed(e) \/ MarkNoticed(e) \/ \E id \in Id : Identify(e, id)
  \/ Restart

EnrichmentSpec == EnrichmentInit /\ [][EnrichmentNext]_enrichmentVars

\* the drain job ticks again and again, its calls return; a rebuild and a sync mark what they owe;
\* a user without a cached library asks for it some day
FairSpec ==
  /\ EnrichmentSpec /\ WF_enrichmentVars(WorkerStep) /\ WF_enrichmentVars(Rebuild)
  /\ \A e \in Entry : WF_enrichmentVars(MarkMissed(e)) /\ WF_enrichmentVars(MarkNoticed(e))

-----------------------------------------------------------------------------
(* Properties.                                                             *)

\* The candidates that the catalogues hold for the evidence at hand.
Rivals == {c \in Passing(Candidate) : Corroborated(Evidence, c.full)}

\* What is stored for an entry is never a guess: among all the candidates that pass the screen it
\* alone shares an identity with the entry - as long as every catalogue and every fetch answered
\* (engine.go, Enrich; select.go, Adopt).
TiesAbstain == worker.stage = "storing" /\ ~worker.partial => Rivals = {worker.win}

\* An entry is given up before anything is stored only for cause: when every catalogue and every
\* fetch answered, no candidate of theirs can be told for certain (engine.go, Enrich: abstained).
GivesUpForCause ==
  [][(worker.stage \in {"looking", "fetching"} /\ worker'.stage = "pacing" /\ ~worker.partial) =>
       Adopted(Passing(Candidate)) = {}]_enrichmentVars

\* Nobody jumps the queue (queue.go, Enqueue and TryNext): an entry that stays pending keeps its
\* place or moves up, and up it moves with every entry the worker takes.
NobodyIsOvertaken ==
  [][\A j \in DOMAIN queue : queue[j] \in seen' =>
       \E k \in DOMAIN queue' : queue'[k] = queue[j] /\ k <= j /\ (TryNext => k < j)]_enrichmentVars

\* One bad title cannot starve the queue (worker.go, NewWorker): every pending entry is taken up,
\* whatever fails and however often others are marked again.
NobodyStarves == \A e \in Entry : e \in seen ~> e \notin seen

\* An entry that was marked gets its record when there is one to be told for certain: calls that
\* fail, a restart and later evidence that makes a tie are the only excuses.
Tellable(e) == \E c \in Candidate : Adopt([Title[e] EXCEPT !.ids = claims[e], !.signals = {}], {d.full : d \in Candidate}) = {c.full}
MarkedGetsRecord ==
  \A e \in Entry : (e \in seen /\ Tellable(e)) ~> (HasRecord(claims[e]) \/ ~Tellable(e) \/ failures > 0)
=============================================================================
