---------------------------- MODULE ItemRegistry ----------------------------
(***************************************************************************)
(* The provider item registry (core/internal/itemregistry/registry.go):    *)
(* which entry of the library an item of a provider is, what proves it,    *)
(* and which entries it was before.                                        *)
(*                                                                         *)
(* Resolve holds the registry's lock to the end, so that one runs at a     *)
(* time, but it writes the entry, its index rows, the conflict, the alias  *)
(* and the mapping one after the other, without a transaction: readers     *)
(* that take no lock see every state in between, and a failing write or a  *)
(* crash leaves any of them behind for the resolve that comes next.        *)
(***************************************************************************)
EXTENDS Identity, FiniteSets, Sequences

CONSTANTS
  Item,          \* pairs of a provider and a native id
  ProviderOf,    \* the provider of each item
  Material,      \* what the provider may say of an item: see Identity
  None,          \* no entry
  MaxGeneration, MaxFaults \* bounds (model checking only)

Provider == {ProviderOf[i] : i \in Item}

\* the records that material, and what entries make of it, are made of
Known == [kind : {m.kind : m \in Material}, titles : {m.titles : m \in Material},
          year : {m.year : m \in Material}, ids : SUBSET Id,
          signals : SUBSET UNION {m.signals : m \in Material}]

ASSUME ConstantsAssumption ==
  /\ None \notin Entry
  /\ Item # {} /\ Material # {} /\ Material \subseteq Known
  /\ MaxGeneration \in Nat \ {0} /\ MaxFaults \in Nat

VARIABLES
  minted,    \* entries with a record
  entry,     \* the record of each: an item's material, its claims with their suppliers
  titleRow,  \* rows of the title index: entries listed under their title and kind
  idRow,     \* rows of the index of identities: <<id, entry>>
  mapping,   \* of each item: [entry, generation, proof]
  alias,     \* of each item and generation: the entry it belonged to
  conflicts, \* of each item and entry: records of having moved off it
  job,       \* the resolve in progress: [stage, item, material, target, rows]
  faults,
  torn       \* history: entries whose index rows a fault left incomplete

vars == <<minted, entry, titleRow, idRow, mapping, alias, conflicts, job, faults, torn>>

NoRecord == [material |-> CHOOSE m \in Material : TRUE, claims |-> {}]
NoMapping == [entry |-> None, generation |-> 0, proof |-> ProofOf(NoRecord.material)]
Idle == [stage |-> "idle", item |-> CHOOSE i \in Item : TRUE, material |-> NoRecord.material,
         target |-> None, rows |-> {}]

Generation == 1..MaxGeneration
Stage == {"idle", "record", "title", "ids", "conflict", "alias", "mapping"}
Record == [material : Known, claims : SUBSET (Id \X Provider)]
Mapping == [entry : Entry \cup {None}, generation : 0..MaxGeneration, proof : {ProofOf(m) : m \in Material}]
Job == [stage : Stage, item : Item, material : Material, target : Entry \cup {None}, rows : SUBSET Id]

TypeOK ==
  /\ minted \subseteq Entry /\ titleRow \subseteq Entry /\ idRow \subseteq Id \X Entry
  /\ entry \in [Entry -> Record]
  /\ mapping \in [Item -> Mapping]
  /\ alias \in [Item -> [Generation -> Entry \cup {None}]]
  /\ conflicts \in [Item -> [Entry -> Nat]]
  /\ job \in Job
  /\ job.stage # "idle" => job.target \in Entry /\ mapping[job.item].generation < MaxGeneration
  /\ faults \in 0..MaxFaults /\ torn \subseteq Entry

Init ==
  /\ minted = {} /\ entry = [e \in Entry |-> NoRecord]
  /\ titleRow = {} /\ idRow = {}
  /\ mapping = [i \in Item |-> NoMapping]
  /\ alias = [i \in Item |-> [g \in Generation |-> None]]
  /\ conflicts = [i \in Item |-> [e \in Entry |-> 0]]
  /\ job = Idle /\ faults = 0 /\ torn = {}

-----------------------------------------------------------------------------
(* Finding the entry.                                                      *)

Claimed(e) == {c[1] : c \in entry[e].claims}

\* an entry as the merge rule sees it: the founder's title, year and kind, what has come together
\* since of identities and signals
Canonical(e) == [entry[e].material EXCEPT !.ids = Claimed(e)]

\* entries that share an identity come before entries that share a title, and of each only those
\* the index lists; in the order of their ids, which are random
ByIdentity(m) == {e \in minted : (\E id \in m.ids : <<id, e>> \in idRow) /\ Merges(m, Canonical(e))}
ByTitle(m) ==
  {e \in minted \cap titleRow : /\ entry[e].material.kind = m.kind /\ entry[e].material.titles = m.titles
                                /\ Merges(m, Canonical(e))}
Targets(m) == IF ByIdentity(m) # {} THEN ByIdentity(m) ELSE ByTitle(m)

-----------------------------------------------------------------------------
(* Resolve.                                                                *)

\* a mapping whose proof stands is the answer; otherwise the item's entry is looked for, or minted
Begin(i, m) ==
  /\ job.stage = "idle" /\ mapping[i].generation < MaxGeneration
  /\ ~(mapping[i].entry # None /\ SameProof(mapping[i].proof, ProofOf(m)))
  /\ \E e \in IF Targets(m) # {} THEN Targets(m) ELSE Entry \ minted :
       job' = [stage |-> "record", item |-> i, material |-> m, target |-> e, rows |-> {}]
  /\ UNCHANGED <<minted, entry, titleRow, idRow, mapping, alias, conflicts, faults, torn>>

By(m, p) == m.ids \X {p}

\* directors and cast add up; of the language and the duration the first one known stays
UnionSignals(S, T) == S \cup {s \in T : s[1] \in {"director", "cast"} \/ ~\E t \in S : t[1] = s[1]}

\* a slip: a claim that stands keeps the suppliers it has
BugAbsorbed(e, m, p) ==
  [material |-> [entry[e].material EXCEPT !.signals = UnionSignals(@, m.signals)],
   claims |-> entry[e].claims \cup {c \in By(m, p) : c[1] \notin Claimed(e)}]
\* an item is absorbed: its identities with their supplier, and its signals
Absorbed(e, m, p) ==
  [material |-> [entry[e].material EXCEPT !.signals = UnionSignals(@, m.signals)],
   claims |-> entry[e].claims \cup By(m, p)]
Founded(m, p) == [material |-> m, claims |-> By(m, p)]

\* a slip: only the identities that the item brings are indexed
BugRowsOf(rec, m) == m.ids
\* an entry is indexed under all its identities each time it is written
RowsOf(rec, m) == {c[1] : c \in rec.claims}

PutRecord ==
  LET e   == job.target
      p   == ProviderOf[job.item]
      rec == IF e \in minted THEN Absorbed(e, job.material, p) ELSE Founded(job.material, p)
  IN
  /\ job.stage = "record"
  /\ entry' = [entry EXCEPT ![e] = rec] /\ minted' = minted \cup {e}
  /\ job' = [job EXCEPT !.stage = "title", !.rows = RowsOf(rec, job.material)]
  /\ UNCHANGED <<titleRow, idRow, mapping, alias, conflicts, faults, torn>>

PutTitleRow ==
  /\ job.stage = "title" /\ job' = [job EXCEPT !.stage = "ids"]
  /\ titleRow' = IF Blank \in entry[job.target].material.titles THEN titleRow ELSE titleRow \cup {job.target}
  /\ UNCHANGED <<minted, entry, idRow, mapping, alias, conflicts, faults, torn>>

PutIdRow(id) ==
  /\ job.stage = "ids" /\ id \in job.rows
  /\ idRow' = idRow \cup {<<id, job.target>>}
  /\ job' = [job EXCEPT !.rows = @ \ {id}]
  /\ UNCHANGED <<minted, entry, titleRow, mapping, alias, conflicts, faults, torn>>

Current == mapping[job.item]

\* a slip: the item is moved silently
BugSilently == IF Current.entry = None THEN "mapping" ELSE "alias"
\* a new item only needs its mapping; one that leaves its entry is put on record, and the entry
\* it had becomes an alias
AfterIndexes ==
  IF Current.entry = None THEN "mapping" ELSE IF Current.entry # job.target THEN "conflict" ELSE "alias"

Indexed ==
  /\ job.stage = "ids" /\ job.rows = {}
  /\ job' = [job EXCEPT !.stage = AfterIndexes] /\ torn' = torn \ {job.target}
  /\ UNCHANGED <<minted, entry, titleRow, idRow, mapping, alias, conflicts, faults>>

RecordConflict ==
  /\ job.stage = "conflict" /\ job' = [job EXCEPT !.stage = "alias"]
  /\ conflicts' = [conflicts EXCEPT ![job.item][Current.entry] = @ + 1]
  /\ UNCHANGED <<minted, entry, titleRow, idRow, mapping, alias, faults, torn>>

\* a slip: the alias names the entry the item has now
BugSuperseded == job.target
Superseded == Current.entry

PutAlias ==
  /\ job.stage = "alias" /\ job' = [job EXCEPT !.stage = "mapping"]
  /\ alias' = [alias EXCEPT ![job.item][Current.generation] = Superseded]
  /\ UNCHANGED <<minted, entry, titleRow, idRow, mapping, conflicts, faults, torn>>

PutMapping ==
  /\ job.stage = "mapping" /\ job' = Idle
  /\ mapping' = [mapping EXCEPT ![job.item] =
                   [entry |-> job.target, generation |-> Current.generation + 1, proof |-> ProofOf(job.material)]]
  /\ UNCHANGED <<minted, entry, titleRow, idRow, alias, conflicts, faults, torn>>

\* a write fails and the resolve with it, or the instance stops: the lock is free again, what was
\* written stays
Interrupted ==
  /\ job.stage # "idle" /\ faults < MaxFaults /\ faults' = faults + 1
  /\ job' = Idle
  /\ torn' = IF job.stage \in {"title", "ids"} THEN torn \cup {job.target} ELSE torn
  /\ UNCHANGED <<minted, entry, titleRow, idRow, mapping, alias, conflicts>>

Next ==
  \/ \E i \in Item, m \in Material : Begin(i, m)
  \/ PutRecord \/ PutTitleRow \/ (\E id \in Id : PutIdRow(id)) \/ Indexed
  \/ RecordConflict \/ PutAlias \/ PutMapping
  \/ Interrupted

Spec == Init /\ [][Next]_vars

-----------------------------------------------------------------------------
(* Properties.                                                             *)

\* At every moment, also between the writes of a resolve and after one that was cut off, an item
\* leads to an entry of its own kind that names the item's provider for every identity the item
\* proved itself with: a library rebuild, which looks mappings up without the lock, never follows
\* a mapping to nothing, and its coverage verdict "corroborated" has a supplier to show for it
\* (registry.go, Resolve; library.go, RebuildUser).
ProofIsBacked ==
  \A i \in Item : mapping[i].entry # None =>
    /\ mapping[i].entry \in minted
    /\ entry[mapping[i].entry].material.kind = mapping[i].proof.kind
    /\ mapping[i].proof.ids \X {ProviderOf[i]} \subseteq entry[mapping[i].entry].claims

\* An entry whose writing was not cut off since is found again by each of its identities, also by
\* those whose row an earlier resolve failed to write (putEntry): a second item with the identity
\* joins the entry instead of founding a twin.
ClaimsAreFound ==
  \A e \in minted \ torn :
    (e = job.target => job.stage \notin {"title", "ids"}) => \A id \in Claimed(e) : <<id, e>> \in idRow

At(i, g) == IF g = mapping[i].generation THEN mapping[i].entry ELSE alias[i][g]

\* the generations at which an item left an entry
Moves(i, e) == {g \in 1..(mapping[i].generation - 1) : At(i, g) = e /\ At(i, g + 1) # e}

\* An item never moves from one entry to another without a conflict record for the move (Resolve;
\* docs/PLAN.md 5.3, "never silently remapped"), wherever a resolve was cut off.
MovesAreOnRecord ==
  \A i \in Item, e \in Entry : conflicts[i][e] >= Cardinality(Moves(i, e))

\* The entries an item has belonged to are a list that only grows, and every entry on it can still
\* be read: each generation before the current one has its alias, and no retry after a fault
\* rewrites one (the aliases of docs/PLAN.md 2.3, "never destroyed").
Trail == [i \in Item |-> [g \in 1..mapping[i].generation |-> At(i, g)]]
History == INSTANCE IdentityHistory WITH known <- minted, trail <- Trail
HistorySpec == History!Spec

=============================================================================
