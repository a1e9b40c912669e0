----------------------------- MODULE IdentityProofs -----------------------------
(* Theorems about the item registry and the enrichment, which choose by    *)
(* the same rule: for every set of items, providers, identities and        *)
(* entries, any number of interrupted resolves, any catalogues and what    *)
(* they know, and any calls that fail.                                     *)
EXTENDS ItemRegistry, Enrichment, TLAPS, FiniteSetTheorems, SequenceTheorems

LEMMA Constants ==
  /\ None \notin Entry /\ MaxGeneration \in Nat \ {0} /\ MaxFaults \in Nat
  /\ \A m \in Material : m \in Known /\ m.ids \subseteq Id
  /\ NoRecord \in Record /\ NoRecord.claims = {}
  /\ NoMapping \in Mapping /\ NoMapping.entry = None /\ NoMapping.generation = 0
  /\ Idle \in Job /\ Idle.stage = "idle" /\ Idle.target = None
<1>1. /\ None \notin Entry /\ MaxGeneration \in Nat \ {0} /\ MaxFaults \in Nat
      /\ \A m \in Material : m \in Known /\ m.ids \subseteq Id
  BY ConstantsAssumption DEF Known
<1>2. (CHOOSE m \in Material : TRUE) \in Material /\ (CHOOSE i \in Item : TRUE) \in Item
  BY ConstantsAssumption
<1>3. NoRecord \in Record /\ NoRecord.claims = {} /\ NoRecord.material \in Material
  BY <1>1, <1>2 DEF NoRecord, Record
<1>4. NoMapping \in Mapping /\ NoMapping.entry = None /\ NoMapping.generation = 0
  BY <1>1, <1>3 DEF NoMapping, Mapping
<1>5. Idle \in Job /\ Idle.stage = "idle" /\ Idle.target = None
  BY <1>2, <1>3 DEF Idle, Job, Stage
<1>. QED  BY <1>1, <1>3, <1>4, <1>5

LEMMA ProofFields ==
  ASSUME NEW m \in Material
  PROVE  ProofOf(m).kind = m.kind /\ ProofOf(m).ids = m.ids
BY DEF ProofOf

(* The two records a resolve may write.                                    *)
LEMMA WrittenRecord ==
  ASSUME TypeOK, job.stage = "record"
  PROVE  /\ Absorbed(job.target, job.material, ProviderOf[job.item]) \in Record
         /\ Founded(job.material, ProviderOf[job.item]) \in Record
<1> DEFINE e == job.target
           m == job.material
           p == ProviderOf[job.item]
<1>1. e \in Entry /\ m \in Material /\ m \in Known /\ m.ids \subseteq Id /\ p \in Provider /\ entry[e] \in Record
  BY Constants DEF TypeOK, Job, Provider
<1>2. By(m, p) \subseteq Id \X Provider
  BY <1>1 DEF By
<1>3. UnionSignals(entry[e].material.signals, m.signals) \subseteq UNION {n.signals : n \in Material}
  BY <1>1 DEF Record, Known, UnionSignals
<1>4. [entry[e].material EXCEPT !.signals = UnionSignals(@, m.signals)] \in Known
  BY <1>1, <1>3 DEF Record, Known
<1>. QED  BY <1>1, <1>2, <1>4 DEF Absorbed, Founded, Record

LEMMA PutRecordFacts ==
  ASSUME TypeOK, PutRecord
  PROVE  \E rec \in Record :
           /\ rec = IF job.target \in minted THEN Absorbed(job.target, job.material, ProviderOf[job.item])
                    ELSE Founded(job.material, ProviderOf[job.item])
           /\ entry' = [entry EXCEPT ![job.target] = rec] /\ minted' = minted \cup {job.target}
           /\ job' = [job EXCEPT !.stage = "title", !.rows = {c[1] : c \in rec.claims}]
BY WrittenRecord DEF PutRecord, RowsOf

-----------------------------------------------------------------------------
(* Types.                                                                  *)

LEMMA OneMoreIn ==
  ASSUME NEW S, NEW f \in [S -> Nat], NEW x
  PROVE  [f EXCEPT ![x] = @ + 1] \in [S -> Nat]
<1> DEFINE g == [f EXCEPT ![x] = @ + 1]
<1> SUFFICES g \in [S -> Nat]
  OBVIOUS
<1>1. ASSUME NEW y \in S PROVE g[y] \in Nat
  <2>1. CASE x = y
    BY <2>1
  <2>2. CASE x # y
    BY <2>2
  <2>. QED  BY <2>1, <2>2
<1>2. g = [y \in S |-> g[y]]
  OBVIOUS
<1>. HIDE DEF g
<1>. QED  BY <1>1, <1>2

LEMMA TypeStep == TypeOK /\ [Next]_vars => TypeOK'
<1> SUFFICES ASSUME TypeOK, [Next]_vars PROVE TypeOK'
  OBVIOUS
<1>1. ASSUME NEW i \in Item, NEW m \in Material, Begin(i, m) PROVE TypeOK'
  <2>1. \A e \in Targets(m) : e \in Entry
    BY DEF TypeOK, Targets, ByIdentity, ByTitle
  <2>. QED  BY <1>1, <2>1 DEF TypeOK, Begin, Job, Stage
<1>2. CASE PutRecord
  <2>1. PICK rec \in Record : /\ entry' = [entry EXCEPT ![job.target] = rec] /\ minted' = minted \cup {job.target}
                              /\ job' = [job EXCEPT !.stage = "title", !.rows = {c[1] : c \in rec.claims}]
    BY <1>2, PutRecordFacts
  <2>2. job.target \in Entry
    BY <1>2 DEF TypeOK, PutRecord
  <2>3. {c[1] : c \in rec.claims} \subseteq Id
    BY DEF Record
  <2>4. job' \in Job /\ job'.target \in Entry
    BY <2>1, <2>2, <2>3 DEF TypeOK, Job, Stage
  <2>. QED  BY <1>2, <2>1, <2>2, <2>4 DEF TypeOK, PutRecord
<1>3. CASE PutTitleRow
  BY <1>3 DEF TypeOK, PutTitleRow, Job, Stage
<1>4. ASSUME NEW id \in Id, PutIdRow(id) PROVE TypeOK'
  <2>1. job.target \in Entry /\ <<id, job.target>> \in Id \X Entry
    BY <1>4 DEF TypeOK, PutIdRow
  <2>2. idRow' \subseteq Id \X Entry
    BY <1>4, <2>1 DEF TypeOK, PutIdRow
  <2>3. job' \in Job /\ job'.target \in Entry
    BY <1>4, <2>1 DEF TypeOK, PutIdRow, Job
  <2>. QED  BY <1>4, <2>2, <2>3 DEF TypeOK, PutIdRow
<1>5. CASE Indexed
  BY <1>5 DEF TypeOK, Indexed, AfterIndexes, Job, Stage
<1>6. CASE RecordConflict
  <2>1. Current \in Mapping
    BY DEF TypeOK, Current, Job
  <2>2. conflicts' \in [Item -> [Entry -> Nat]]
    <3> DEFINE row == [conflicts[job.item] EXCEPT ![Current.entry] = @ + 1]
    <3>1. job.item \in Item /\ conflicts[job.item] \in [Entry -> Nat]
      BY DEF TypeOK, Job
    <3>2. row \in [Entry -> Nat]
      BY <3>1, OneMoreIn
    <3>3. conflicts' = [conflicts EXCEPT ![job.item] = row]
      BY <1>6 DEF RecordConflict
    <3>. QED  BY <3>1, <3>2, <3>3 DEF TypeOK
  <2>. QED  BY <1>6, <2>2 DEF TypeOK, RecordConflict, Job, Stage
<1>7. CASE PutAlias
  <2>1. Current \in Mapping
    BY DEF TypeOK, Current, Job
  <2>2. alias' \in [Item -> [Generation -> Entry \cup {None}]]
    BY <1>7, <2>1 DEF TypeOK, PutAlias, Superseded, Job, Mapping
  <2>. QED  BY <1>7, <2>2 DEF TypeOK, PutAlias, Job, Stage
<1>8. CASE PutMapping
  <2>0. Current \in Mapping /\ Current.generation < MaxGeneration /\ job.target \in Entry
    BY <1>8 DEF TypeOK, PutMapping, Current, Job
  <2>1. Current.generation + 1 \in 0..MaxGeneration
    BY <2>0, Constants DEF Mapping
  <2>2. ProofOf(job.material) \in {ProofOf(m) : m \in Material}
    BY DEF TypeOK, Job
  <2> DEFINE next == [entry |-> job.target, generation |-> Current.generation + 1, proof |-> ProofOf(job.material)]
  <2>3. next \in Mapping
    BY <2>0, <2>1, <2>2 DEF Mapping
  <2>4. mapping' = [mapping EXCEPT ![job.item] = next]
    BY <1>8 DEF PutMapping
  <2>. HIDE DEF next
  <2>. QED  BY <1>8, <2>3, <2>4, Constants DEF TypeOK, PutMapping
<1>9. CASE Interrupted
  BY <1>9, Constants DEF TypeOK, Interrupted, Job, Stage
<1>10. CASE UNCHANGED vars
  BY <1>10 DEF TypeOK, vars
<1>. QED  BY <1>1, <1>2, <1>3, <1>4, <1>5, <1>6, <1>7, <1>8, <1>9, <1>10 DEF Next

-----------------------------------------------------------------------------
(***************************************************************************)
(* The inductive invariant.                                                *)

Kept(e, m, p) == entry[e].material.kind = m.kind /\ By(m, p) \subseteq entry[e].claims

\* what proves a mapping is in the record of its entry, and what the resolve in progress is about
\* to prove its mapping with is in the record of the entry it found
Backed ==
  /\ ProofIsBacked
  /\ job.stage = "record" /\ job.target \in minted => entry[job.target].material.kind = job.material.kind
  /\ job.stage \notin {"idle", "record"} =>
       job.target \in minted /\ Kept(job.target, job.material, ProviderOf[job.item])

\* the index rows an entry lacks are those its resolve has still to write
Indexing ==
  /\ ClaimsAreFound
  /\ job.stage = "title" => Claimed(job.target) \subseteq job.rows
  /\ job.stage = "ids" => \A id \in Claimed(job.target) : id \in job.rows \/ <<id, job.target>> \in idRow

\* an item has an entry from its first generation on, and each earlier one its alias; when the
\* mapping is written its alias is there
Generations ==
  /\ \A i \in Item : mapping[i].entry = None <=> mapping[i].generation = 0
  /\ \A i \in Item : \A g \in 1..(mapping[i].generation - 1) : alias[i][g] \in minted
  /\ job.stage = "conflict" => Current.entry \notin {None, job.target}
  /\ job.stage = "alias" => Current.entry # None
  /\ job.stage = "mapping" /\ Current.entry # None => alias[job.item][Current.generation] = Current.entry

\* the move that the resolve in progress is about to make is on record already
OnRecord ==
  /\ MovesAreOnRecord
  /\ job.stage \in {"alias", "mapping"} /\ Current.entry \notin {None, job.target} =>
       conflicts[job.item][Current.entry] >= Cardinality(Moves(job.item, Current.entry)) + 1

Ind == TypeOK /\ Backed /\ Indexing /\ Generations /\ OnRecord

LEMMA IndInit == Init => Ind
<1> SUFFICES ASSUME Init PROVE Ind
  OBVIOUS
<1>1. TypeOK
  BY Constants DEF Init, TypeOK, Generation
<1>2. Backed /\ Indexing /\ Generations
  BY Constants DEF Init, Backed, ProofIsBacked, Indexing, ClaimsAreFound, Generations
<1>3. OnRecord
  <2>1. ASSUME NEW i \in Item, NEW e \in Entry PROVE Cardinality(Moves(i, e)) = 0
    <3>1. mapping[i].generation = 0
      BY Constants DEF Init
    <3>2. Moves(i, e) = {}
      BY <3>1 DEF Moves
    <3>. QED  BY <3>2, FS_EmptySet
  <2>. QED  BY <2>1, Constants DEF Init, OnRecord, MovesAreOnRecord
<1>. QED  BY <1>1, <1>2, <1>3 DEF Ind

-----------------------------------------------------------------------------
(* What a mapping rests on.                                                *)

LEMMA BackedStep == TypeOK /\ TypeOK' /\ Backed /\ [Next]_vars => Backed'
<1> SUFFICES ASSUME TypeOK, TypeOK', Backed, [Next]_vars PROVE Backed'
  OBVIOUS
<1>1. ASSUME NEW i \in Item, NEW m \in Material, Begin(i, m) PROVE Backed'
  <2>1. \A e \in Targets(m) : entry[e].material.kind = m.kind
    BY DEF Targets, ByIdentity, ByTitle, Merges, Corroborated, Alike, Canonical, TypeOK, Record, Known
  <2>2. job'.target \in minted => entry[job'.target].material.kind = m.kind
    BY <1>1, <2>1 DEF Begin
  <2>. QED  BY <1>1, <2>2 DEF Begin, Backed, ProofIsBacked
<1>2. CASE PutRecord
  <2> DEFINE p == ProviderOf[job.item]
  <2>1. PICK rec \in Record :
           /\ rec = IF job.target \in minted THEN Absorbed(job.target, job.material, p) ELSE Founded(job.material, p)
           /\ entry' = [entry EXCEPT ![job.target] = rec] /\ minted' = minted \cup {job.target}
           /\ job' = [job EXCEPT !.stage = "title", !.rows = {c[1] : c \in rec.claims}]
    BY <1>2, PutRecordFacts
  <2>2. job.target \in Entry /\ job'.target = job.target /\ job'.material = job.material /\ job'.item = job.item
        /\ job'.stage = "title" /\ entry'[job.target] = rec /\ job.stage = "record"
    BY <1>2, <2>1 DEF TypeOK, Job, PutRecord
  <2>3. /\ rec.material.kind = job.material.kind /\ By(job.material, p) \subseteq rec.claims
        /\ job.target \in minted => entry[job.target].claims \subseteq rec.claims
    BY <2>1, <2>2 DEF Backed, Absorbed, Founded, TypeOK, Record, Known
  <2>4. ASSUME NEW e \in minted
        PROVE  /\ e \in minted' /\ entry'[e].material.kind = entry[e].material.kind
               /\ entry[e].claims \subseteq entry'[e].claims
    BY <2>1, <2>2, <2>3 DEF TypeOK, Backed
  <2>5. ProofIsBacked'
    BY <1>2, <2>4 DEF PutRecord, Backed, ProofIsBacked
  <2>. QED  BY <2>1, <2>2, <2>3, <2>5 DEF Backed, Kept
<1>3. CASE PutTitleRow
  BY <1>3 DEF PutTitleRow, Backed, ProofIsBacked, Kept, TypeOK, Job
<1>4. ASSUME NEW id \in Id, PutIdRow(id) PROVE Backed'
  BY <1>4 DEF PutIdRow, Backed, ProofIsBacked, Kept, TypeOK, Job
<1>5. CASE Indexed
  BY <1>5 DEF Indexed, AfterIndexes, Backed, ProofIsBacked, Kept, TypeOK, Job
<1>6. CASE RecordConflict
  BY <1>6 DEF RecordConflict, Backed, ProofIsBacked, Kept, TypeOK, Job
<1>7. CASE PutAlias
  BY <1>7 DEF PutAlias, Backed, ProofIsBacked, Kept, TypeOK, Job
<1>8. CASE PutMapping
  <2> DEFINE next == [entry |-> job.target, generation |-> Current.generation + 1, proof |-> ProofOf(job.material)]
  <2>1. mapping' = [mapping EXCEPT ![job.item] = next] /\ job' = Idle /\ UNCHANGED <<minted, entry>>
    BY <1>8 DEF PutMapping
  <2>2. /\ job.target \in minted /\ entry[job.target].material.kind = next.proof.kind
        /\ next.proof.ids \X {ProviderOf[job.item]} \subseteq entry[job.target].claims
    BY <1>8, ProofFields DEF PutMapping, Backed, Kept, By, TypeOK, Job
  <2>3. next.entry = job.target
    OBVIOUS
  <2>. HIDE DEF next
  <2>4. ProofIsBacked'
    BY <2>1, <2>2, <2>3 DEF ProofIsBacked, Backed, TypeOK
  <2>. QED  BY <2>1, <2>4, Constants DEF Backed
<1>9. CASE Interrupted
  BY <1>9, Constants DEF Interrupted, Backed, ProofIsBacked
<1>10. CASE UNCHANGED vars
  BY <1>10 DEF vars, Backed, ProofIsBacked, Kept
<1>. QED  BY <1>1, <1>2, <1>3, <1>4, <1>5, <1>6, <1>7, <1>8, <1>9, <1>10 DEF Next

-----------------------------------------------------------------------------
(* What is found again.                                                    *)

LEMMA IndexingStep == TypeOK /\ Indexing /\ [Next]_vars => Indexing'
<1> SUFFICES ASSUME TypeOK, Indexing, [Next]_vars PROVE Indexing'
  OBVIOUS
<1> USE DEF Indexing, ClaimsAreFound, Claimed
<1>1. ASSUME NEW i \in Item, NEW m \in Material, Begin(i, m) PROVE Indexing'
  BY <1>1 DEF Begin
<1>2. CASE PutRecord
  <2>1. PICK rec \in Record :
           /\ entry' = [entry EXCEPT ![job.target] = rec] /\ minted' = minted \cup {job.target}
           /\ job' = [job EXCEPT !.stage = "title", !.rows = {c[1] : c \in rec.claims}]
    BY <1>2, PutRecordFacts
  <2>2. job'.target = job.target /\ job'.stage = "title" /\ job.target \in Entry /\ job'.rows = {c[1] : c \in rec.claims}
        /\ entry'[job.target] = rec
    BY <1>2, <2>1 DEF TypeOK, Job, PutRecord
  <2>3. \A e \in Entry : e # job.target => entry'[e] = entry[e] /\ (e \in minted' => e \in minted)
    BY <2>1 DEF TypeOK
  <2>4. ClaimsAreFound'
    BY <1>2, <2>1, <2>2, <2>3 DEF PutRecord, TypeOK
  <2>. QED  BY <2>2, <2>4
<1>3. CASE PutTitleRow
  BY <1>3 DEF PutTitleRow, TypeOK, Job
<1>4. ASSUME NEW id \in Id, PutIdRow(id) PROVE Indexing'
  BY <1>4 DEF PutIdRow, TypeOK, Job
<1>5. CASE Indexed
  BY <1>5 DEF Indexed, AfterIndexes, TypeOK, Job
<1>6. CASE RecordConflict
  BY <1>6 DEF RecordConflict, TypeOK, Job
<1>7. CASE PutAlias
  BY <1>7 DEF PutAlias, TypeOK, Job
<1>8. CASE PutMapping
  BY <1>8, Constants DEF PutMapping
<1>9. CASE Interrupted
  BY <1>9, Constants DEF Interrupted
<1>10. CASE UNCHANGED vars
  BY <1>10 DEF vars
<1>. QED  BY <1>1, <1>2, <1>3, <1>4, <1>5, <1>6, <1>7, <1>8, <1>9, <1>10 DEF Next

-----------------------------------------------------------------------------
(* The past.                                                               *)

(* A step that writes no mapping keeps every item's trail, an alias of the *)
(* current generation being no part of it yet.                             *)
LEMMA TrailKept ==
  ASSUME TypeOK, Generations, [Next]_vars, ~PutMapping
  PROVE  /\ mapping' = mapping
         /\ \A i \in Item : \A g \in 1..mapping[i].generation : At(i, g)' = At(i, g)
<1>1. CASE PutAlias
  <2>1. \A i \in Item : \A g \in Generation : alias'[i][g] # alias[i][g] => i = job.item /\ g = Current.generation
    BY <1>1 DEF PutAlias, TypeOK
  <2>2. \A i \in Item : mapping[i].generation \in 0..MaxGeneration
    BY DEF TypeOK, Mapping
  <2>. QED  BY <1>1, <2>1, <2>2, Constants DEF PutAlias, At, Generation, Current
<1>2. CASE ~PutAlias
  <2>1. mapping' = mapping /\ alias' = alias
    BY <1>2 DEF Next, Begin, PutRecord, PutTitleRow, PutIdRow, Indexed, RecordConflict, Interrupted, vars
  <2>. QED  BY <2>1 DEF At
<1>. QED  BY <1>1, <1>2

(* Writing the mapping adds the entry found to the item's trail.           *)
LEMMA TrailGrows ==
  ASSUME TypeOK, Generations, PutMapping, NEW it, it = job.item, NEW n, n = Current.generation
  PROVE  /\ n \in Nat /\ it \in Item /\ job.target \in Entry
         /\ mapping' = [mapping EXCEPT ![it] =
                          [entry |-> job.target, generation |-> n + 1, proof |-> ProofOf(job.material)]]
         /\ mapping'[it].generation = n + 1
         /\ At(it, n + 1)' = job.target
         /\ \A i \in Item : i # it => mapping'[i] = mapping[i]
         /\ \A i \in Item : \A g \in 1..mapping[i].generation : At(i, g)' = At(i, g)
<1>1. n \in Nat /\ it \in Item /\ job.target \in Entry
  BY DEF TypeOK, PutMapping, Current, Job, Mapping
<1>2. mapping' = [mapping EXCEPT ![it] =
                          [entry |-> job.target, generation |-> n + 1, proof |-> ProofOf(job.material)]]
      /\ alias' = alias
  BY DEF PutMapping
<1>3. mapping'[it].generation = n + 1 /\ mapping'[it].entry = job.target
  BY <1>1, <1>2 DEF TypeOK
<1>4. \A i \in Item : i # it => mapping'[i] = mapping[i]
  BY <1>2 DEF TypeOK
<1>5. ASSUME NEW i \in Item, NEW g \in 1..mapping[i].generation PROVE At(i, g)' = At(i, g)
  <2>1. CASE i # it
    BY <1>2, <1>4, <2>1 DEF At
  <2>2. CASE i = it
    <3>1. Current.entry # None
      BY <2>2, <1>1 DEF Generations, Current
    <3>2. alias[i][n] = mapping[i].entry
      BY <3>1, <2>2 DEF Generations, PutMapping, Current
    <3>. QED  BY <1>1, <1>2, <1>3, <2>2, <3>2 DEF At, Current
  <2>. QED  BY <2>1, <2>2
<1>6. At(it, n + 1)' = job.target
  BY <1>3 DEF At
<1>. QED  BY <1>1, <1>2, <1>3, <1>4, <1>5, <1>6

LEMMA GenerationsStep == TypeOK /\ TypeOK' /\ Backed /\ Generations /\ [Next]_vars => Generations'
<1> SUFFICES ASSUME TypeOK, TypeOK', Backed, Generations, [Next]_vars PROVE Generations'
  OBVIOUS
<1> USE DEF Generations, Current
<1>1. ASSUME NEW i \in Item, NEW m \in Material, Begin(i, m) PROVE Generations'
  BY <1>1 DEF Begin
<1>2. CASE PutRecord
  BY <1>2 DEF PutRecord, TypeOK, Job
<1>3. CASE PutTitleRow
  BY <1>3 DEF PutTitleRow, TypeOK, Job
<1>4. ASSUME NEW id \in Id, PutIdRow(id) PROVE Generations'
  BY <1>4 DEF PutIdRow, TypeOK, Job
<1>5. CASE Indexed
  BY <1>5 DEF Indexed, AfterIndexes, TypeOK, Job
<1>6. CASE RecordConflict
  BY <1>6, Constants DEF RecordConflict, TypeOK, Job
<1>7. CASE PutAlias
  <2> DEFINE n == mapping[job.item].generation
  <2>1. /\ job' = [job EXCEPT !.stage = "mapping"] /\ UNCHANGED <<minted, mapping>>
        /\ alias' = [alias EXCEPT ![job.item][n] = mapping[job.item].entry] /\ job.stage = "alias"
    BY <1>7 DEF PutAlias, Superseded
  <2>2. job.item \in Item /\ job'.item = job.item /\ job'.stage = "mapping" /\ n \in 0..MaxGeneration /\ n # 0
    BY <2>1 DEF TypeOK, Job, Mapping
  <2>3. n \in Generation
    BY <2>2, Constants DEF Generation
  <2>4. alias'[job.item][n] = mapping[job.item].entry
    BY <2>1, <2>2, <2>3 DEF TypeOK
  <2>5. \A i \in Item : \A g \in Generation : i # job.item \/ g # n => alias'[i][g] = alias[i][g]
    BY <2>1 DEF TypeOK
  <2>6. \A i \in Item : mapping[i].generation \in 0..MaxGeneration
    BY DEF TypeOK, Mapping
  <2>7. ASSUME NEW i \in Item, NEW g \in 1..(mapping[i].generation - 1) PROVE alias'[i][g] \in minted
    <3>1. g \in Generation /\ (i = job.item => g # n)
      BY <2>6, Constants DEF Generation
    <3>. QED  BY <3>1, <2>5
  <2>. QED  BY <2>1, <2>2, <2>4, <2>7
<1>8. CASE PutMapping
  <2> DEFINE n == mapping[job.item].generation
  <2>1. /\ n \in Nat /\ job.item \in Item /\ job.target \in Entry
        /\ mapping'[job.item].generation = n + 1 /\ \A i \in Item : i # job.item => mapping'[i] = mapping[i]
    BY <1>8, TrailGrows
  <2>2. mapping'[job.item].entry = job.target /\ job' = Idle /\ UNCHANGED <<alias, minted>>
    BY <1>8, <2>1 DEF PutMapping, TypeOK
  <2>3. ASSUME NEW g \in 1..n PROVE alias[job.item][g] \in minted
    <3>1. CASE g = n
      BY <1>8, <2>1, <3>1 DEF PutMapping, Backed, ProofIsBacked
    <3>2. CASE g # n
      BY <2>1, <3>2
    <3>. QED  BY <3>1, <3>2
  <2>. QED  BY <2>1, <2>2, <2>3, Constants
<1>9. CASE Interrupted
  BY <1>9, Constants DEF Interrupted
<1>10. CASE UNCHANGED vars
  BY <1>10 DEF vars
<1>. QED  BY <1>1, <1>2, <1>3, <1>4, <1>5, <1>6, <1>7, <1>8, <1>9, <1>10 DEF Next

-----------------------------------------------------------------------------
(* The record of moves.                                                    *)

LEMMA MovesFinite ==
  ASSUME TypeOK, NEW i \in Item, NEW e
  PROVE  IsFiniteSet(Moves(i, e)) /\ Cardinality(Moves(i, e)) \in Nat
<1>1. mapping[i].generation - 1 \in Int
  BY Constants DEF TypeOK, Mapping
<1>2. IsFiniteSet(1..(mapping[i].generation - 1))
  BY <1>1, FS_Interval
<1>. QED  BY <1>2, FS_Subset, FS_CardinalityType DEF Moves

LEMMA SameTrailSameMoves ==
  ASSUME TypeOK, NEW i \in Item, NEW e, mapping'[i].generation = mapping[i].generation,
         \A g \in 1..mapping[i].generation : At(i, g)' = At(i, g)
  PROVE  Moves(i, e)' = Moves(i, e)
<1>1. mapping[i].generation \in Nat
  BY Constants DEF TypeOK, Mapping
<1>. QED  BY <1>1 DEF Moves

LEMMA OnRecordStep == TypeOK /\ TypeOK' /\ Generations /\ OnRecord /\ [Next]_vars => OnRecord'
<1> SUFFICES ASSUME TypeOK, TypeOK', Generations, OnRecord, [Next]_vars PROVE OnRecord'
  OBVIOUS
<1>1. CASE PutMapping
  <2>a. job.item \in Item /\ job.target \in Entry /\ Current \in Mapping
    BY <1>1 DEF TypeOK, PutMapping, Current, Job
  <2>b. Current.generation \in Nat /\ Current.entry \in Entry \cup {None}
    BY <2>a, Constants DEF Mapping
  <2>0. PICK it \in Item, n \in Nat, t \in Entry, old \in Entry \cup {None} :
           it = job.item /\ n = Current.generation /\ t = job.target /\ old = Current.entry
    BY <2>a, <2>b
  <2>1. /\ mapping[it].generation = n /\ mapping[it].entry = old
        /\ mapping'[it].generation = n + 1 /\ At(it, n + 1)' = t
        /\ \A i \in Item : i # it => mapping'[i] = mapping[i]
        /\ \A i \in Item : \A g \in 1..mapping[i].generation : At(i, g)' = At(i, g)
    BY <1>1, <2>0, TrailGrows DEF Current
  <2>2. conflicts' = conflicts /\ job' = Idle
    BY <1>1 DEF PutMapping
  <2>3. ASSUME NEW i \in Item, NEW e \in Entry PROVE conflicts[i][e] >= Cardinality(Moves(i, e)')
    <3>1. CASE i # it
      <4>1. Moves(i, e)' = Moves(i, e)
        BY <2>1, <3>1, SameTrailSameMoves
      <4>. QED  BY <4>1 DEF OnRecord, MovesAreOnRecord
    <3>2. CASE i = it /\ (e # old \/ e = t)
      <4>1. Moves(i, e)' = Moves(i, e)
        <5>1. n # 0 => At(i, n) = old
          BY <2>1, <3>2 DEF At
        <5>. QED  BY <2>1, <3>2, <5>1 DEF Moves
      <4>. QED  BY <4>1 DEF OnRecord, MovesAreOnRecord
    <3>3. CASE i = it /\ e = old /\ e # t
      <4>1. Moves(i, e)' \subseteq Moves(i, e) \cup {n}
        BY <2>1, <3>3 DEF Moves
      <4>2. conflicts[i][e] >= Cardinality(Moves(i, e)) + 1
        <5>1. old \notin {None, t} /\ job.stage = "mapping"
          BY <1>1, <3>3, Constants DEF PutMapping
        <5>. QED  BY <2>0, <3>3, <5>1 DEF OnRecord
      <4>3. /\ IsFiniteSet(Moves(i, e) \cup {n}) /\ Cardinality(Moves(i, e) \cup {n}) \in Nat
            /\ Cardinality(Moves(i, e) \cup {n}) <= Cardinality(Moves(i, e)) + 1
        <5>1. IsFiniteSet(Moves(i, e)) /\ Cardinality(Moves(i, e)) \in Nat
          BY MovesFinite
        <5>2. IsFiniteSet(Moves(i, e) \cup {n})
              /\ Cardinality(Moves(i, e) \cup {n}) <= Cardinality(Moves(i, e)) + 1
          BY <5>1, FS_AddElement
        <5>. QED  BY <5>2, FS_CardinalityType
      <4>4. Cardinality(Moves(i, e)') <= Cardinality(Moves(i, e) \cup {n}) /\ Cardinality(Moves(i, e)') \in Nat
        BY <4>1, <4>3, FS_Subset, FS_CardinalityType
      <4>5. conflicts[i][e] \in Nat /\ Cardinality(Moves(i, e)) \in Nat
        BY MovesFinite DEF TypeOK
      <4>. QED  BY <4>2, <4>3, <4>4, <4>5
    <3>. QED  BY <3>1, <3>2, <3>3
  <2>. QED  BY <2>2, <2>3, Constants DEF OnRecord, MovesAreOnRecord
<1>2. CASE ~PutMapping
  <2>1. mapping' = mapping /\ \A i \in Item : \A e \in Entry : Moves(i, e)' = Moves(i, e)
    BY <1>2, TrailKept, SameTrailSameMoves
  <2>2. CASE RecordConflict
    <3>0. PICK it \in Item, old \in Entry : it = job.item /\ old = Current.entry
      BY <2>2, Constants DEF RecordConflict, Generations, TypeOK, Job, Mapping, Current
    <3>1. /\ job'.item = it /\ job'.target = job.target
          /\ conflicts' = [conflicts EXCEPT ![it][old] = @ + 1] /\ mapping' = mapping
      BY <2>2, <2>1, <3>0 DEF RecordConflict, TypeOK, Job
    <3>2. conflicts'[it][old] = conflicts[it][old] + 1
      BY <3>1 DEF TypeOK
    <3>3. \A i \in Item : \A e \in Entry : i # it \/ e # old => conflicts'[i][e] = conflicts[i][e]
      BY <3>1 DEF TypeOK
    <3>4. conflicts[it][old] \in Nat /\ Cardinality(Moves(it, old)) \in Nat
          /\ conflicts[it][old] >= Cardinality(Moves(it, old))
      BY <3>1, MovesFinite DEF TypeOK, OnRecord, MovesAreOnRecord
    <3>5. conflicts'[it][old] >= Cardinality(Moves(it, old)) + 1 /\ conflicts'[it][old] >= Cardinality(Moves(it, old))
      BY <3>2, <3>4
    <3>6. MovesAreOnRecord'
      BY <2>1, <3>3, <3>5 DEF OnRecord, MovesAreOnRecord
    <3>7. /\ Moves(it, old)' = Moves(it, old) /\ Current'.entry = old
      BY <2>1, <3>0, <3>1 DEF Current
    <3>. QED  BY <3>1, <3>5, <3>6, <3>7 DEF OnRecord
  <2>3. CASE ~RecordConflict
    <3>1. conflicts' = conflicts
      BY <1>2, <2>3 DEF Next, Begin, PutRecord, PutTitleRow, PutIdRow, Indexed, PutAlias, Interrupted, vars
    <3>2. job'.stage \in {"alias", "mapping"} /\ Current'.entry \notin {None, job'.target} =>
            job.stage \in {"alias", "mapping"} /\ job'.item = job.item /\ job'.target = job.target
      <4>1. CASE Indexed
        BY <2>1, <4>1 DEF Indexed, AfterIndexes, Current, TypeOK, Job
      <4>2. CASE PutAlias
        BY <4>2 DEF PutAlias, TypeOK, Job
      <4>3. CASE PutRecord \/ PutTitleRow \/ (\E id \in Id : PutIdRow(id))
        BY <4>3 DEF PutRecord, PutTitleRow, PutIdRow, TypeOK, Job
      <4>4. CASE (\E i \in Item, m \in Material : Begin(i, m)) \/ Interrupted
        BY <4>4, Constants DEF Begin, Interrupted
      <4>5. CASE UNCHANGED vars
        BY <4>5 DEF vars
      <4>. QED  BY <1>2, <2>3, <4>1, <4>2, <4>3, <4>4, <4>5 DEF Next
    <3>3. MovesAreOnRecord'
      BY <2>1, <3>1 DEF OnRecord, MovesAreOnRecord
    <3>4. ASSUME job'.stage \in {"alias", "mapping"}, Current'.entry \notin {None, job'.target}
          PROVE  conflicts'[job'.item][Current'.entry] >= Cardinality(Moves(job.item, Current.entry)') + 1
      <4>1. PICK it \in Item, old \in Entry : it = job.item /\ old = Current.entry
        BY <2>1, <3>2, <3>4 DEF TypeOK, Job, Mapping, Current
      <4>2. job'.item = it /\ Current'.entry = old /\ Moves(it, old)' = Moves(it, old)
        BY <2>1, <3>2, <3>4, <4>1 DEF Current
      <4>3. conflicts[it][old] >= Cardinality(Moves(it, old)) + 1
        BY <2>1, <3>2, <3>4, <4>1, <4>2 DEF OnRecord, Current
      <4>. QED  BY <3>1, <4>2, <4>3
    <3>. QED  BY <3>1, <3>2, <3>3, <3>4 DEF OnRecord
  <2>. QED  BY <2>2, <2>3
<1>. QED  BY <1>1, <1>2

-----------------------------------------------------------------------------
(* The theorems.                                                           *)

LEMMA IndNext == Ind /\ [Next]_vars => Ind'
BY TypeStep, BackedStep, IndexingStep, GenerationsStep, OnRecordStep DEF Ind

LEMMA Inductive == Spec => []Ind
BY IndInit, IndNext, PTL DEF Spec

(* Entries, index rows, mappings, aliases and the resolve in progress keep *)
(* their types, whatever is written and wherever a resolve is cut off.     *)
THEOREM TypeCorrect == Spec => []TypeOK
<1>1. Ind => TypeOK
  BY DEF Ind
<1>. QED  BY <1>1, Inductive, PTL

(* A mapping always leads to an entry of its kind that names the item's    *)
(* provider for each identity the mapping was proved with - between any    *)
(* two writes, and after any number of interrupted resolves.               *)
THEOREM ProofIsBackedHolds == Spec => []ProofIsBacked
<1>1. Ind => ProofIsBacked
  BY DEF Ind, Backed
<1>. QED  BY <1>1, Inductive, PTL

(* Every entry written whole is found again by each of its identities.     *)
THEOREM ClaimsAreFoundHolds == Spec => []ClaimsAreFound
<1>1. Ind => ClaimsAreFound
  BY DEF Ind, Indexing
<1>. QED  BY <1>1, Inductive, PTL

(* An item's moves between entries are on record, each of them.            *)
THEOREM MovesAreOnRecordHolds == Spec => []MovesAreOnRecord
<1>1. Ind => MovesAreOnRecord
  BY DEF Ind, OnRecord
<1>. QED  BY <1>1, Inductive, PTL

-----------------------------------------------------------------------------
(* Refinement.  Writing a new record creates an entry of the history,      *)
(* writing a mapping appends to an item's trail; no other write shows.     *)

LEMMA TrailAppended ==
  ASSUME Ind, PutMapping
  PROVE  \E i \in Item, e \in Entry :
           e \in minted /\ Trail' = [Trail EXCEPT ![i] = Append(@, e)]
<1>0. PICK it \in Item, n \in Nat, t \in Entry : it = job.item /\ n = Current.generation /\ t = job.target
  BY DEF Ind, TypeOK, PutMapping, Current, Job, Mapping
<1>1. /\ mapping[it].generation = n
      /\ mapping'[it].generation = n + 1 /\ At(it, n + 1)' = t
      /\ \A i \in Item : i # it => mapping'[i] = mapping[i]
      /\ \A i \in Item : \A g \in 1..mapping[i].generation : At(i, g)' = At(i, g)
  BY <1>0, TrailGrows DEF Ind, Current
<1>2. t \in minted
  BY <1>0 DEF Ind, Backed, PutMapping
<1>3. \A i \in Item : i # it => Trail'[i] = Trail[i]
  BY <1>1 DEF Trail
<1>4. Trail'[it] = Append(Trail[it], t)
  <2>1. Trail[it] = [g \in 1..n |-> At(it, g)]
    BY <1>1 DEF Trail
  <2>2. Trail'[it] = [g \in 1..(n + 1) |-> At(it, g)']
    BY <1>1 DEF Trail
  <2>3. \A g \in 1..n : At(it, g) \in Entry
    BY <1>1 DEF Ind, Generations, TypeOK, Mapping, At
  <2>4. Trail[it] \in Seq(Entry) /\ Len(Trail[it]) = n
    BY <2>1, <2>3, SeqDef
  <2>. QED  BY <1>1, <2>1, <2>2, <2>4
<1>5. Trail' = [Trail EXCEPT ![it] = Append(@, t)]
  BY <1>3, <1>4 DEF Trail
<1>. QED  BY <1>2, <1>5

LEMMA HistoryStep == Ind /\ [Next]_vars => [History!Next]_<<minted, Trail>>
<1> SUFFICES ASSUME Ind, [Next]_vars PROVE [History!Next]_<<minted, Trail>>
  OBVIOUS
<1>1. CASE PutMapping
  <2>1. minted' = minted
    BY <1>1 DEF PutMapping
  <2>. QED  BY <1>1, <2>1, TrailAppended DEF History!Next, History!Belong
<1>2. CASE ~PutMapping
  <2>1. Trail' = Trail
    BY <1>2, TrailKept DEF Ind, Trail
  <2>2. CASE PutRecord
    BY <2>1, <2>2 DEF PutRecord, History!Next, History!Create, Ind, TypeOK
  <2>3. CASE ~PutRecord
    BY <1>2, <2>1, <2>3 DEF Next, Begin, PutTitleRow, PutIdRow, Indexed, RecordConflict, PutAlias, Interrupted, vars
  <2>. QED  BY <2>2, <2>3
<1>. QED  BY <1>1, <1>2

(* The registry implements the abstract history: entries are never         *)
(* destroyed, and an item's trail only grows, at its end.                  *)
THEOREM ImplementsHistory == Spec => HistorySpec
<1>1. Init => History!Init
  BY Constants DEF Init, History!Init, Trail
<1>2. Ind /\ [Next]_vars => [History!Next]_<<minted, Trail>>
  BY HistoryStep
<1>. QED  BY <1>1, <1>2, Inductive, PTL DEF Spec, HistorySpec, History!Spec

-----------------------------------------------------------------------------
(* Nothing is chosen in doubt: a candidate the enrichment adopts is the    *)
(* only one, no other shares an identity with the evidence, and one that   *)
(* shares none itself is the only one that merges at all - for any         *)
(* evidence and any candidates.                                            *)
THEOREM AdoptIsCertain ==
  ASSUME NEW a, NEW C, NEW c \in Adopt(a, C)
  PROVE  /\ c \in C /\ Merges(a, c) /\ Adopt(a, C) = {c}
         /\ \A d \in C : Corroborated(a, d) => d = c
         /\ ~Corroborated(a, c) => \A d \in C : Merges(a, d) => d = c
<1> DEFINE asserted == {d \in C : Corroborated(a, d)}
           alike == {d \in C : Merges(a, d)}
<1>1. CASE asserted # {}
  <2>1. c \in asserted /\ asserted = {c} /\ Adopt(a, C) = {d \in asserted : asserted = {d}}
    BY <1>1 DEF Adopt
  <2> QED BY <2>1 DEF Merges
<1>2. CASE asserted = {}
  <2>1. c \in alike /\ alike = {c} /\ Adopt(a, C) = {d \in alike : alike = {d}}
    BY <1>2 DEF Adopt
  <2> QED BY <1>2, <2>1
<1> QED BY <1>1, <1>2

-----------------------------------------------------------------------------
(* The queue.                                                              *)

Distinct(s) == \A j, k \in DOMAIN s : s[j] = s[k] => j = k

(* Marking adds an entry at the end, once.                                 *)
LEMMA MarkedLast ==
  ASSUME NEW S, NEW s \in Seq(S), Distinct(s), NEW e \in S, e \notin Members(s)
  PROVE  /\ Append(s, e) \in Seq(S) /\ Distinct(Append(s, e))
         /\ Members(Append(s, e)) = Members(s) \cup {e}
         /\ \A k \in DOMAIN s : k \in DOMAIN Append(s, e) /\ Append(s, e)[k] = s[k]
<1>1. /\ Append(s, e) \in Seq(S) /\ DOMAIN s = 1..Len(s) /\ DOMAIN Append(s, e) = 1..(Len(s) + 1)
      /\ Len(s) \in Nat /\ Append(s, e)[Len(s) + 1] = e
      /\ \A k \in 1..Len(s) : Append(s, e)[k] = s[k]
  OBVIOUS
<1>2. \A k \in 1..Len(s) : s[k] # e
  BY <1>1 DEF Members
<1>3. Distinct(Append(s, e))
  BY <1>1, <1>2 DEF Distinct
<1>4. Members(Append(s, e)) = Members(s) \cup {e}
  BY <1>1 DEF Members
<1> QED BY <1>1, <1>3, <1>4

(* The first entry leaves, and every other moves up by one place.          *)
LEMMA FirstLeaves ==
  ASSUME NEW S, NEW s \in Seq(S), s # <<>>, Distinct(s),
         NEW t, t = SubSeq(s, 1, 0) \o SubSeq(s, 2, Len(s))
  PROVE  /\ s[1] \in S /\ t \in Seq(S) /\ Distinct(t) /\ Members(t) = Members(s) \ {s[1]}
         /\ DOMAIN s = 1..Len(s) /\ Len(s) \in Nat
         /\ \A k \in 2..Len(s) : k - 1 \in DOMAIN t /\ t[k - 1] = s[k]
<1>1. Len(s) \in Nat \ {0} /\ DOMAIN s = 1..Len(s) /\ s[1] \in S
  BY EmptySeq, LenProperties, ElementOfSeq
<1>2. SubSeq(s, 1, 0) = <<>>
  BY <1>1, SubSeqEmpty
<1>3. SubSeq(s, 2, Len(s)) \in Seq(S) /\ Len(SubSeq(s, 2, Len(s))) = Len(s) - 1
      /\ \A k \in 1..(Len(s) - 1) : SubSeq(s, 2, Len(s))[k] = s[k + 1]
  BY <1>1, SubSeqProperties
<1>4. t = SubSeq(s, 2, Len(s))
  BY <1>2, <1>3, ConcatEmptySeq
<1>5. t \in Seq(S) /\ DOMAIN t = 1..(Len(s) - 1) /\ \A k \in 1..(Len(s) - 1) : t[k] = s[k + 1]
  BY <1>3, <1>4, LenProperties
<1>6. Distinct(t)
  BY <1>1, <1>5 DEF Distinct
<1>7. Members(t) = Members(s) \ {s[1]}
  <2>1. \A k \in DOMAIN t : t[k] \in Members(s) \ {s[1]}
    BY <1>1, <1>5 DEF Distinct, Members
  <2>2. ASSUME NEW x \in Members(s) \ {s[1]} PROVE x \in Members(t)
    <3>1. PICK k \in DOMAIN s : x = s[k] /\ k # 1
      BY <2>2 DEF Members
    <3>2. k - 1 \in DOMAIN t /\ t[k - 1] = x
      BY <1>1, <1>5, <3>1
    <3> QED BY <3>2 DEF Members
  <2>3. Members(t) \subseteq Members(s) \ {s[1]}
    BY <2>1 DEF Members
  <2> QED BY <2>2, <2>3
<1>8. \A k \in 2..Len(s) : k - 1 \in DOMAIN t /\ t[k - 1] = s[k]
  BY <1>1, <1>5
<1> QED BY <1>1, <1>5, <1>6, <1>7, <1>8

-----------------------------------------------------------------------------
(* Types of the enrichment.                                                *)
(* What marking makes of the queue.                                        *)
LEMMA Marking ==
  ASSUME EnrichmentTypeOK, NEW e \in Entry, Mark(e)
  PROVE  /\ queue' \in Seq(Entry) /\ seen' = Members(queue') /\ Distinct(queue')
         /\ seen' = seen \cup {e}
         /\ \A k \in DOMAIN queue : k \in DOMAIN queue' /\ queue'[k] = queue[k]
<1>1. queue \in Seq(Entry) /\ Distinct(queue) /\ seen = Members(queue)
  BY DEF EnrichmentTypeOK, Distinct
<1>2. CASE e \in seen
  BY <1>1, <1>2 DEF Mark
<1>3. CASE e \notin seen
  BY <1>1, <1>3, MarkedLast DEF Mark
<1> QED BY <1>2, <1>3

LEMMA Taking ==
  ASSUME EnrichmentTypeOK, TryNext
  PROVE  /\ queue' \in Seq(Entry) /\ seen' = Members(queue') /\ Distinct(queue')
         /\ queue[1] \in Entry /\ worker' = [Waiting EXCEPT !.stage = "taken", !.entry = queue[1]]
         /\ seen' = seen \ {queue[1]}
         /\ DOMAIN queue = 1..Len(queue) /\ Len(queue) \in Nat
         /\ \A k \in 2..Len(queue) : k - 1 \in DOMAIN queue' /\ queue'[k - 1] = queue[k]
<1>1. queue \in Seq(Entry) /\ queue # <<>> /\ Distinct(queue) /\ seen = Members(queue)
  BY DEF EnrichmentTypeOK, Distinct, TryNext
<1>2. queue' = SubSeq(queue, 1, 0) \o SubSeq(queue, 2, Len(queue)) /\ seen' = seen \ {queue[1]}
      /\ worker' = [Waiting EXCEPT !.stage = "taken", !.entry = queue[1]]
  BY DEF TryNext, Served, Forget
<1> DEFINE q == queue'
<1>3. q = SubSeq(queue, 1, 0) \o SubSeq(queue, 2, Len(queue))
  BY <1>2
<1> HIDE DEF q
<1>4. /\ queue[1] \in Entry /\ q \in Seq(Entry) /\ Distinct(q) /\ Members(q) = Members(queue) \ {queue[1]}
      /\ DOMAIN queue = 1..Len(queue) /\ Len(queue) \in Nat
      /\ \A k \in 2..Len(queue) : k - 1 \in DOMAIN q /\ q[k - 1] = queue[k]
  <2>1. \A t : t = SubSeq(queue, 1, 0) \o SubSeq(queue, 2, Len(queue)) =>
          /\ queue[1] \in Entry /\ t \in Seq(Entry) /\ Distinct(t) /\ Members(t) = Members(queue) \ {queue[1]}
          /\ DOMAIN queue = 1..Len(queue) /\ Len(queue) \in Nat
          /\ \A k \in 2..Len(queue) : k - 1 \in DOMAIN t /\ t[k - 1] = queue[k]
    BY ONLY <1>1, FirstLeaves
  <2> QED BY <1>3, <2>1
<1> QED BY <1>1, <1>2, <1>4 DEF q

WorkerTypes ==
  /\ worker \in [stage : {"idle", "taken", "looking", "fetching", "storing", "linking", "pacing"},
                 entry : Entry \cup {Nobody}, ids : SUBSET Id, asking : SUBSET Catalogue,
                 pool : SUBSET Candidate, fetching : SUBSET Candidate, full : SUBSET Candidate,
                 win : Candidate \cup {Nobody}, links : SUBSET Id, partial : BOOLEAN]
  /\ worker.stage # "idle" => worker.entry \in Entry
  /\ worker.stage \in {"storing", "linking"} => worker.win \in Candidate

LEMMA WaitingTyped ==
  /\ Waiting \in [stage : {"idle", "taken", "looking", "fetching", "storing", "linking", "pacing"},
                 entry : Entry \cup {Nobody}, ids : SUBSET Id, asking : SUBSET Catalogue,
                 pool : SUBSET Candidate, fetching : SUBSET Candidate, full : SUBSET Candidate,
                 win : Candidate \cup {Nobody}, links : SUBSET Id, partial : BOOLEAN]
  /\ Waiting.stage = "idle"
BY DEF Waiting

LEMMA WorkerTyped ==
  ASSUME EnrichmentTypeOK, [EnrichmentNext]_enrichmentVars
  PROVE  WorkerTypes'
<1> USE DEF WorkerTypes
<1>0. WorkerTypes
  BY DEF EnrichmentTypeOK
<1>1. CASE TryNext
  BY <1>1, Taking, WaitingTyped
<1>2. CASE Drained \/ Restart
  BY <1>2, WaitingTyped DEF Drained, Restart
<1>3. CASE Gather
  <2>1. claims[worker.entry] \in SUBSET Id
    BY <1>0, <1>3 DEF Gather, EnrichmentTypeOK
  <2> QED BY <1>0, <1>3, <2>1 DEF Gather
<1>4. ASSUME NEW k \in Catalogue, Lookup(k) PROVE WorkerTypes'
  BY <1>0, <1>4 DEF Lookup, Gathered
<1>5. CASE ScreenPool
  <2>1. Passing(worker.pool) \in SUBSET Candidate
    BY <1>0 DEF Passing
  <2>2. PICK P \in SUBSET Candidate : P = Passing(worker.pool)
    BY <2>1
  <2>3. worker' = [worker EXCEPT !.stage = "pacing"] \/ worker' = [worker EXCEPT !.stage = "fetching", !.fetching = P]
    BY <1>5, <2>2 DEF ScreenPool
  <2>4. worker.stage = "looking"
    BY <1>5 DEF ScreenPool
  <2> QED BY <1>0, <2>3, <2>4
<1>6. ASSUME NEW c \in Candidate, Fetch(c) PROVE WorkerTypes'
  <2>1. \/ worker' = [worker EXCEPT !.fetching = @ \ {c}, !.full = @ \cup {c}]
        \/ worker' = [worker EXCEPT !.fetching = @ \ {c}, !.partial = TRUE]
    BY <1>6 DEF Fetch
  <2>2. worker.stage = "fetching"
    BY <1>6 DEF Fetch
  <2>3. CASE worker' = [worker EXCEPT !.fetching = @ \ {c}, !.full = @ \cup {c}]
    BY <1>0, <2>2, <2>3
  <2>4. CASE worker' = [worker EXCEPT !.fetching = @ \ {c}, !.partial = TRUE]
    BY <1>0, <2>2, <2>4
  <2> QED BY <2>1, <2>3, <2>4
<1>7. CASE Choose
  <2>1. Adopted(worker.full) \subseteq Candidate
    BY <1>0 DEF Adopted
  <2>2. \/ worker' = [worker EXCEPT !.stage = "pacing"]
        \/ \E c \in Candidate : worker' = [worker EXCEPT !.stage = "storing", !.win = c]
    BY <1>7, <2>1 DEF Choose
  <2>3. worker.stage = "fetching"
    BY <1>7 DEF Choose
  <2>4. CASE worker' = [worker EXCEPT !.stage = "pacing"]
    BY <1>0, <2>3, <2>4
  <2>5. ASSUME NEW c \in Candidate, worker' = [worker EXCEPT !.stage = "storing", !.win = c] PROVE WorkerTypes'
    BY <1>0, <2>3, <2>5
  <2> QED BY <2>2, <2>4, <2>5
<1>8. CASE Store
  <2>1. worker.stage = "storing" /\ worker.win.asserts \ {worker.win.ref} \in SUBSET Id
    BY <1>0, <1>8, EnrichmentAssumption DEF Store
  <2>2. PICK L \in SUBSET Id : L = worker.win.asserts \ {worker.win.ref}
    BY <2>1
  <2>3. worker' = [worker EXCEPT !.stage = "linking", !.links = L] \/ worker' = [worker EXCEPT !.stage = "pacing"]
    BY <1>8, <2>2 DEF Store
  <2> QED BY <1>0, <2>1, <2>3
<1>9. ASSUME NEW id \in Id, Link(id) PROVE WorkerTypes'
  BY <1>0, <1>9 DEF Link
<1>10. CASE Linked
  BY <1>0, <1>10 DEF Linked
<1>11. ASSUME UNCHANGED worker PROVE WorkerTypes'
  BY <1>0, <1>11
<1>12. CASE Rebuild \/ DropLibrary
  BY <1>11, <1>12 DEF Rebuild, DropLibrary
<1>13. ASSUME NEW e \in Entry, MarkMissed(e) \/ MarkNoticed(e) \/ \E id \in Id : Identify(e, id)
       PROVE  WorkerTypes'
  BY <1>11, <1>13 DEF MarkMissed, MarkNoticed, Identify
<1>14. CASE UNCHANGED enrichmentVars
  BY <1>11, <1>14 DEF enrichmentVars
<1> QED BY <1>1, <1>2, <1>3, <1>4, <1>5, <1>6, <1>7, <1>8, <1>9, <1>10, <1>12, <1>13, <1>14
        DEF EnrichmentNext, WorkerStep

QueueTypes == queue \in Seq(Entry) /\ seen = Members(queue) /\ Distinct(queue)

LEMMA QueueTyped ==
  ASSUME EnrichmentTypeOK, [EnrichmentNext]_enrichmentVars
  PROVE  QueueTypes'
<1> USE DEF QueueTypes
<1>0. QueueTypes
  BY DEF EnrichmentTypeOK, Distinct
<1>1. CASE TryNext
  BY <1>1, Taking
<1>2. ASSUME NEW e \in Entry, MarkMissed(e) \/ MarkNoticed(e) PROVE QueueTypes'
  BY <1>2, Marking DEF MarkMissed, MarkNoticed
<1>3. CASE Restart
  <2>1. queue' = <<>> /\ seen' = {}
    BY <1>3 DEF Restart
  <2>2. <<>> \in Seq(Entry) /\ DOMAIN <<>> = {}
    OBVIOUS
  <2> QED BY <2>1, <2>2 DEF Members, Distinct
<1>4. ASSUME UNCHANGED <<queue, seen>> PROVE QueueTypes'
  BY <1>0, <1>4 DEF Distinct, Members
<1> QED BY <1>1, <1>2, <1>3, <1>4
        DEF EnrichmentNext, WorkerStep, Drained, Gather, Lookup, ScreenPool,
            Fetch, Choose, Store, Link, Linked, Rebuild,
            DropLibrary, Identify, enrichmentVars

CacheTypes ==
  /\ record \in [Id -> [Field -> Catalogue \cup {Nobody}]]
  /\ refOf \in [Id -> Id \cup {Nobody}]

LEMMA CacheTyped ==
  ASSUME EnrichmentTypeOK, [EnrichmentNext]_enrichmentVars
  PROVE  CacheTypes'
<1> USE DEF CacheTypes
<1>0. CacheTypes
  BY DEF EnrichmentTypeOK
<1>1. CASE Store
  <2>1. worker.win \in Candidate
    BY <1>1 DEF Store, EnrichmentTypeOK
  <2>2. worker.win.ref \in Id /\ worker.win.catalogue \in Catalogue
    BY <2>1, EnrichmentAssumption
  <2>3. /\ Merge(record[worker.win.ref], worker.win) \in [Field -> Catalogue \cup {Nobody}]
        /\ Merge(NoFields, worker.win) \in [Field -> Catalogue \cup {Nobody}]
    BY <1>0, <2>2 DEF Merge, NoFields
  <2>4. refOf' = refOf /\ \/ record' = [record EXCEPT ![worker.win.ref] = Merge(@, worker.win)]
                          \/ record' = [record EXCEPT ![worker.win.ref] = Merge(NoFields, worker.win)]
                          \/ record' = record
    BY <1>1 DEF Store
  <2> QED BY <1>0, <2>2, <2>3, <2>4
<1>2. ASSUME NEW id \in Id, Link(id) PROVE CacheTypes'
  <2>1. worker.win \in Candidate
    BY <1>2 DEF Link, EnrichmentTypeOK
  <2>2. worker.win.ref \in Id
    BY <2>1, EnrichmentAssumption
  <2>3. record' = record /\ \/ refOf' = [refOf EXCEPT ![id] = worker.win.ref]
                            \/ refOf' = refOf
    BY <1>2 DEF Link
  <2> QED BY <1>0, <2>2, <2>3
<1>3. ASSUME UNCHANGED <<record, refOf>> PROVE CacheTypes'
  BY <1>0, <1>3
<1> QED BY <1>1, <1>2, <1>3
        DEF EnrichmentNext, WorkerStep, TryNext, Drained, Gather, Lookup, ScreenPool,
            Fetch, Choose, Linked, Rebuild, MarkMissed, MarkNoticed,
            DropLibrary, Identify, Restart, enrichmentVars, cache

TriggerTypes ==
  /\ claims \in [Entry -> SUBSET Id]
  /\ cached \in BOOLEAN /\ missed \subseteq Entry /\ noticed \subseteq Entry /\ failures \in 0..MaxFailures

LEMMA TriggersTyped ==
  ASSUME EnrichmentTypeOK, [EnrichmentNext]_enrichmentVars
  PROVE  TriggerTypes'
<1> USE DEF TriggerTypes
<1>0. TriggerTypes /\ MaxFailures \in Nat
  BY EnrichmentAssumption DEF EnrichmentTypeOK
<1>1. ASSUME NEW e \in Entry, NEW id \in Id, Identify(e, id) PROVE TriggerTypes'
  BY <1>0, <1>1 DEF Identify
<1>2. CASE Rebuild
  BY <1>0, <1>2 DEF Rebuild
<1>3. CASE Restart
  <2>1. claims' = claims /\ missed' = {} /\ noticed' = {} /\ failures' = failures + 1 /\ failures < MaxFailures
    BY <1>3 DEF Restart
  <2>2. cached' \in BOOLEAN
    BY <1>0, <1>3, Zenon DEF Restart
  <2> QED BY <1>0, <2>1, <2>2
<1>4. ASSUME claims' = claims, cached' \in BOOLEAN, missed' \subseteq missed, noticed' \subseteq noticed,
             failures' = failures \/ (failures < MaxFailures /\ failures' = failures + 1)
      PROVE  TriggerTypes'
  BY <1>0, <1>4
<1>5. CASE DropLibrary
  BY <1>0, <1>4, <1>5 DEF DropLibrary
<1>6. ASSUME NEW e \in Entry, MarkMissed(e) \/ MarkNoticed(e) PROVE TriggerTypes'
  BY <1>0, <1>4, <1>6 DEF MarkMissed, MarkNoticed
<1>7. CASE WorkerStep \/ UNCHANGED enrichmentVars
  BY <1>0, <1>4, <1>7
     DEF WorkerStep, TryNext, Drained, Gather, Lookup, ScreenPool,
         Fetch, Choose, Store, Link, Linked, enrichmentVars, triggers
<1> QED BY <1>1, <1>2, <1>3, <1>5, <1>6, <1>7 DEF EnrichmentNext

(* The queue, the worker, the metadata cache and the triggers keep their   *)
(* types: the queue holds nobody twice, the worker only what catalogues    *)
(* know.                                                                   *)
THEOREM WorkerTypeCorrect == EnrichmentSpec => []EnrichmentTypeOK
<1>1. EnrichmentInit => EnrichmentTypeOK
  <2> SUFFICES ASSUME EnrichmentInit PROVE WorkerTypes /\ QueueTypes /\ CacheTypes /\ TriggerTypes
    BY DEF EnrichmentTypeOK, WorkerTypes, QueueTypes, CacheTypes, TriggerTypes, Distinct
  <2>1. WorkerTypes
    BY WaitingTyped DEF EnrichmentInit, WorkerTypes
  <2>2. QueueTypes
    <3>1. queue = <<>> /\ seen = {} /\ <<>> \in Seq(Entry) /\ DOMAIN <<>> = {}
      BY DEF EnrichmentInit
    <3> QED BY <3>1 DEF QueueTypes, Members, Distinct
  <2>3. CacheTypes
    BY DEF EnrichmentInit, NoFields, CacheTypes
  <2>4. TriggerTypes
    <3>1. MaxFailures \in Nat
      BY EnrichmentAssumption
    <3>2. cached \in BOOLEAN
      BY Zenon DEF EnrichmentInit
    <3>3. claims \in [Entry -> SUBSET Id] /\ missed = {} /\ noticed = {} /\ failures = 0
      BY DEF EnrichmentInit
    <3> QED BY <3>1, <3>2, <3>3 DEF TriggerTypes
  <2> QED BY <2>1, <2>2, <2>3, <2>4
<1>2. EnrichmentTypeOK /\ [EnrichmentNext]_enrichmentVars => EnrichmentTypeOK'
  <2> SUFFICES ASSUME EnrichmentTypeOK, [EnrichmentNext]_enrichmentVars
               PROVE  (WorkerTypes /\ QueueTypes /\ CacheTypes /\ TriggerTypes)'
    BY DEF EnrichmentTypeOK, WorkerTypes, QueueTypes, CacheTypes, TriggerTypes, Distinct
  <2> QED BY WorkerTyped, QueueTyped, CacheTyped, TriggersTyped
<1> QED BY <1>1, <1>2, PTL DEF EnrichmentSpec

-----------------------------------------------------------------------------
(* The choice.  What the worker has in hand while nothing has failed: all  *)
(* that the catalogues asked so far hold, then all of it that passes the   *)
(* screen, and at last the one candidate that can be told for certain.     *)

Whole == ~worker.partial
Screened == Passing(Candidate)

Asked ==
  /\ worker.stage = "taken" => worker.pool = {}
  /\ worker.stage \in {"taken", "looking"} => worker.full = {}
  /\ worker.stage = "looking" /\ Whole =>
       worker.pool = {c \in Candidate : c.catalogue \notin worker.asking}
Fetched ==
  worker.stage = "fetching" =>
    /\ worker.full \cup worker.fetching \subseteq Screened
    /\ Whole => worker.full \cup worker.fetching = Screened
InHand == Asked /\ Fetched /\ TiesAbstain

(* The screen looks at one candidate at a time.                            *)
LEMMA ScreenedOneByOne ==
  ASSUME NEW P \in SUBSET Candidate
  PROVE  Passing(P) = P \cap Screened
BY DEF Passing, Screen, Screened

(* Without signals only an identity corroborates: what the choice returns  *)
(* has a rival in no other candidate, since no two look the same.          *)
LEMMA ChosenHasNoRival ==
  ASSUME worker.entry \in Entry, NEW c \in Adopted(Screened)
  PROVE  Rivals = {c}
<1> DEFINE C == {d.full : d \in Screened}
           a == Evidence
<1>1. c \in Screened /\ c.full \in Adopt(a, C)
  BY DEF Adopted
<1>2. a.signals = {}
  BY EnrichmentAssumption DEF Evidence
<1> HIDE DEF C, a
<1>3. /\ Merges(a, c.full)
      /\ \A d \in C : Corroborated(a, d) => d = c.full
  BY <1>1, AdoptIsCertain
<1>4. Corroborated(a, c.full)
  BY <1>2, <1>3 DEF Merges, Alike
<1>5. \A d \in Screened : Corroborated(a, d.full) => d.full = c.full
  BY <1>3 DEF C
<1>6. \A d \in Screened : d \in Candidate
  BY DEF Screened, Passing
<1>7. \A d \in Screened : Corroborated(a, d.full) <=> d = c
  BY <1>1, <1>4, <1>5, <1>6, EnrichmentAssumption
<1> QED BY <1>1, <1>7 DEF Rivals, Screened, a

LEMMA EvidenceStays ==
  ASSUME worker'.entry = worker.entry, worker'.ids = worker.ids
  PROVE  /\ Evidence' = Evidence /\ Screened' = Screened
         /\ Rivals' = Rivals
BY DEF Evidence, Screened, Passing, Rivals, Screen, Corroborated

(* What is in hand, step by step.                                          *)
LEMMA InHandStep ==
  ASSUME EnrichmentTypeOK, InHand, [EnrichmentNext]_enrichmentVars
  PROVE  InHand'
<1> USE DEF InHand, Asked, Fetched, Whole, TiesAbstain
<1>0. WorkerTypes
  BY DEF EnrichmentTypeOK, WorkerTypes
<1>1. ASSUME worker'.stage \notin {"taken", "looking", "fetching", "storing"} PROVE InHand'
  BY <1>1
<1>2. CASE TryNext
  BY <1>2, Taking DEF Waiting
<1>3. CASE Drained \/ Restart
  BY <1>1, <1>3, WaitingTyped DEF Drained, Restart
<1>4. CASE Gather
  <2>1. worker.stage = "taken"
    BY <1>4 DEF Gather
  <2>2. \/ worker' = [worker EXCEPT !.stage = "pacing"]
        \/ worker' = [worker EXCEPT !.stage = "looking", !.ids = claims[worker.entry], !.asking = Catalogue]
    BY <1>4 DEF Gather
  <2>3. CASE worker' = [worker EXCEPT !.stage = "pacing"]
    BY <1>0, <1>1, <2>3 DEF WorkerTypes
  <2>4. CASE worker' = [worker EXCEPT !.stage = "looking", !.ids = claims[worker.entry], !.asking = Catalogue]
    <3>1. /\ worker'.stage = "looking" /\ worker'.asking = Catalogue /\ worker'.pool = worker.pool
          /\ worker'.full = worker.full
      BY <1>0, <2>4 DEF WorkerTypes
    <3>2. \A c \in Candidate : c.catalogue \in Catalogue
      BY <1>0, EnrichmentAssumption
    <3> QED BY <2>1, <3>1, <3>2
  <2> QED BY <2>2, <2>3, <2>4
<1>5. ASSUME NEW k \in Catalogue, Lookup(k) PROVE InHand'
  <2>1. worker.stage = "looking" /\ k \in worker.asking /\ worker.asking \subseteq Catalogue
    BY <1>0, <1>5 DEF Lookup, First, WorkerTypes
  <2>2. CASE worker' = [worker EXCEPT !.asking = @ \ {k}, !.pool = @ \cup {c \in Candidate : c.catalogue = k}]
    <3>1. /\ worker'.stage = "looking" /\ worker'.asking = worker.asking \ {k} /\ worker'.full = worker.full
          /\ worker'.pool = worker.pool \cup {c \in Candidate : c.catalogue = k} /\ worker'.partial = worker.partial
      BY <1>0, <2>1, <2>2 DEF WorkerTypes
    <3> QED BY <2>1, <3>1
  <2>3. CASE worker' = [worker EXCEPT !.asking = @ \ {k}, !.partial = TRUE]
    <3>1. worker'.stage = "looking" /\ worker'.full = worker.full /\ worker'.partial = TRUE
      BY <1>0, <2>1, <2>3 DEF WorkerTypes
    <3> QED BY <2>1, <3>1
  <2> QED BY <1>5, <2>2, <2>3 DEF Lookup, Gathered
<1>6. CASE ScreenPool
  <2>1. worker.stage = "looking" /\ worker.asking = {} /\ worker.pool \subseteq Candidate /\ worker.full = {}
    BY <1>0, <1>6 DEF ScreenPool, WorkerTypes
  <2>2. CASE worker' = [worker EXCEPT !.stage = "pacing"]
    BY <1>0, <1>1, <2>2 DEF WorkerTypes
  <2>3. CASE worker' = [worker EXCEPT !.stage = "fetching", !.fetching = Passing(worker.pool)]
    <3>1. /\ worker'.stage = "fetching" /\ worker'.fetching = Passing(worker.pool) /\ worker'.full = {}
          /\ worker'.entry = worker.entry /\ worker'.ids = worker.ids /\ worker'.partial = worker.partial
      BY <1>0, <2>1, <2>3 DEF WorkerTypes
    <3>2. Whole => worker.pool = Candidate
      BY <2>1
    <3>3. Passing(worker.pool) = worker.pool \cap Screened /\ Screened \subseteq Candidate
      BY <2>1, ScreenedOneByOne DEF Screened, Passing
    <3>4. Screened' = Screened
      BY <3>1, EvidenceStays
    <3> QED BY <3>1, <3>2, <3>3, <3>4
  <2> QED BY <1>6, <2>2, <2>3 DEF ScreenPool
<1>7. ASSUME NEW c \in Candidate, Fetch(c) PROVE InHand'
  <2>1. worker.stage = "fetching" /\ c \in worker.fetching
    BY <1>7 DEF Fetch, First
  <2>2. CASE worker' = [worker EXCEPT !.fetching = @ \ {c}, !.full = @ \cup {c}]
    <3>1. /\ worker'.stage = "fetching" /\ worker'.fetching = worker.fetching \ {c}
          /\ worker'.full = worker.full \cup {c}
          /\ worker'.entry = worker.entry /\ worker'.ids = worker.ids /\ worker'.partial = worker.partial
      BY <1>0, <2>1, <2>2 DEF WorkerTypes
    <3>2. Screened' = Screened
      BY <3>1, EvidenceStays
    <3> QED BY <2>1, <3>1, <3>2
  <2>3. CASE worker' = [worker EXCEPT !.fetching = @ \ {c}, !.partial = TRUE]
    <3>1. /\ worker'.stage = "fetching" /\ worker'.fetching = worker.fetching \ {c}
          /\ worker'.full = worker.full
          /\ worker'.entry = worker.entry /\ worker'.ids = worker.ids /\ worker'.partial = TRUE
      BY <1>0, <2>1, <2>3 DEF WorkerTypes
    <3>2. Screened' = Screened
      BY <3>1, EvidenceStays
    <3> QED BY <2>1, <3>1, <3>2
  <2> QED BY <1>7, <2>2, <2>3 DEF Fetch
<1>8. CASE Choose
  <2>1. worker.stage = "fetching" /\ worker.fetching = {} /\ worker.entry \in Entry
    BY <1>0, <1>8 DEF Choose, WorkerTypes
  <2>2. CASE worker' = [worker EXCEPT !.stage = "pacing"]
    BY <1>0, <1>1, <2>2 DEF WorkerTypes
  <2>3. ASSUME NEW c \in Adopted(worker.full), worker' = [worker EXCEPT !.stage = "storing", !.win = c]
        PROVE  InHand'
    <3>1. /\ worker'.stage = "storing" /\ worker'.win = c /\ worker'.partial = worker.partial
          /\ worker'.entry = worker.entry /\ worker'.ids = worker.ids
      BY <1>0, <2>3 DEF WorkerTypes
    <3>2. Whole => worker.full = Screened
      BY <2>1
    <3>3. Whole => Rivals = {c}
      BY <1>0, <2>1, <2>3, <3>2, ChosenHasNoRival
    <3>4. Rivals' = Rivals
      BY <3>1, EvidenceStays
    <3> QED BY <3>1, <3>3, <3>4
  <2> QED BY <1>8, <2>2, <2>3 DEF Choose
<1>9. CASE Store \/ Linked \/ \E id \in Id : Link(id)
  <2>1. worker.stage \in {"storing", "linking"} /\ worker'.stage \in {"linking", "pacing"}
    BY <1>0, <1>9 DEF WorkerTypes, Store, Linked, Link
  <2> QED BY <1>1, <2>1
<1>10. CASE UNCHANGED worker
  <2>1. Screened' = Screened /\ Rivals' = Rivals
    BY <1>10, EvidenceStays
  <2> QED BY <1>10, <2>1
<1> QED BY <1>2, <1>3, <1>4, <1>5, <1>6, <1>7, <1>8, <1>9, <1>10
        DEF EnrichmentNext, WorkerStep, Rebuild, DropLibrary, MarkMissed,
            MarkNoticed, Identify, enrichmentVars

LEMMA InHandAlways == EnrichmentSpec => []InHand
<1>1. EnrichmentInit => InHand
  BY DEF EnrichmentInit, Waiting, InHand, Asked, Fetched, TiesAbstain
<1>2. EnrichmentTypeOK /\ InHand /\ [EnrichmentNext]_enrichmentVars => InHand'
  BY InHandStep
<1> QED BY <1>1, <1>2, WorkerTypeCorrect, PTL DEF EnrichmentSpec

(* What is stored for an entry is never a guess, as long as every          *)
(* catalogue and every fetch answered: of all the candidates that pass the *)
(* screen it alone shares an identity with the entry (engine.go, Enrich) - *)
(* for any entries, catalogues and candidates, and however marks, syncs    *)
(* and restarts come in between.                                           *)
THEOREM TiesAbstainHolds == EnrichmentSpec => []TiesAbstain
<1>1. InHand => TiesAbstain
  BY DEF InHand
<1> QED BY <1>1, InHandAlways, PTL

(* An entry is given up for cause: the worker has asked everybody and has  *)
(* all that passes the screen, and none of it can be told for certain.     *)
LEMMA GivenUpForCause ==
  ASSUME EnrichmentTypeOK, InHand, [EnrichmentNext]_enrichmentVars,
         worker.stage \in {"looking", "fetching"}, worker'.stage = "pacing", Whole
  PROVE  Adopted(Screened) = {}
<1>0. WorkerTypes
  BY DEF EnrichmentTypeOK, WorkerTypes
<1>1. CASE ScreenPool
  <2>1. worker.stage = "looking" /\ worker.asking = {}
    BY <1>1 DEF ScreenPool
  <2>2. worker.pool = Candidate
    BY <2>1 DEF InHand, Asked
  <2>3. CASE worker' = [worker EXCEPT !.stage = "fetching", !.fetching = Passing(worker.pool)]
    BY <1>0, <2>3 DEF WorkerTypes
  <2>4. Screened = {}
    BY <1>1, <2>2, <2>3 DEF ScreenPool, Screened
  <2> QED BY <2>4 DEF Adopted
<1>2. CASE Choose
  <2>1. worker.stage = "fetching" /\ worker.fetching = {}
    BY <1>2 DEF Choose
  <2>2. worker.full = Screened
    BY <2>1 DEF InHand, Fetched
  <2>3. ASSUME NEW c, worker' = [worker EXCEPT !.stage = "storing", !.win = c] PROVE FALSE
    BY <1>0, <2>3 DEF WorkerTypes
  <2>4. Adopted(worker.full) = {}
    BY <1>2, <2>3 DEF Choose
  <2> QED BY <2>2, <2>4
<1>3. ASSUME worker'.stage = worker.stage PROVE FALSE
  BY <1>3
<1>4. ASSUME NEW k \in Catalogue, Lookup(k) PROVE FALSE
  BY <1>0, <1>3, <1>4 DEF Lookup, WorkerTypes
<1>5. ASSUME NEW c \in Candidate, Fetch(c) PROVE FALSE
  BY <1>0, <1>3, <1>5 DEF Fetch, WorkerTypes
<1>6. CASE UNCHANGED worker
  BY <1>3, <1>6
<1>7. CASE Restart
  BY <1>7, WaitingTyped DEF Restart
<1> QED BY <1>1, <1>2, <1>4, <1>5, <1>6, <1>7
        DEF EnrichmentNext, WorkerStep, TryNext, Drained, Gather, Store,
            Link, Linked, Rebuild, DropLibrary, MarkMissed,
            MarkNoticed, Identify, enrichmentVars

(* An entry is given up before anything is stored only when no candidate   *)
(* that the catalogues hold can be told for certain, or something failed   *)
(* (engine.go, Enrich): the safety half of MarkedGetsRecord.               *)
THEOREM GivesUpForCauseHolds == EnrichmentSpec => GivesUpForCause
<1>1. /\ EnrichmentTypeOK /\ InHand /\ [EnrichmentNext]_enrichmentVars
      => [worker.stage \in {"looking", "fetching"} /\ worker'.stage = "pacing" /\ ~worker.partial
            => Adopted(Passing(Candidate)) = {}]_enrichmentVars
  BY GivenUpForCause DEF Whole, Screened
<1> QED BY <1>1, WorkerTypeCorrect, InHandAlways, PTL DEF EnrichmentSpec, GivesUpForCause

-----------------------------------------------------------------------------
(* The order of the queue.                                                 *)

LEMMA KeepsItsPlace ==
  ASSUME EnrichmentTypeOK, [EnrichmentNext]_enrichmentVars, NEW j \in DOMAIN queue, queue[j] \in seen'
  PROVE  \E k \in DOMAIN queue' : queue'[k] = queue[j] /\ k <= j /\ (TryNext => k < j)
<1>0. queue \in Seq(Entry) /\ DOMAIN queue = 1..Len(queue) /\ Len(queue) \in Nat /\ j \in Nat /\ j <= j
  <2>1. queue \in Seq(Entry)
    BY DEF EnrichmentTypeOK
  <2>2. DOMAIN queue = 1..Len(queue) /\ Len(queue) \in Nat
    BY <2>1
  <2> QED BY <2>1, <2>2
<1>1. CASE TryNext
  <2>1. j # 1
    BY <1>1, Taking
  <2>2. j \in 2..Len(queue)
    BY <1>0, <2>1
  <2>3. j - 1 \in DOMAIN queue' /\ queue'[j - 1] = queue[j] /\ j - 1 < j /\ j - 1 <= j
    BY <1>0, <1>1, <2>2, Taking
  <2> QED BY <2>3
<1>2. ASSUME ~TryNext, queue' = queue
      PROVE  \E k \in DOMAIN queue' : queue'[k] = queue[j] /\ k <= j /\ (TryNext => k < j)
  BY <1>0, <1>2
<1>3. ASSUME ~TryNext, NEW e \in Entry, Mark(e)
      PROVE  \E k \in DOMAIN queue' : queue'[k] = queue[j] /\ k <= j /\ (TryNext => k < j)
  <2>1. j \in DOMAIN queue' /\ queue'[j] = queue[j]
    BY <1>3, Marking
  <2> QED BY <1>0, <1>3, <2>1
<1>4. ASSUME ~TryNext, NEW e \in Entry, MarkMissed(e) \/ MarkNoticed(e)
      PROVE  Mark(e)
  BY <1>4 DEF MarkMissed, MarkNoticed
<1>5. CASE Restart
  BY <1>5 DEF Restart
<1>6. CASE ~TryNext /\ \E e \in Entry : MarkMissed(e) \/ MarkNoticed(e)
  BY <1>3, <1>4, <1>6
<1>7. queue' = queue \/ TryNext \/ Restart
        \/ \E e \in Entry : MarkMissed(e) \/ MarkNoticed(e)
  BY DEF EnrichmentNext, WorkerStep, Drained, Gather, Lookup, ScreenPool,
         Fetch, Choose, Store, Link, Linked, Rebuild,
         DropLibrary, Identify, enrichmentVars
<1> QED BY <1>1, <1>2, <1>5, <1>6, <1>7

(* Nobody jumps the queue, whoever is marked again and whatever fails      *)
(* (queue.go): what makes NobodyStarves a matter of the worker's fairness. *)
THEOREM NobodyIsOvertakenHolds == EnrichmentSpec => NobodyIsOvertaken
<1>1. EnrichmentTypeOK /\ [EnrichmentNext]_enrichmentVars
      => [\A j \in DOMAIN queue : queue[j] \in seen' =>
            \E k \in DOMAIN queue' : queue'[k] = queue[j] /\ k <= j /\ (TryNext => k < j)]_enrichmentVars
  BY KeepsItsPlace
<1> QED BY <1>1, WorkerTypeCorrect, PTL DEF EnrichmentSpec, NobodyIsOvertaken
=============================================================================
