--------------------------- MODULE LibraryCacheProofs --------------------------
(* Theorems about the cached libraries, for any number of users, accounts,   *)
(* readers and editors.                                                      *)
EXTENDS LibraryCache, TLAPS

LEMMA Bounds ==
  /\ MaxSyncs \in Nat /\ MaxEdits \in Nat /\ MaxFaults \in Nat
  /\ \A S \in SUBSET User : Nothing # S
  /\ \A S \in SUBSET Account : Nothing # S
  /\ \A a \in Account : a \notin Editor
BY ConstantsAssumption

LEMMA NoBuildIsTyped ==
  NoBuild \in BuildState /\ NoBuild.stage = "idle" /\ NoBuild.overtaken = FALSE
<1>1. (CHOOSE u \in User : TRUE) \in User
  BY ConstantsAssumption
<1> QED BY <1>1 DEF NoBuild, BuildState

LEMMA NoSweepIsTyped ==
  NoSweep \in SweepState /\ NoSweep.stage = "idle" /\ NoSweep.audience = {} /\ NoSweep.keys = {}
BY DEF NoSweep, SweepState

LEMMA AudiencesAreTyped ==
  ASSUME TypeOK, NEW a \in Account
  PROVE  /\ AudienceOf(a) \subseteq User
         /\ reach[a] # Nothing => reach[a] \subseteq User
         /\ \A u \in User : Authorized(a, u) => u \in AudienceOf(a)
BY DEF TypeOK, AudienceOf, Authorized

-----------------------------------------------------------------------------
(* The inductive invariant. That a stale library will be dropped rests on    *)
(* two facts it does not state: which account it is wrong about, and what a  *)
(* build has read so far.                                                    *)

\* a sweep that has begun will drop the library of u
SweepDooms(u) ==
  \E w \in Sweeper : /\ u \in sweep[w].audience
                     /\ \/ sweep[w].stage = "listing"
                        \/ sweep[w].stage = "deleting" /\ u \in sweep[w].keys

\* the cached library of u is wrong about the account x
Wrong(u, x) == cached[u] # Nothing /\ ~(x \in cached[u] <=> Authorized(x, u) /\ row[x] = "mapped")

\* ... because x has changed and has not told yet, or told and is being swept for: a sync that
\* still has to tell only reaches those who are authorized by then
Covered ==
  \A u \in User \ excused, x \in Account :
    Wrong(u, x) => SweepDooms(u) \/ (sync[x] = "telling" /\ Authorized(x, u))

\* what a build that nothing overtook has read is what its user could derive now
Faithful(r) ==
  build[r].stage = "listing" /\ ~build[r].overtaken =>
    /\ \A x \in build[r].left : Authorized(x, build[r].user)
    /\ \A x \in Account : Authorized(x, build[r].user) /\ row[x] = "mapped"
                            <=> x \in build[r].found \/ (x \in build[r].left /\ row[x] = "mapped")

Inv == TypeOK /\ Covered /\ \A r \in Reader : Faithful(r)

LEMMA InvImplies == Inv => StaleIsSwept
<1> SUFFICES ASSUME Inv, NEW u \in User, Stale(u), u \notin excused PROVE Doomed(u)
  BY DEF StaleIsSwept
<1>1. cached[u] # Nothing /\ cached[u] # Derived(u) /\ cached[u] \subseteq Account
  BY DEF Inv, TypeOK, Stale
<1>2. Derived(u) \subseteq Account
        /\ \A x \in Account : x \in Derived(u) <=> Authorized(x, u) /\ row[x] = "mapped"
  BY DEF Derived, Derivable
<1>3. PICK x \in Account : Wrong(u, x)
  BY <1>1, <1>2 DEF Wrong
<1>4. SweepDooms(u) \/ (sync[x] = "telling" /\ u \in AudienceOf(x))
  BY <1>3, AudiencesAreTyped DEF Inv, Covered
<1> QED BY <1>4 DEF Doomed, SweepDooms

-----------------------------------------------------------------------------
LEMMA InvInit == Init => Inv
<1> SUFFICES ASSUME Init PROVE Inv
  OBVIOUS
<1>1. sweep \in [Sweeper -> SweepState] /\ build \in [Reader -> BuildState]
  BY NoSweepIsTyped, NoBuildIsTyped DEF Init
<1>2. \A w \in Sweeper : sweep[w].stage = "idle" /\ sweep[w].keys = {}
  BY NoSweepIsTyped DEF Init
<1>3. \A a \in Account : sync[a] = "idle" /\ sweep[a].stage = "idle"
  BY <1>2 DEF Init, Sweeper
<1>4. TypeOK
  BY <1>1, <1>2, <1>3, Bounds DEF Init, TypeOK
<1>5. Covered
  BY DEF Init, Covered, Wrong
<1>6. \A r \in Reader : build[r].stage = "idle"
  BY NoBuildIsTyped DEF Init
<1>7. \A r \in Reader : Faithful(r)
  BY <1>6 DEF Faithful
<1> QED BY <1>4, <1>5, <1>7 DEF Inv

-----------------------------------------------------------------------------
(* Builds.                                                                   *)

\* a change that the builds of the users us notice, and that nobody else's can see
Concerns(us) ==
  \A u \in User \ us : \A x \in Account :
    /\ Authorized(x, u) => Authorized(x, u)' /\ (row'[x] = "mapped" <=> row[x] = "mapped")
    /\ ~Authorized(x, u) => ~(Authorized(x, u)' /\ row'[x] = "mapped")

LEMMA BuildsKept ==
  ASSUME Inv, NEW us \in SUBSET User, Overtaken(us) \/ (us = {} /\ build' = build), Concerns(us)
  PROVE  build' \in [Reader -> BuildState] /\ \A r \in Reader : Faithful(r)'
<1>3. build' = [q \in Reader |-> build'[q]]
  BY DEF Overtaken, Inv, TypeOK
<1> SUFFICES ASSUME NEW r \in Reader
             PROVE  build'[r] \in BuildState /\ Faithful(r)'
  BY <1>3
<1>1. build \in [Reader -> BuildState] /\ build[r] \in BuildState /\ build[r].user \in User
      /\ build[r].left \subseteq Account
  BY DEF Inv, TypeOK, BuildState
<1>2. [build[r] EXCEPT !.overtaken = TRUE] \in BuildState
  BY <1>1 DEF BuildState
<1>4. CASE build'[r] = build[r] /\ (build[r].user \in us => build[r].stage # "listing")
  <2>1. SUFFICES ASSUME build[r].stage = "listing", ~build[r].overtaken
                 PROVE  Faithful(r)'
    BY <1>1, <1>4 DEF Faithful
  <2>2. build[r].user \in User \ us /\ Faithful(r)
    BY <1>1, <1>4, <2>1 DEF Inv
  <2> DEFINE u == build[r].user
  <2>3. \A x \in Account :
          /\ Authorized(x, u) => /\ reach'[x] # Nothing /\ u \in reach'[x]
                                 /\ (row'[x] = "mapped" <=> row[x] = "mapped")
          /\ ~Authorized(x, u) => ~(reach'[x] # Nothing /\ u \in reach'[x] /\ row'[x] = "mapped")
    BY <2>2 DEF Concerns, Authorized
  <2>4. /\ \A x \in build[r].left : Authorized(x, u)
        /\ \A x \in Account : Authorized(x, u) /\ row[x] = "mapped"
                            <=> x \in build[r].found \/ (x \in build[r].left /\ row[x] = "mapped")
    BY <2>1, <2>2 DEF Faithful
  <2>5. /\ \A x \in build[r].left : reach'[x] # Nothing /\ u \in reach'[x]
        /\ \A x \in Account : reach'[x] # Nothing /\ u \in reach'[x] /\ row'[x] = "mapped"
                            <=> x \in build[r].found \/ (x \in build[r].left /\ row'[x] = "mapped")
    <3>1. \A x \in build[r].left : x \in Account
      BY <1>1
    <3> HIDE DEF u
    <3> QED BY <2>3, <2>4, <3>1
  <2> QED BY <1>4, <2>5 DEF Faithful, Authorized
<1>5. CASE build'[r] = [build[r] EXCEPT !.overtaken = TRUE]
  <2>1. build'[r].overtaken = TRUE
    BY <1>1, <1>5 DEF BuildState
  <2> QED BY <1>2, <1>5, <2>1 DEF Faithful
<1>6. \/ build'[r] = build[r] /\ (build[r].user \in us => build[r].stage # "listing")
      \/ build'[r] = [build[r] EXCEPT !.overtaken = TRUE]
  BY DEF Overtaken
<1> QED BY <1>4, <1>5, <1>6

\* a step of one reader
LEMMA OwnBuild ==
  ASSUME Inv, NEW r \in Reader, NEW q \in BuildState, build' = [build EXCEPT ![r] = q],
         reach' = reach, row' = row,
         q.stage = "listing" /\ ~q.overtaken =>
           /\ \A x \in q.left : Authorized(x, q.user)
           /\ \A x \in Account : Authorized(x, q.user) /\ row[x] = "mapped"
                                   <=> x \in q.found \/ (x \in q.left /\ row[x] = "mapped")
  PROVE  build' \in [Reader -> BuildState] /\ \A p \in Reader : Faithful(p)'
<1>1. build' \in [Reader -> BuildState] /\ build'[r] = q /\ \A p \in Reader \ {r} : build'[p] = build[p]
  BY DEF Inv, TypeOK
<1>2. ASSUME NEW p \in Reader PROVE Faithful(p)'
  <2>1. CASE p = r
    BY <1>1, <2>1 DEF Faithful, Authorized
  <2>2. CASE p # r
    <3>1. Faithful(p) /\ build'[p] = build[p]
      BY <1>1, <2>2 DEF Inv
    <3> QED BY <3>1 DEF Faithful, Authorized
  <2> QED BY <2>1, <2>2
<1> QED BY <1>1, <1>2

\* nothing that a cached library depends on changes for its user, and no sweep is lost to him
LEMMA CoveredKept ==
  ASSUME Inv, excused \subseteq excused', cached' = cached,
         \A u \in User \ excused' : SweepDooms(u) => SweepDooms(u)',
         \A u \in User \ excused' : \A x \in Account :
           \/ SweepDooms(u)'
           \/ sync'[x] = "telling" /\ Authorized(x, u)'
           \/ Wrong(u, x)' => Wrong(u, x) /\ ~(sync[x] = "telling" /\ Authorized(x, u))
  PROVE  Covered'
<1> SUFFICES ASSUME NEW u \in User, NEW x \in Account, u \notin excused', Wrong(u, x)'
             PROVE  SweepDooms(u)' \/ (sync'[x] = "telling" /\ Authorized(x, u)')
  BY DEF Covered
<1>1. CASE Wrong(u, x) /\ ~(sync[x] = "telling" /\ Authorized(x, u))
  <2>1. u \notin excused /\ SweepDooms(u)
    BY <1>1 DEF Inv, Covered
  <2> QED BY <2>1
<1> QED BY <1>1

LEMMA InvBuild ==
  ASSUME Inv, NEW r \in Reader,
         \/ \E u \in User : Read(r, u)
         \/ \E a \in Account : ListAccount(r, a)
         \/ ReadBack(r) \/ BuildFails(r)
  PROVE  Inv'
<1>1. TypeOK /\ build[r] \in BuildState
  BY DEF Inv, TypeOK
<1>2. /\ reach' = reach /\ row' = row /\ cached' = cached /\ sync' = sync /\ sweep' = sweep
      /\ listening' = listening /\ excused' = excused /\ syncs' = syncs /\ edits' = edits
      /\ (faults' = faults \/ (faults < MaxFaults /\ faults' = faults + 1))
  BY DEF Read, ListAccount, ReadBack, BuildFails, counts
<1>3. build' \in [Reader -> BuildState] /\ \A p \in Reader : Faithful(p)'
  <2>1. ASSUME NEW u \in User, Read(r, u) PROVE <1>3!1 /\ <1>3!2
    <3> DEFINE q == [NoBuild EXCEPT !.stage = "listing", !.user = u, !.left = Derivable(u)]
    <3>1. Derivable(u) \subseteq Account /\ \A x \in Account : x \in Derivable(u) <=> Authorized(x, u)
      BY DEF Derivable
    <3>2. /\ q \in BuildState /\ q.user = u /\ q.left = Derivable(u) /\ q.found = {}
      BY <3>1, NoBuildIsTyped DEF NoBuild, BuildState
    <3>3. build' = [build EXCEPT ![r] = q]
      BY <2>1 DEF Read
    <3> HIDE DEF q
    <3> QED BY <1>2, <3>1, <3>2, <3>3, OwnBuild
  <2>2. ASSUME NEW a \in Account, ListAccount(r, a) PROVE <1>3!1 /\ <1>3!2
    <3> DEFINE found == IF row[a] = "mapped" THEN build[r].found \cup {a} ELSE build[r].found
    <3> DEFINE q == [build[r] EXCEPT !.left = @ \ {a}, !.found = found]
    <3>1. /\ q \in BuildState /\ q.user = build[r].user /\ q.left = build[r].left \ {a}
          /\ q.found = found /\ q.overtaken = build[r].overtaken
      BY <1>1 DEF BuildState
    <3>2. build' = [build EXCEPT ![r] = q]
      BY <1>1, <2>2 DEF ListAccount, TypeOK
    <3>3. a \in build[r].left /\ build[r].stage = "listing" /\ Faithful(r)
      BY <2>2 DEF ListAccount, Inv
    <3> HIDE DEF q
    <3>4. q.stage = "listing" /\ ~q.overtaken =>
            /\ \A x \in q.left : Authorized(x, q.user)
            /\ \A x \in Account : Authorized(x, q.user) /\ row[x] = "mapped"
                                    <=> x \in q.found \/ (x \in q.left /\ row[x] = "mapped")
      BY <3>1, <3>3 DEF Faithful
    <3> QED BY <1>2, <3>1, <3>2, <3>4, OwnBuild
  <2>3. CASE ReadBack(r) \/ BuildFails(r)
    <3>1. build' = [build EXCEPT ![r] = NoBuild]
      BY <2>3 DEF ReadBack, BuildFails
    <3> QED BY <1>2, <3>1, NoBuildIsTyped, OwnBuild
  <2> QED BY <2>1, <2>2, <2>3
<1>4. TypeOK'
  <2>1. faults' \in 0..MaxFaults
    BY <1>1, <1>2, Bounds DEF TypeOK
  <2> QED BY <1>1, <1>2, <1>3, <2>1 DEF TypeOK
<1>5. Covered'
  BY <1>2 DEF Inv, Covered, Wrong, SweepDooms, Authorized
<1> QED BY <1>3, <1>4, <1>5 DEF Inv

LEMMA InvStore ==
  ASSUME Inv, NEW r \in Reader, StoreLibrary(r)
  PROVE  Inv'
<1> DEFINE b == build[r]
<1>1. TypeOK /\ b \in BuildState /\ b.stage = "listing" /\ b.left = {} /\ Faithful(r)
  BY DEF Inv, TypeOK, StoreLibrary
<1>2. /\ reach' = reach /\ row' = row /\ sync' = sync /\ sweep' = sweep /\ listening' = listening
      /\ syncs' = syncs /\ edits' = edits /\ faults' = faults
      /\ cached' = [cached EXCEPT ![b.user] = b.found]
      /\ excused' = IF b.overtaken THEN excused \cup {b.user} ELSE excused \ {b.user}
  BY DEF StoreLibrary, counts
<1>3. build' \in [Reader -> BuildState] /\ \A p \in Reader : Faithful(p)'
  <2> DEFINE q == [NoBuild EXCEPT !.stage = "reading", !.user = b.user]
  <2>1. q \in BuildState /\ q.stage = "reading"
    BY <1>1, NoBuildIsTyped DEF BuildState
  <2>2. build' = [build EXCEPT ![r] = q]
    BY DEF StoreLibrary
  <2> HIDE DEF q
  <2> QED BY <1>2, <2>1, <2>2, OwnBuild
<1>4. b.user \in User /\ b.found \subseteq Account
  BY <1>1 DEF BuildState
<1>5. ~b.overtaken => \A x \in Account : Authorized(x, b.user) /\ row[x] = "mapped" <=> x \in b.found
  BY <1>1 DEF Faithful
<1> HIDE DEF b
<1>6. TypeOK'
  BY <1>1, <1>2, <1>3, <1>4 DEF TypeOK
<1>7. Covered'
  <2> SUFFICES ASSUME NEW u \in User, NEW x \in Account, u \notin excused', Wrong(u, x)'
               PROVE  SweepDooms(u) \/ (sync[x] = "telling" /\ Authorized(x, u))
    BY <1>2 DEF Covered, SweepDooms, Authorized
  <2>1. u # b.user
    <3> SUFFICES ASSUME u = b.user PROVE FALSE
      OBVIOUS
    <3>1. ~b.overtaken /\ cached'[u] = b.found
      BY <1>1, <1>2 DEF TypeOK
    <3> QED BY <1>2, <1>5, <3>1 DEF Wrong, Authorized
  <2>2. u \notin excused /\ cached'[u] = cached[u]
    BY <1>1, <1>2, <2>1 DEF TypeOK
  <2>3. Wrong(u, x)
    BY <1>2, <2>2 DEF Wrong, Authorized
  <2> QED BY <2>2, <2>3 DEF Inv, Covered
<1> QED BY <1>3, <1>6, <1>7 DEF Inv

-----------------------------------------------------------------------------
(* Sweeps.                                                                   *)
LEMMA OwnSweep ==
  ASSUME TypeOK, NEW w \in Sweeper, NEW q \in SweepState, sweep' = [sweep EXCEPT ![w] = q],
         q.stage # "deleting" => q.keys = {}
  PROVE  /\ sweep' \in [Sweeper -> SweepState] /\ sweep'[w] = q
         /\ \A v \in Sweeper \ {w} : sweep'[v] = sweep[v]
         /\ \A v \in Sweeper : sweep'[v].stage # "deleting" => sweep'[v].keys = {}
BY DEF TypeOK

LEMMA FieldsOfSweep ==
  ASSUME TypeOK, NEW w \in Sweeper
  PROVE  /\ sweep[w] \in SweepState /\ sweep[w].audience \subseteq User /\ sweep[w].keys \subseteq User
         /\ w \in Account => (sync[w] = "sweeping" <=> sweep[w].stage # "idle")
BY DEF TypeOK, SweepState

LEMMA InvListKeys ==
  ASSUME Inv, NEW w \in Sweeper, ListKeys(w)
  PROVE  Inv'
<1> DEFINE q == [sweep[w] EXCEPT !.stage = "deleting", !.keys = {u \in User : cached[u] # Nothing}]
<1>1. TypeOK /\ sweep[w] \in SweepState /\ sweep[w].stage = "listing"
  BY FieldsOfSweep DEF Inv, ListKeys
<1>2. /\ q \in SweepState /\ q.stage = "deleting" /\ q.audience = sweep[w].audience
      /\ q.keys = {u \in User : cached[u] # Nothing}
  BY <1>1 DEF SweepState
<1>3. sweep' = [sweep EXCEPT ![w] = q]
  BY <1>1 DEF ListKeys
<1> HIDE DEF q
<1>4. /\ reach' = reach /\ row' = row /\ cached' = cached /\ sync' = sync /\ build' = build
      /\ listening' = listening /\ excused' = excused
      /\ syncs' = syncs /\ edits' = edits /\ faults' = faults
  BY DEF ListKeys, counts
<1>5. /\ sweep' \in [Sweeper -> SweepState] /\ sweep'[w] = q
      /\ \A v \in Sweeper \ {w} : sweep'[v] = sweep[v]
      /\ \A v \in Sweeper : sweep'[v].stage # "deleting" => sweep'[v].keys = {}
  BY <1>1, <1>2, <1>3, OwnSweep
<1>6. \A a \in Account : sync'[a] = "sweeping" <=> sweep'[a].stage # "idle"
  BY <1>1, <1>2, <1>4, <1>5 DEF TypeOK, Sweeper
<1>7. TypeOK'
  BY <1>1, <1>4, <1>5, <1>6 DEF TypeOK
<1>8. Covered'
  <2> SUFFICES ASSUME NEW u \in User, NEW x \in Account, u \notin excused, Wrong(u, x)
               PROVE  SweepDooms(u)' \/ (sync[x] = "telling" /\ Authorized(x, u))
    BY <1>4 DEF Covered, Wrong, Authorized
  <2>1. u \in q.keys
    BY <1>2 DEF Wrong
  <2>2. SweepDooms(u) => SweepDooms(u)'
    BY <1>2, <1>5, <2>1 DEF SweepDooms
  <2> QED BY <2>2 DEF Inv, Covered
<1>9. \A r \in Reader : Faithful(r)'
  BY <1>4 DEF Inv, Faithful, Authorized
<1> QED BY <1>7, <1>8, <1>9 DEF Inv

LEMMA InvDropLibrary ==
  ASSUME Inv, NEW w \in Sweeper, NEW v \in User, DropLibrary(w, v)
  PROVE  Inv'
<1> DEFINE q == [sweep[w] EXCEPT !.keys = @ \ {v}]
<1>1. TypeOK /\ sweep[w] \in SweepState /\ sweep[w].stage = "deleting"
  BY FieldsOfSweep DEF Inv, DropLibrary
<1>2. /\ q \in SweepState /\ q.stage = "deleting" /\ q.audience = sweep[w].audience
      /\ q.keys = sweep[w].keys \ {v}
  BY <1>1 DEF SweepState
<1>3. sweep' = [sweep EXCEPT ![w] = q]
  BY <1>1 DEF DropLibrary
<1> HIDE DEF q
<1>4. /\ reach' = reach /\ row' = row /\ sync' = sync /\ build' = build
      /\ listening' = listening /\ syncs' = syncs /\ edits' = edits /\ faults' = faults
      /\ IF v \in sweep[w].audience
         THEN cached' = [cached EXCEPT ![v] = Nothing] /\ excused' = excused \ {v}
         ELSE cached' = cached /\ excused' = excused
  BY DEF DropLibrary, counts
<1>5. /\ sweep' \in [Sweeper -> SweepState] /\ sweep'[w] = q
      /\ \A s \in Sweeper \ {w} : sweep'[s] = sweep[s]
      /\ \A s \in Sweeper : sweep'[s].stage # "deleting" => sweep'[s].keys = {}
  BY <1>1, <1>2, <1>3, OwnSweep
<1>6. \A a \in Account : sync'[a] = "sweeping" <=> sweep'[a].stage # "idle"
  BY <1>1, <1>2, <1>4, <1>5 DEF TypeOK, Sweeper
<1>7. TypeOK'
  BY <1>1, <1>4, <1>5, <1>6 DEF TypeOK
<1>8. Covered'
  <2> SUFFICES ASSUME NEW u \in User, NEW x \in Account, u \notin excused', Wrong(u, x)'
               PROVE  SweepDooms(u)' \/ (sync[x] = "telling" /\ Authorized(x, u))
    BY <1>4 DEF Covered, Authorized
  <2>1. ~(u = v /\ v \in sweep[w].audience)
    BY <1>1, <1>4 DEF Wrong, TypeOK
  <2>2. u \notin excused /\ Wrong(u, x)
    BY <1>1, <1>4, <2>1 DEF Wrong, Authorized, TypeOK
  <2>3. SweepDooms(u) => SweepDooms(u)'
    BY <1>1, <1>2, <1>5, <2>1 DEF SweepDooms
  <2> QED BY <2>2, <2>3 DEF Inv, Covered
<1>9. \A r \in Reader : Faithful(r)'
  BY <1>4 DEF Inv, Faithful, Authorized
<1> QED BY <1>7, <1>8, <1>9 DEF Inv

LEMMA InvSweepOver ==
  ASSUME Inv, NEW w \in Sweeper, SweepEnds(w) \/ SweepFails(w)
  PROVE  Inv'
<1>1. TypeOK /\ sweep[w] \in SweepState /\ sweep[w].stage # "idle" /\ sweep[w].audience \subseteq User
  BY FieldsOfSweep DEF Inv, SweepEnds, SweepFails
<1>2. /\ reach' = reach /\ row' = row /\ cached' = cached /\ build' = build
      /\ listening' = listening /\ syncs' = syncs /\ edits' = edits
      /\ (faults' = faults \/ (faults < MaxFaults /\ faults' = faults + 1))
      /\ \/ excused' = excused /\ sweep[w].stage = "deleting" /\ sweep[w].keys = {}
         \/ excused' = excused \cup sweep[w].audience
      /\ sweep' = [sweep EXCEPT ![w] = NoSweep]
      /\ sync' = [a \in Account |-> IF a = w THEN "idle" ELSE sync[a]]
  BY DEF SweepEnds, SweepFails, SweepOver, counts
<1>3. /\ sweep' \in [Sweeper -> SweepState] /\ sweep'[w] = NoSweep
      /\ \A s \in Sweeper \ {w} : sweep'[s] = sweep[s]
      /\ \A s \in Sweeper : sweep'[s].stage # "deleting" => sweep'[s].keys = {}
  BY <1>1, <1>2, NoSweepIsTyped, OwnSweep
<1>4. \A a \in Account : sync'[a] = "sweeping" <=> sweep'[a].stage # "idle"
  BY <1>1, <1>2, <1>3, NoSweepIsTyped DEF TypeOK, Sweeper
<1>5. sync' \in [Account -> {"idle", "resolving", "telling", "sweeping"}] /\ excused' \subseteq User
  BY <1>1, <1>2 DEF TypeOK
<1>6. faults' \in 0..MaxFaults
  BY <1>1, <1>2, Bounds DEF TypeOK
<1>7. TypeOK'
  BY <1>1, <1>2, <1>3, <1>4, <1>5, <1>6 DEF TypeOK
<1>8. Covered'
  <2>1. \A u \in User \ excused' : SweepDooms(u) => SweepDooms(u)'
    BY <1>2, <1>3 DEF SweepDooms
  <2>2. \A x \in Account : sync[x] = "telling" => sync'[x] = "telling"
    BY <1>1, <1>2, FieldsOfSweep
  <2> SUFFICES ASSUME NEW u \in User, NEW x \in Account, u \notin excused', Wrong(u, x)'
               PROVE  SweepDooms(u)' \/ (sync'[x] = "telling" /\ Authorized(x, u)')
    BY DEF Covered
  <2>3. u \notin excused /\ Wrong(u, x)
    BY <1>2 DEF Wrong, Authorized
  <2> QED BY <1>2, <2>1, <2>2, <2>3 DEF Inv, Covered, Authorized
<1>9. \A r \in Reader : Faithful(r)'
  BY <1>2 DEF Inv, Faithful, Authorized
<1> QED BY <1>7, <1>8, <1>9 DEF Inv

-----------------------------------------------------------------------------
(* Syncs.                                                                    *)
SyncStep(a) == SyncStores(a) \/ SyncResolves(a) \/ SyncDeletes(a) \/ SyncAborts(a) \/ SyncRepairs(a)

LEMMA OwnSync ==
  ASSUME TypeOK, NEW a \in Account, NEW s \in {"idle", "resolving", "telling"},
         sync' = [sync EXCEPT ![a] = s], sync[a] # "sweeping", sweep' = sweep
  PROVE  /\ sync' \in [Account -> {"idle", "resolving", "telling", "sweeping"}]
         /\ \A b \in Account : sync'[b] = "sweeping" <=> sweep'[b].stage # "idle"
         /\ sync'[a] = s /\ \A b \in Account \ {a} : sync'[b] = sync[b]
BY DEF TypeOK

\* what the five steps have in common
LEMMA SyncMoves ==
  ASSUME Inv, NEW a \in Account, SyncStep(a)
  PROVE  /\ reach' = reach /\ cached' = cached /\ sweep' = sweep
         /\ listening' = listening /\ edits' = edits
         /\ (syncs' = syncs \/ (syncs < MaxSyncs /\ syncs' = syncs + 1))
         /\ (faults' = faults \/ (faults < MaxFaults /\ faults' = faults + 1))
         /\ sync[a] # "sweeping"
         /\ \E s \in {"idle", "resolving", "telling"} : sync' = [sync EXCEPT ![a] = s]
         /\ \E v \in {"absent", "unmapped", "mapped"} : row' = [row EXCEPT ![a] = v]
         /\ excused' \in {excused, excused \cup AudienceOf(a)}
<1>1. TypeOK /\ row = [row EXCEPT ![a] = row[a]] /\ sync = [sync EXCEPT ![a] = sync[a]]
      /\ row[a] \in {"absent", "unmapped", "mapped"}
  BY DEF Inv, TypeOK
<1>2. CASE SyncStores(a) \/ SyncResolves(a) \/ SyncDeletes(a)
  BY <1>2 DEF SyncStores, SyncResolves, SyncDeletes, counts
<1>3. CASE SyncAborts(a)
  <2>1. row' = row \/ row' = [row EXCEPT ![a] = "mapped"]
    BY <1>3 DEF SyncAborts
  <2>2. \E v \in {"absent", "unmapped", "mapped"} : row' = [row EXCEPT ![a] = v]
    BY <1>1, <2>1
  <2> QED BY <1>3, <2>2 DEF SyncAborts
<1>4. CASE SyncRepairs(a)
  <2>1. sync[a] = "idle" /\ sync' = sync
    BY <1>4 DEF SyncRepairs
  <2>2. \E s \in {"idle", "resolving", "telling"} : sync' = [sync EXCEPT ![a] = s]
    BY <1>1, <2>1
  <2> QED BY <1>4, <2>1, <2>2 DEF SyncRepairs
<1> QED BY <1>2, <1>3, <1>4 DEF SyncStep

\* who is told, or excused, of what a sync changes
LEMMA SyncTells ==
  ASSUME Inv, NEW a \in Account, SyncStep(a)
  PROVE  /\ \/ Overtaken(AudienceOf(a))
            \/ build' = build /\ (row'[a] = "mapped" <=> row[a] = "mapped")
         /\ \A u \in User \ excused' : Authorized(a, u) =>
              \/ sync'[a] = "telling"
              \/ sync[a] # "telling" /\ (row'[a] = "mapped" <=> row[a] = "mapped")
<1>1. TypeOK /\ \A u \in User : Authorized(a, u) => u \in AudienceOf(a)
  BY AudiencesAreTyped DEF Inv
<1>2. CASE SyncStores(a)
  BY <1>1, <1>2 DEF SyncStores, TypeOK
<1>3. CASE SyncResolves(a) \/ SyncDeletes(a)
  BY <1>1, <1>3 DEF SyncResolves, SyncDeletes, TypeOK
<1>4. CASE SyncAborts(a) \/ SyncRepairs(a)
  BY <1>1, <1>4 DEF SyncAborts, SyncRepairs
<1> QED BY <1>2, <1>3, <1>4 DEF SyncStep

LEMMA InvSync ==
  ASSUME Inv, NEW a \in Account, SyncStep(a)
  PROVE  Inv'
<1>1. TypeOK /\ AudienceOf(a) \subseteq User /\ \A u \in User : Authorized(a, u) => u \in AudienceOf(a)
  BY AudiencesAreTyped DEF Inv
<1>2. /\ reach' = reach /\ cached' = cached /\ sweep' = sweep
      /\ listening' = listening /\ edits' = edits /\ sync[a] # "sweeping"
      /\ (syncs' = syncs \/ (syncs < MaxSyncs /\ syncs' = syncs + 1))
      /\ (faults' = faults \/ (faults < MaxFaults /\ faults' = faults + 1))
      /\ excused' \in {excused, excused \cup AudienceOf(a)}
  BY SyncMoves
<1>3. PICK s \in {"idle", "resolving", "telling"} : sync' = [sync EXCEPT ![a] = s]
  BY SyncMoves
<1>4. PICK v \in {"absent", "unmapped", "mapped"} : row' = [row EXCEPT ![a] = v]
  BY SyncMoves
<1>5. /\ row' \in [Account -> {"absent", "unmapped", "mapped"}]
      /\ \A x \in Account \ {a} : row'[x] = row[x]
  BY <1>1, <1>4 DEF TypeOK
<1>6. /\ sync' \in [Account -> {"idle", "resolving", "telling", "sweeping"}]
      /\ \A b \in Account : sync'[b] = "sweeping" <=> sweep'[b].stage # "idle"
      /\ \A b \in Account \ {a} : sync'[b] = sync[b]
  BY <1>1, <1>2, <1>3, OwnSync
<1>7. build' \in [Reader -> BuildState] /\ \A r \in Reader : Faithful(r)'
  <2>1. CASE Overtaken(AudienceOf(a))
    <3>1. Concerns(AudienceOf(a))
      BY <1>1, <1>2, <1>5 DEF Concerns, Authorized
    <3> QED BY <1>1, <2>1, <3>1, BuildsKept
  <2>2. CASE build' = build /\ (row'[a] = "mapped" <=> row[a] = "mapped")
    <3>1. Concerns({})
      BY <1>2, <1>5, <2>2 DEF Concerns, Authorized
    <3>2. {} \in SUBSET User
      OBVIOUS
    <3> QED BY <2>2, <3>1, <3>2, BuildsKept
  <2> QED BY <2>1, <2>2, SyncTells
<1>8. syncs' \in 0..MaxSyncs /\ faults' \in 0..MaxFaults
  BY <1>1, <1>2, Bounds DEF TypeOK
<1>9. TypeOK'
  BY <1>1, <1>2, <1>5, <1>6, <1>7, <1>8 DEF TypeOK
<1>10. Covered'
  <2>1. \A u \in User : SweepDooms(u) => SweepDooms(u)'
    BY <1>2 DEF SweepDooms
  <2>2. ASSUME NEW u \in User \ excused', NEW x \in Account
        PROVE  \/ sync'[x] = "telling" /\ Authorized(x, u)'
               \/ Wrong(u, x)' => Wrong(u, x) /\ ~(sync[x] = "telling" /\ Authorized(x, u))
    <3>1. CASE x # a
      BY <1>2, <1>5, <1>6, <3>1 DEF Wrong, Authorized
    <3>2. CASE x = a /\ Authorized(a, u)
      BY <1>2, <3>2, SyncTells DEF Wrong, Authorized
    <3>3. CASE x = a /\ ~Authorized(a, u)
      BY <1>2, <3>3 DEF Wrong, Authorized
    <3> QED BY <3>1, <3>2, <3>3
  <2>3. excused \subseteq excused'
    BY <1>2
  <2> QED BY <1>2, <2>1, <2>2, <2>3, CoveredKept
<1> QED BY <1>7, <1>9, <1>10 DEF Inv

LEMMA InvPublish ==
  ASSUME Inv, NEW a \in Account, Publish(a)
  PROVE  Inv'
<1>1. /\ TypeOK /\ sync[a] = "telling" /\ AudienceOf(a) \subseteq User
      /\ \A u \in User : Authorized(a, u) => u \in AudienceOf(a)
  BY AudiencesAreTyped DEF Inv, Publish
<1>2. /\ reach' = reach /\ row' = row /\ cached' = cached /\ build' = build
      /\ listening' = listening /\ syncs' = syncs /\ edits' = edits /\ faults' = faults
  BY DEF Publish, counts
<1>3. \A r \in Reader : Faithful(r)'
  BY <1>2 DEF Inv, Faithful, Authorized
<1>4. CASE listening
  <2> DEFINE q == [stage |-> "listing", audience |-> AudienceOf(a), keys |-> {}]
  <2>1. q \in SweepState /\ q.stage = "listing" /\ q.audience = AudienceOf(a) /\ q.keys = {}
    BY <1>1 DEF SweepState
  <2>2. sweep' = [sweep EXCEPT ![a] = q] /\ sync' = [sync EXCEPT ![a] = "sweeping"]
        /\ excused' = excused
    BY <1>4 DEF Publish, Sweeping
  <2>3. a \in Sweeper /\ sweep[a].stage = "idle"
    BY <1>1 DEF TypeOK, Sweeper
  <2> HIDE DEF q
  <2>4. /\ sweep' \in [Sweeper -> SweepState] /\ sweep'[a] = q
        /\ \A s \in Sweeper \ {a} : sweep'[s] = sweep[s]
        /\ \A s \in Sweeper : sweep'[s].stage # "deleting" => sweep'[s].keys = {}
    BY <1>1, <2>1, <2>2, <2>3, OwnSweep
  <2>5. /\ sync' \in [Account -> {"idle", "resolving", "telling", "sweeping"}]
        /\ \A b \in Account : sync'[b] = "sweeping" <=> sweep'[b].stage # "idle"
    BY <1>1, <2>1, <2>2, <2>4 DEF TypeOK, Sweeper
  <2>6. TypeOK'
    BY <1>1, <1>2, <2>2, <2>4, <2>5 DEF TypeOK
  <2>7. \A u \in User : (SweepDooms(u) => SweepDooms(u)') /\ (u \in AudienceOf(a) => SweepDooms(u)')
    BY <2>1, <2>3, <2>4 DEF SweepDooms
  <2>8. ASSUME NEW u \in User, NEW x \in Account
        PROVE  \/ SweepDooms(u)'
               \/ sync'[x] = "telling" /\ Authorized(x, u)'
               \/ Wrong(u, x)' => Wrong(u, x) /\ ~(sync[x] = "telling" /\ Authorized(x, u))
    BY <1>1, <1>2, <2>2, <2>7 DEF Wrong, Authorized, TypeOK
  <2>9. Covered'
    BY <1>2, <2>2, <2>7, <2>8, CoveredKept
  <2> QED BY <1>3, <2>6, <2>9 DEF Inv
<1>5. CASE ~listening
  <2>1. sync' = [sync EXCEPT ![a] = "idle"] /\ excused' = excused \cup AudienceOf(a) /\ sweep' = sweep
    BY <1>5 DEF Publish
  <2>2. /\ sync' \in [Account -> {"idle", "resolving", "telling", "sweeping"}]
        /\ \A b \in Account : sync'[b] = "sweeping" <=> sweep'[b].stage # "idle"
        /\ \A b \in Account \ {a} : sync'[b] = sync[b]
    BY <1>1, <2>1, OwnSync
  <2>3. TypeOK'
    BY <1>1, <1>2, <2>1, <2>2 DEF TypeOK
  <2>4. \A u \in User : SweepDooms(u) => SweepDooms(u)'
    BY <2>1 DEF SweepDooms
  <2>5. ASSUME NEW u \in User \ excused', NEW x \in Account
        PROVE  \/ sync'[x] = "telling" /\ Authorized(x, u)'
               \/ Wrong(u, x)' => Wrong(u, x) /\ ~(sync[x] = "telling" /\ Authorized(x, u))
    BY <1>1, <1>2, <2>1, <2>2 DEF Wrong, Authorized
  <2>6. excused \subseteq excused'
    BY <2>1
  <2>7. Covered'
    BY <1>2, <2>4, <2>5, <2>6, CoveredKept
  <2> QED BY <1>3, <2>3, <2>7 DEF Inv
<1> QED BY <1>4, <1>5

-----------------------------------------------------------------------------
(* Reaches.                                                                  *)

\* what a change of one reach changes
LEMMA OwnReach ==
  ASSUME TypeOK, NEW a \in Account, NEW s \in (SUBSET User) \cup {Nothing}, reach' = [reach EXCEPT ![a] = s]
  PROVE  /\ reach' \in [Account -> (SUBSET User) \cup {Nothing}] /\ reach'[a] = s
         /\ \A x \in Account \ {a} : reach'[x] = reach[x]
BY DEF TypeOK

LEMMA InvAddReach ==
  ASSUME Inv, NEW a \in Account, NEW audience \in SUBSET User, AddReach(a, audience)
  PROVE  Inv'
<1>1. /\ TypeOK /\ reach[a] = Nothing /\ row[a] = "absent" /\ edits < MaxEdits /\ edits' = edits + 1
      /\ reach' = [reach EXCEPT ![a] = audience]
      /\ row' = row /\ cached' = cached /\ sync' = sync /\ sweep' = sweep /\ build' = build
      /\ listening' = listening /\ syncs' = syncs /\ faults' = faults /\ excused' = excused
  BY DEF Inv, AddReach
<1>2. /\ reach' \in [Account -> (SUBSET User) \cup {Nothing}] /\ reach'[a] = audience
      /\ \A x \in Account \ {a} : reach'[x] = reach[x]
  BY <1>1, OwnReach
<1>3. edits' \in 0..MaxEdits
  BY <1>1, Bounds DEF TypeOK
<1>4. TypeOK'
  BY <1>1, <1>2, <1>3 DEF TypeOK
<1>5. \A r \in Reader : Faithful(r)'
  <2>1. Concerns({}) /\ {} \in SUBSET User
    BY <1>1, <1>2 DEF Concerns, Authorized
  <2> QED BY <1>1, <2>1, BuildsKept
<1>6. Covered'
  <2>1. \A u \in User : SweepDooms(u) => SweepDooms(u)'
    BY <1>1 DEF SweepDooms
  <2>2. ASSUME NEW u \in User, NEW x \in Account
        PROVE  \/ sync'[x] = "telling" /\ Authorized(x, u)'
               \/ Wrong(u, x)' => Wrong(u, x) /\ ~(sync[x] = "telling" /\ Authorized(x, u))
    BY <1>1, <1>2 DEF Wrong, Authorized
  <2> QED BY <1>1, <2>1, <2>2, CoveredKept
<1> QED BY <1>4, <1>5, <1>6 DEF Inv

LEMMA InvRemoveReach ==
  ASSUME Inv, NEW a \in Account, RemoveReach(a)
  PROVE  Inv'
<1>1. /\ TypeOK /\ reach[a] # Nothing /\ edits < MaxEdits /\ edits' = edits + 1
      /\ reach' = [reach EXCEPT ![a] = Nothing] /\ Overtaken(reach[a])
      /\ row' = row /\ cached' = cached /\ sync' = sync /\ sweep' = sweep
      /\ listening' = listening /\ syncs' = syncs /\ faults' = faults
      /\ excused' = excused \cup reach[a] /\ reach[a] \in SUBSET User
  BY DEF Inv, RemoveReach, TypeOK
<1>2. /\ reach' \in [Account -> (SUBSET User) \cup {Nothing}] /\ reach'[a] = Nothing
      /\ \A x \in Account \ {a} : reach'[x] = reach[x]
  BY <1>1, OwnReach
<1>3. edits' \in 0..MaxEdits
  BY <1>1, Bounds DEF TypeOK
<1>4. build' \in [Reader -> BuildState] /\ \A r \in Reader : Faithful(r)'
  <2>1. Concerns(reach[a])
    BY <1>1, <1>2 DEF Concerns, Authorized
  <2> QED BY <1>1, <2>1, BuildsKept
<1>5. TypeOK'
  BY <1>1, <1>2, <1>3, <1>4 DEF TypeOK
<1>6. Covered'
  <2>1. \A u \in User : SweepDooms(u) => SweepDooms(u)'
    BY <1>1 DEF SweepDooms
  <2>2. ASSUME NEW u \in User \ excused', NEW x \in Account
        PROVE  \/ sync'[x] = "telling" /\ Authorized(x, u)'
               \/ Wrong(u, x)' => Wrong(u, x) /\ ~(sync[x] = "telling" /\ Authorized(x, u))
    BY <1>1, <1>2 DEF Wrong, Authorized
  <2> QED BY <1>1, <2>1, <2>2, CoveredKept
<1> QED BY <1>4, <1>5, <1>6 DEF Inv

LEMMA InvSetReachSharing ==
  ASSUME Inv, NEW a \in Account, NEW e \in Editor, NEW audience \in SUBSET User,
         SetReachSharing(e, a, audience)
  PROVE  Inv'
<1> DEFINE us == reach[a] \cup audience
<1> DEFINE q == [stage |-> "listing", audience |-> us, keys |-> {}]
<1>1. /\ TypeOK /\ reach[a] # Nothing /\ edits < MaxEdits /\ edits' = edits + 1
      /\ sweep[e].stage = "idle" /\ sweep' = [sweep EXCEPT ![e] = q]
      /\ reach' = [reach EXCEPT ![a] = audience] /\ Overtaken(us) /\ us \in SUBSET User
      /\ row' = row /\ cached' = cached /\ sync' = sync
      /\ listening' = listening /\ syncs' = syncs /\ faults' = faults /\ excused' = excused
  BY DEF Inv, SetReachSharing, Sweeping, Swept, TypeOK
<1>2. /\ reach' \in [Account -> (SUBSET User) \cup {Nothing}] /\ reach'[a] = audience
      /\ \A x \in Account \ {a} : reach'[x] = reach[x]
  BY <1>1, OwnReach
<1>3. e \in Sweeper /\ e \notin Account /\ q \in SweepState
      /\ q.stage = "listing" /\ q.audience = us /\ q.keys = {}
  BY <1>1, Bounds DEF Sweeper, SweepState
<1> HIDE DEF q
<1>4. /\ sweep' \in [Sweeper -> SweepState] /\ sweep'[e] = q
      /\ \A s \in Sweeper \ {e} : sweep'[s] = sweep[s]
      /\ \A s \in Sweeper : sweep'[s].stage # "deleting" => sweep'[s].keys = {}
  BY <1>1, <1>3, OwnSweep
<1>5. \A b \in Account : sync'[b] = "sweeping" <=> sweep'[b].stage # "idle"
  BY <1>1, <1>3, <1>4 DEF TypeOK, Sweeper
<1>6. edits' \in 0..MaxEdits
  BY <1>1, Bounds DEF TypeOK
<1>7. build' \in [Reader -> BuildState] /\ \A r \in Reader : Faithful(r)'
  <2>1. Concerns(us)
    BY <1>1, <1>2 DEF Concerns, Authorized
  <2> QED BY <1>1, <2>1, BuildsKept
<1>8. TypeOK'
  BY <1>1, <1>2, <1>4, <1>5, <1>6, <1>7 DEF TypeOK
<1>9. Covered'
  <2>1. \A u \in User : (SweepDooms(u) => SweepDooms(u)') /\ (u \in us => SweepDooms(u)')
    BY <1>1, <1>3, <1>4 DEF SweepDooms
  <2>2. ASSUME NEW u \in User, NEW x \in Account
        PROVE  \/ SweepDooms(u)'
               \/ sync'[x] = "telling" /\ Authorized(x, u)'
               \/ Wrong(u, x)' => Wrong(u, x) /\ ~(sync[x] = "telling" /\ Authorized(x, u))
    BY <1>1, <1>2, <2>1 DEF Wrong, Authorized
  <2> QED BY <1>1, <2>1, <2>2, CoveredKept
<1> QED BY <1>7, <1>8, <1>9 DEF Inv

-----------------------------------------------------------------------------
(* The instance.                                                             *)
LEMMA InvRestart ==
  ASSUME Inv, Restart
  PROVE  Inv'
<1>1. /\ TypeOK /\ faults < MaxFaults /\ faults' = faults + 1
      /\ cached' \in {cached, [u \in User |-> Nothing]}
      /\ sync' = [a \in Account |-> "idle"]
      /\ sweep' = [w \in Sweeper |-> NoSweep] /\ build' = [r \in Reader |-> NoBuild]
      /\ listening' = FALSE /\ excused' = User
      /\ reach' = reach /\ row' = row /\ syncs' = syncs /\ edits' = edits
  BY DEF Inv, Restart
<1>2. sweep' \in [Sweeper -> SweepState] /\ build' \in [Reader -> BuildState]
  BY <1>1, NoSweepIsTyped, NoBuildIsTyped
<1>3. \A w \in Sweeper : sweep'[w].stage = "idle" /\ sweep'[w].keys = {}
  BY <1>1, NoSweepIsTyped
<1>4. \A a \in Account : sync'[a] = "idle" /\ sweep'[a].stage = "idle"
  BY <1>1, <1>3 DEF Sweeper
<1>5. cached' \in [User -> (SUBSET Account) \cup {Nothing}]
  BY <1>1 DEF TypeOK
<1>6. faults' \in 0..MaxFaults
  BY <1>1, Bounds DEF TypeOK
<1>7. TypeOK'
  BY <1>1, <1>2, <1>3, <1>4, <1>5, <1>6 DEF TypeOK
<1>8. Covered'
  BY <1>1 DEF Covered
<1>9. \A r \in Reader : build'[r].stage = "idle"
  BY <1>1, NoBuildIsTyped
<1>10. \A r \in Reader : Faithful(r)'
  BY <1>9 DEF Faithful
<1> QED BY <1>7, <1>8, <1>10 DEF Inv

LEMMA InvListen ==
  ASSUME Inv, Listen \/ UNCHANGED vars
  PROVE  Inv'
<1>1. /\ reach' = reach /\ row' = row /\ cached' = cached /\ sync' = sync /\ sweep' = sweep
      /\ build' = build /\ listening' \in BOOLEAN /\ excused' = excused
      /\ syncs' = syncs /\ edits' = edits /\ faults' = faults
  BY DEF Inv, TypeOK, Listen, vars, counts
<1> QED BY <1>1 DEF Inv, TypeOK, Covered, Wrong, SweepDooms, Faithful, Authorized

LEMMA InvHolds == Spec => []Inv
<1>1. Inv /\ [Next]_vars => Inv'
  <2> SUFFICES ASSUME Inv, [Next]_vars PROVE Inv'
    OBVIOUS
  <2>1. CASE Listen \/ UNCHANGED vars
    BY <2>1, InvListen
  <2>2. CASE Restart
    BY <2>2, InvRestart
  <2>3. ASSUME NEW r \in Reader,
               \/ \E u \in User : Read(r, u)
               \/ \E a \in Account : ListAccount(r, a)
               \/ StoreLibrary(r) \/ ReadBack(r) \/ BuildFails(r)
        PROVE  Inv'
    BY <2>3, InvBuild, InvStore
  <2>4. ASSUME NEW w \in Sweeper,
               ListKeys(w) \/ (\E u \in User : DropLibrary(w, u)) \/ SweepEnds(w) \/ SweepFails(w)
        PROVE  Inv'
    BY <2>4, InvListKeys, InvDropLibrary, InvSweepOver
  <2>5. ASSUME NEW a \in Account, SyncStep(a) \/ Publish(a) \/ RemoveReach(a)
        PROVE  Inv'
    BY <2>5, InvSync, InvPublish, InvRemoveReach
  <2>6. ASSUME NEW a \in Account, NEW audience \in SUBSET User,
               AddReach(a, audience) \/ \E e \in Editor : SetReachSharing(e, a, audience)
        PROVE  Inv'
    BY <2>6, InvAddReach, InvSetReachSharing
  <2> QED BY <2>1, <2>2, <2>3, <2>4, <2>5, <2>6 DEF Next, SyncStep
<1> QED BY <1>1, InvInit, PTL DEF Spec

\* The reaches, the rows, the cached libraries and the state of every build, sweep and sync have
\* their types; a sweep of an account runs only inside its sync (library.go, slots.go).
THEOREM TypeCorrect == Spec => []TypeOK
<1>1. Inv => TypeOK
  BY DEF Inv
<1> QED BY <1>1, InvHolds, PTL

\* However rebuilds, sweeps, syncs, edits of sharing and restarts interleave, a cached library
\* that disagrees with what its user could derive now is one that a sweep will drop, but for the
\* users whose library the code leaves stale (InvalidateAccount, SetReachSharing, RebuildUser).
THEOREM StaleIsSweptHolds == Spec => []StaleIsSwept
BY InvImplies, InvHolds, PTL
=============================================================================
