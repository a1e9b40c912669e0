---------------------------- MODULE LibraryCache ----------------------------
(***************************************************************************)
(* The derived libraries of the users: what the core caches of each, the   *)
(* rebuilds that fill the cache and the sweeps that empty it               *)
(* (core/internal/library/library.go), driven by the availability events   *)
(* of the syncs (core/app/slots.go, eventMux) and by changes of sharing.   *)
(*                                                                         *)
(* One title stands for the catalogue: a library is the set of accounts    *)
(* the user can reach that carry it, as its coverage row lists them.       *)
(* Rebuilds and sweeps take no lock beyond one access of the reaches or of *)
(* the store, so all of them interleave.                                   *)
(***************************************************************************)
EXTENDS Integers, FiniteSets

CONSTANTS
  User, Account,
  Reader,     \* calls for a library in progress at once
  Editor,     \* API calls that edit sharing
  Nothing,    \* no cached library, no registered reach
  MaxSyncs, MaxEdits, MaxFaults \* bounds (model checking only)

ASSUME ConstantsAssumption ==
  /\ User # {}
  /\ {MaxSyncs, MaxEdits, MaxFaults} \subseteq Nat
  /\ \A S \in SUBSET (User \cup Account) : Nothing # S
  /\ Account \cap Editor = {}

Sweeper == Account \cup Editor \* a sync sweeps for its account's event
SweepState ==
  [stage: {"idle", "listing", "deleting"},
   audience: SUBSET User,  \* whose libraries to drop
   keys: SUBSET User]      \* listed and not yet looked at
BuildState ==
  [stage: {"idle", "listing", "storing", "reading"},
   user: User,
   left: SUBSET Account, found: SUBSET Account, \* reaches of the snapshot: to list, listed with the title
   overtaken: BOOLEAN]     \* history: what it reads changed since it began

VARIABLES
  reach,    \* the audience of each registered account
  row,      \* of the title in each account's source cache
  cached,   \* of each user
  sync,     \* of each account: its stage
  sweep, build,
  listening, \* the events reach the library service (it is wired after the boot syncs)
  syncs, edits, faults,
  excused   \* history: users whose cached library may be stale for good

counts == <<syncs, edits, faults>>
vars == <<reach, row, cached, sync, sweep, build, listening, syncs, edits, faults, excused>>

TypeOK ==
  /\ reach \in [Account -> (SUBSET User) \cup {Nothing}]
  /\ row \in [Account -> {"absent", "unmapped", "mapped"}]
  /\ cached \in [User -> (SUBSET Account) \cup {Nothing}]
  /\ sync \in [Account -> {"idle", "resolving", "telling", "sweeping"}]
  /\ sweep \in [Sweeper -> SweepState] /\ build \in [Reader -> BuildState]
  /\ \A w \in Sweeper : sweep[w].stage # "deleting" => sweep[w].keys = {}
  /\ \A a \in Account : sync[a] = "sweeping" <=> sweep[a].stage # "idle"
  /\ listening \in BOOLEAN /\ excused \subseteq User
  /\ syncs \in 0..MaxSyncs /\ edits \in 0..MaxEdits /\ faults \in 0..MaxFaults

NoSweep == [stage |-> "idle", audience |-> {}, keys |-> {}]
NoBuild == [stage |-> "idle", user |-> CHOOSE u \in User : TRUE, left |-> {}, found |-> {},
            overtaken |-> FALSE]

Init ==
  /\ reach \in [Account -> (SUBSET User) \cup {Nothing}]
  /\ row \in [Account -> {"absent", "mapped"}]
  /\ cached = [u \in User |-> Nothing]
  /\ sync = [a \in Account |-> "idle"]
  /\ sweep = [w \in Sweeper |-> NoSweep] /\ build = [r \in Reader |-> NoBuild]
  /\ listening = TRUE /\ syncs = 0 /\ edits = 0 /\ faults = 0 /\ excused = {}

-----------------------------------------------------------------------------
(* What a user may derive.                                                 *)

Authorized(a, u) == reach[a] # Nothing /\ u \in reach[a]
Derivable(u) == {a \in Account : Authorized(a, u)}
Derived(u) == {a \in Derivable(u) : row[a] = "mapped"}

\* builds under way read the reaches or the rows before a change and store after it
Overtaken(us) ==
  build' = [r \in Reader |-> IF build[r].stage \in {"listing", "storing"} /\ build[r].user \in us
                             THEN [build[r] EXCEPT !.overtaken = TRUE] ELSE build[r]]

-----------------------------------------------------------------------------
(* A call for the library of a user.                                       *)

\* a cached library is the answer; without one, or with one that does not decode, it is rebuilt,
\* from a snapshot of the reaches
Read(r, u) ==
  /\ build[r].stage = "idle"
  /\ \/ cached[u] = Nothing /\ faults' = faults
     \/ cached[u] # Nothing /\ faults < MaxFaults /\ faults' = faults + 1
  /\ build' = [build EXCEPT ![r] = [NoBuild EXCEPT !.stage = "listing", !.user = u, !.left = Derivable(u)]]
  /\ UNCHANGED <<reach, row, cached, sync, sweep, listening, syncs, edits, excused>>

\* account after account: its rows, and the entries they map to
ListAccount(r, a) ==
  LET b == build[r] IN
  /\ b.stage = "listing" /\ a \in b.left
  /\ build' = [build EXCEPT ![r].left = @ \ {a},
                            ![r].found = IF row[a] = "mapped" THEN @ \cup {a} ELSE @]
  /\ UNCHANGED <<reach, row, cached, sync, sweep, listening, counts, excused>>

\* the library is stored, whatever was swept meanwhile ...
StoreLibrary(r) ==
  LET b == build[r] IN
  /\ b.stage = "listing" /\ b.left = {}
  /\ cached' = [cached EXCEPT ![b.user] = b.found]
  /\ excused' = IF b.overtaken THEN excused \cup {b.user} ELSE excused \ {b.user}
  /\ build' = [build EXCEPT ![r] = [NoBuild EXCEPT !.stage = "reading", !.user = b.user]]
  /\ UNCHANGED <<reach, row, sync, sweep, listening, counts>>

\* ... and read back for the answer, or the call fails
ReadBack(r) ==
  /\ build[r].stage = "reading"
  /\ build' = [build EXCEPT ![r] = NoBuild]
  /\ UNCHANGED <<reach, row, cached, sync, sweep, listening, counts, excused>>

\* a listing or a lookup fails: nothing is stored
BuildFails(r) ==
  /\ build[r].stage = "listing" /\ faults < MaxFaults /\ faults' = faults + 1
  /\ build' = [build EXCEPT ![r] = NoBuild]
  /\ UNCHANGED <<reach, row, cached, sync, sweep, listening, syncs, edits, excused>>

-----------------------------------------------------------------------------
(* Sweeps.                                                                 *)

\* the users with a cached library are listed, then looked at one by one
ListKeys(w) ==
  /\ sweep[w].stage = "listing"
  /\ sweep' = [sweep EXCEPT ![w].stage = "deleting", ![w].keys = {u \in User : cached[u] # Nothing}]
  /\ UNCHANGED <<reach, row, cached, sync, build, listening, counts, excused>>

DropLibrary(w, u) ==
  /\ sweep[w].stage = "deleting" /\ u \in sweep[w].keys
  /\ sweep' = [sweep EXCEPT ![w].keys = @ \ {u}]
  /\ IF u \in sweep[w].audience
     THEN cached' = [cached EXCEPT ![u] = Nothing] /\ excused' = excused \ {u}
     ELSE UNCHANGED <<cached, excused>>
  /\ UNCHANGED <<reach, row, sync, build, listening, counts>>

\* the sync or the API call that swept goes on
SweepOver(w) ==
  /\ sweep' = [sweep EXCEPT ![w] = NoSweep]
  /\ sync' = [a \in Account |-> IF a = w THEN "idle" ELSE sync[a]]

SweepEnds(w) ==
  /\ sweep[w].stage = "deleting" /\ sweep[w].keys = {}
  /\ SweepOver(w)
  /\ UNCHANGED <<reach, row, cached, build, listening, counts, excused>>

\* a store access fails: the sweep ends there, and nothing does the rest
SweepFails(w) ==
  /\ sweep[w].stage # "idle" /\ faults < MaxFaults /\ faults' = faults + 1
  /\ SweepOver(w)
  /\ excused' = excused \cup sweep[w].audience
  /\ UNCHANGED <<reach, row, cached, build, listening, syncs, edits>>

\* who may have derived an account: for an unknown one, anybody
AudienceOf(a) == IF reach[a] = Nothing THEN User ELSE reach[a]

Sweeping(w, audience) == sweep' = [sweep EXCEPT ![w] = [stage |-> "listing", audience |-> audience, keys |-> {}]]

-----------------------------------------------------------------------------
(* Syncs, as far as the library sees them.                                 *)

\* the title appears in an account, and has no entry yet
SyncStores(a) ==
  /\ sync[a] = "idle" /\ row[a] = "absent" /\ syncs < MaxSyncs /\ syncs' = syncs + 1
  /\ row' = [row EXCEPT ![a] = "unmapped"] /\ sync' = [sync EXCEPT ![a] = "resolving"]
  /\ UNCHANGED <<reach, cached, sweep, build, listening, edits, faults, excused>>

SyncResolves(a) ==
  /\ sync[a] = "resolving"
  /\ row' = [row EXCEPT ![a] = "mapped"] /\ sync' = [sync EXCEPT ![a] = "telling"]
  /\ Overtaken(AudienceOf(a))
  /\ UNCHANGED <<reach, cached, sweep, listening, counts, excused>>

SyncDeletes(a) ==
  /\ sync[a] = "idle" /\ row[a] # "absent" /\ syncs < MaxSyncs /\ syncs' = syncs + 1
  /\ row' = [row EXCEPT ![a] = "absent"] /\ sync' = [sync EXCEPT ![a] = "telling"]
  /\ Overtaken(AudienceOf(a))
  /\ UNCHANGED <<reach, cached, sweep, listening, edits, faults, excused>>

\* the availability event: to the bus, then to the library once it is wired
Publish(a) ==
  /\ sync[a] = "telling"
  /\ IF listening
     THEN Sweeping(a, AudienceOf(a)) /\ sync' = [sync EXCEPT ![a] = "sweeping"] /\ UNCHANGED excused
     ELSE sync' = [sync EXCEPT ![a] = "idle"] /\ excused' = excused \cup AudienceOf(a) /\ UNCHANGED sweep
  /\ UNCHANGED <<reach, row, cached, build, listening, counts>>

\* a sync that fails owes the event of what it changed
SyncAborts(a) ==
  /\ sync[a] \in {"resolving", "telling"} /\ faults < MaxFaults /\ faults' = faults + 1
  /\ sync' = [sync EXCEPT ![a] = "idle"]
  /\ row' \in {row} \cup (IF sync[a] = "resolving" THEN {[row EXCEPT ![a] = "mapped"]} ELSE {})
  /\ Overtaken(AudienceOf(a))
  /\ excused' = excused \cup AudienceOf(a)
  /\ UNCHANGED <<reach, cached, sweep, listening, syncs, edits>>

\* a later sync resolves what an aborted one left, and announces nothing: the row was there
SyncRepairs(a) ==
  /\ sync[a] = "idle" /\ row[a] = "unmapped" /\ syncs < MaxSyncs /\ syncs' = syncs + 1
  /\ row' = [row EXCEPT ![a] = "mapped"]
  /\ Overtaken(AudienceOf(a))
  /\ excused' = excused \cup AudienceOf(a)
  /\ UNCHANGED <<reach, cached, sync, sweep, listening, edits, faults>>

-----------------------------------------------------------------------------
(* Reaches.                                                                *)

\* a new account is published; it has no rows yet
AddReach(a, audience) ==
  /\ reach[a] = Nothing /\ row[a] = "absent" /\ edits < MaxEdits /\ edits' = edits + 1
  /\ reach' = [reach EXCEPT ![a] = audience]
  /\ UNCHANGED <<row, cached, sync, sweep, build, listening, syncs, faults, excused>>

\* an account is taken out; nothing is swept, its items leave with the next rebuild
RemoveReach(a) ==
  /\ reach[a] # Nothing /\ edits < MaxEdits /\ edits' = edits + 1
  /\ reach' = [reach EXCEPT ![a] = Nothing]
  /\ excused' = excused \cup reach[a]
  /\ Overtaken(reach[a])
  /\ UNCHANGED <<row, cached, sync, sweep, listening, syncs, faults>>

\* a slip: only the new audience is swept
BugSwept(before, after) == after
\* those who lose the account and those who gain it hold a wrong library alike
Swept(before, after) == before \cup after

\* the audience is replaced under the lock, and swept after it
SetReachSharing(e, a, audience) ==
  /\ sweep[e].stage = "idle" /\ reach[a] # Nothing /\ edits < MaxEdits /\ edits' = edits + 1
  /\ reach' = [reach EXCEPT ![a] = audience]
  /\ Sweeping(e, Swept(reach[a], audience))
  /\ Overtaken(reach[a] \cup audience)
  /\ UNCHANGED <<row, cached, sync, listening, syncs, faults, excused>>

-----------------------------------------------------------------------------
(* The instance stops and boots again: the cached libraries may last, and  *)
(* the boot syncs run before the library hears their events.               *)

Restart ==
  /\ faults < MaxFaults /\ faults' = faults + 1
  /\ cached' \in {cached, [u \in User |-> Nothing]}
  /\ sync' = [a \in Account |-> "idle"]
  /\ sweep' = [w \in Sweeper |-> NoSweep] /\ build' = [r \in Reader |-> NoBuild]
  /\ listening' = FALSE /\ excused' = User
  /\ UNCHANGED <<reach, row, syncs, edits>>

Listen ==
  /\ ~listening /\ (\A a \in Account : sync[a] = "idle") /\ listening' = TRUE
  /\ UNCHANGED <<reach, row, cached, sync, sweep, build, counts, excused>>

-----------------------------------------------------------------------------

Next ==
  \/ \E r \in Reader : \/ \E u \in User : Read(r, u)
                       \/ \E a \in Account : ListAccount(r, a)
                       \/ StoreLibrary(r) \/ ReadBack(r) \/ BuildFails(r)
  \/ \E w \in Sweeper : ListKeys(w) \/ (\E u \in User : DropLibrary(w, u)) \/ SweepEnds(w) \/ SweepFails(w)
  \/ \E a \in Account : \/ SyncStores(a) \/ SyncResolves(a) \/ SyncDeletes(a) \/ Publish(a)
                        \/ SyncAborts(a) \/ SyncRepairs(a)
                        \/ RemoveReach(a)
                        \/ \E audience \in SUBSET User :
                             AddReach(a, audience) \/ \E e \in Editor : SetReachSharing(e, a, audience)
  \/ Restart \/ Listen

Spec == Init /\ [][Next]_vars

\* a sweep is a loop inside one call, a sync goes on once begun
FairSpec ==
  /\ Spec
  /\ \A w \in Sweeper : WF_vars(ListKeys(w) \/ (\E u \in User : DropLibrary(w, u)) \/ SweepEnds(w))
  /\ \A a \in Account : WF_vars(SyncResolves(a) \/ Publish(a))

-----------------------------------------------------------------------------
(* Properties.                                                             *)

\* a sweep that has begun, or that an announcement still owes, will drop the library of u
Doomed(u) ==
  \/ \E w \in Sweeper : /\ u \in sweep[w].audience
                        /\ \/ sweep[w].stage = "listing"
                           \/ sweep[w].stage = "deleting" /\ u \in sweep[w].keys
  \/ \E a \in Account : sync[a] = "telling" /\ u \in AudienceOf(a)

Stale(u) == cached[u] \notin {Nothing, Derived(u)}

\* A cached library that disagrees with what its user could derive now is one that a sweep will
\* drop (library.go, InvalidateAccount and SetReachSharing), however rebuilds, sweeps, syncs and
\* edits overlap - but for what the code leaves stale: a rebuild that a change overtook, a sweep
\* or a sync that failed, an account taken out, a boot.
StaleIsSwept == \A u \in User : Stale(u) => u \in excused \/ Doomed(u)

\* Under sweeps and syncs that go on once begun, a stale library leaves the cache: nobody keeps
\* seeing an account that was taken from him, or misses one that was given to him.
StaleLeaves == \A u \in User : (Stale(u) /\ u \notin excused) ~> (~Stale(u) \/ u \in excused)

=============================================================================
