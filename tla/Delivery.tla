----------------------------- MODULE Delivery -----------------------------
(***************************************************************************)
(* The delivery engine (core/internal/delivery): play and download         *)
(* sessions, the session->account index, the concurrent-stream quotas, the *)
(* sinks (disk file, device relay tickets), the liveness watchdog and the  *)
(* job record every transition is written to.                              *)
(*                                                                         *)
(* One Start is several steps, because the code takes the engine's mutex   *)
(* only to count and admit: the constraints are read and the sink opened   *)
(* before the mutex, the status write, the staging of the menu and the job *)
(* record come after it.  Every other engine call holds the mutex for its  *)
(* whole effect and is one step, except ApplyAccountCap, which takes it    *)
(* once to look and once per session it ends.                              *)
(***************************************************************************)
EXTENDS Integers, FiniteSets

CONSTANTS
  Session,       \* ids the engine may mint: one Start each
  Member, Provider, AccountId,
  Track,         \* the manifest tracks that carry a location
  Goals,         \* which goals the instance's clients ask for
  MemberLimit,   \* instance policy: concurrentStreams
  AccountPolicy, \* [AccountId -> Nat]: the instance policy under the account's override
  CapValues,     \* declared account caps the owner may record; 0 is "no cap"
  TTL,           \* session-ttl, also the watchdog's tick
  Window,        \* heartbeat interval + grace
  GrantTTL,      \* lifetime of a relay ticket
  MaxTime,       \* bound on the clock (model checking only)
  Cutter,        \* concurrent ApplyAccountCap calls
  TornStores,    \* may another core see half of a string store?
  NoContext, NoCut

Account == [provider: Provider, id: AccountId]
AccountKey == [account: Account, member: Member]

ASSUME BoundsAssumption ==
  /\ MemberLimit \in Nat \ {0}
  /\ AccountPolicy \in [AccountId -> Nat \ {0}]
  /\ CapValues \subseteq Nat
  /\ {TTL, Window, GrantTTL} \subseteq Nat \ {0}
  /\ MaxTime \in Nat
  /\ TornStores \in BOOLEAN
  /\ Goals \subseteq {"play", "download"}

VARIABLES
  now,        \* the engine's clock
  tickDue,    \* the ticker's one-slot channel
  cap,        \* the caps the account records declare
  call,       \* how far each Start (and Complete) has run
  ctx,        \* the session's context: goal, member, account
  limit,      \* the account limit its Start read
  status,     \* Session.Status
  created,    \* Session.createdAt
  proof,      \* lastHeartbeat of a play, lastProgress of a download
  sessions,   \* domain of Engine.sessions
  byAccount,  \* Engine.byAccount
  staged,     \* tracks the staging loop has delivered
  tickets,    \* Relay.tickets
  pulls,      \* sessions whose bytes a client is pulling right now
  file,       \* the disk sink's output file
  jobs,       \* status in the jobs store
  snap,       \* the job a call has rendered and not stored yet
  cut         \* ApplyAccountCap calls in progress

engineVars == <<status, sessions, byAccount>>
startVars  == <<call, ctx, limit, created, staged>>
sinkVars   == <<tickets, file>>
timeVars   == <<now, tickDue>>
vars == <<now, tickDue, cap, call, ctx, limit, status, created, proof,
          sessions, byAccount, staged, tickets, pulls, file, jobs, snap, cut>>

Status == {"none", "queued", "running", "done", "failed", "revoked", "torn"}
JobStatus == {"none", "queued", "running", "done", "failed", "unspecified"}
Stage == {"idle", "prepared", "refused", "admitted", "marking", "staging",
          "failed", "recording", "storing", "replying", "restoring",
          "returned", "completing", "closing"}
FileState == {"none", "open", "stuck", "final", "gone"}
Context == [goal: Goals, member: Member, account: Account]
Ticket == [session: Session, track: Track, expiry: Nat]
Cut == [stage: {"read", "cutting"}, account: Account, limit: Nat,
        snapshot: SUBSET Session, victims: SUBSET Session]

TypeOK ==
  /\ now \in Nat
  /\ tickDue \in BOOLEAN
  /\ cap \in [AccountId -> CapValues]
  /\ call \in [Session -> Stage]
  /\ ctx \in [Session -> Context \cup {NoContext}]
  /\ limit \in [Session -> Nat]
  /\ status \in [Session -> Status]
  /\ created \in [Session -> Nat]
  /\ proof \in [Session -> Nat]
  /\ sessions \in SUBSET Session
  /\ byAccount \in [AccountKey -> SUBSET Session]
  /\ staged \in [Session -> SUBSET Track]
  /\ tickets \in SUBSET Ticket
  /\ pulls \in SUBSET Session
  /\ file \in [Session -> FileState]
  /\ jobs \in [Session -> JobStatus]
  /\ snap \in [Session -> JobStatus]
  /\ cut \in [Cutter -> Cut \cup {NoCut}]

Init ==
  /\ now = 0
  /\ tickDue = FALSE
  /\ cap \in [AccountId -> CapValues]
  /\ call = [s \in Session |-> "idle"]
  /\ ctx = [s \in Session |-> NoContext]
  /\ limit = [s \in Session |-> 0]
  /\ status = [s \in Session |-> "none"]
  /\ created = [s \in Session |-> 0]
  /\ proof = [s \in Session |-> 0]
  /\ sessions = {}
  /\ byAccount = [k \in AccountKey |-> {}]
  /\ staged = [s \in Session |-> {}]
  /\ tickets = {}
  /\ pulls = {}
  /\ file = [s \in Session |-> "none"]
  /\ jobs = [s \in Session |-> "none"]
  /\ snap = [s \in Session |-> "none"]
  /\ cut = [c \in Cutter |-> NoCut]

-----------------------------------------------------------------------------
(* Reading the engine's state *)

IsActive(s) == status[s] \in {"queued", "running"}

KeyOf(s) == [account |-> ctx[s].account, member |-> ctx[s].member]

BugActiveBy(m) == {s \in sessions : status[s] = "running" /\ ctx[s].member = m}
ActiveBy(m) == {s \in sessions : IsActive(s) /\ ctx[s].member = m}

ActiveOn(a) == {s \in sessions : IsActive(s) /\ ctx[s].account = a}

\* min(policy, provider cap); a cap of zero is no cap at all.  Policy and cap
\* are looked up by the account id alone, whatever the provider.
BugEffectiveAccountLimit(a) ==
  IF cap[a.id] = 0 THEN AccountPolicy[a.id] ELSE cap[a.id]
EffectiveAccountLimit(a) ==
  IF cap[a.id] # 0 /\ cap[a.id] < AccountPolicy[a.id]
  THEN cap[a.id] ELSE AccountPolicy[a.id]

LimitValues == {AccountPolicy[i] : i \in AccountId} \cup CapValues

\* Session.toJob: a torn status matches no case and leaves the job unspecified
JobOf(st) == CASE st \in {"queued", "running", "done"} -> st
               [] st \in {"failed", "revoked"} -> "failed"
               [] OTHER -> "unspecified"

\* A session's id is known outside once a play's menu is announced, or once
\* the engine has published its job
IdKnown(s) ==
  \/ call[s] \in {"replying", "restoring", "returned", "completing", "closing"}
  \/ call[s] \in {"recording", "storing"} /\ ctx[s].goal = "play"

-----------------------------------------------------------------------------
(* Pieces of state change shared by the calls *)

\* Sink.Abort of every session in S: relay tickets are revoked, a partial
\* file is closed and removed, a finished file stays
BugFileAborted(S) == file
FileAborted(S) ==
  [s \in Session |-> IF s \in S /\ file[s] \in {"open", "stuck"} THEN "gone" ELSE file[s]]
BugTicketsRevoked(S) == {t \in tickets : t.session \notin S \/ t.track = CHOOSE x \in Track : TRUE}
TicketsRevoked(S) == {t \in tickets : t.session \notin S}

Abort(S) ==
  /\ tickets' = TicketsRevoked(S)
  /\ file' = FileAborted(S)

\* drop every id in S from the session->account index
BugUnindexed(S) == byAccount
Unindexed(S) == [k \in AccountKey |-> byAccount[k] \ S]

Moved(S, st) == [s \in Session |-> IF s \in S THEN st ELSE status[s]]
Recorded(S, st) == [s \in Session |-> IF s \in S THEN JobOf(st) ELSE jobs[s]]

\* the body every revocation shares: status, sink, job
Revoke(S) ==
  /\ S # {}
  /\ status' = Moved(S, "revoked")
  /\ jobs' = Recorded(S, "revoked")
  /\ Abort(S)
  /\ UNCHANGED <<timeVars, cap, startVars, proof, sessions, pulls, snap>>

-----------------------------------------------------------------------------
(* Start *)

\* The manifest is resolved and accepted, the clock and the account's limit
\* are read, the id is minted and the sink is opened; nothing is locked.  A
\* call that fails before this point leaves no trace.
Prepare(s, c) ==
  /\ call[s] = "idle"
  /\ call' = [call EXCEPT ![s] = "prepared"]
  /\ ctx' = [ctx EXCEPT ![s] = c]
  /\ limit' = [limit EXCEPT ![s] = EffectiveAccountLimit(c.account)]
  /\ status' = [status EXCEPT ![s] = "queued"]
  /\ created' = [created EXCEPT ![s] = now]
  /\ proof' = [proof EXCEPT ![s] = now]
  /\ file' = [file EXCEPT ![s] = IF c.goal = "download" THEN "open" ELSE "none"]
  /\ UNCHANGED <<timeVars, cap, sessions, byAccount, staged, tickets, pulls,
                 jobs, snap, cut>>

BugMemberHasRoom(s) == Cardinality(ActiveBy(ctx[s].member)) <= MemberLimit
MemberHasRoom(s) == Cardinality(ActiveBy(ctx[s].member)) < MemberLimit
BugAccountHasRoom(s) == Cardinality(ActiveOn(ctx[s].account)) < EffectiveAccountLimit(ctx[s].account)
AccountHasRoom(s) == Cardinality(ActiveOn(ctx[s].account)) < limit[s]

\* Counting, admission and indexing under one hold of the mutex
Admit(s) ==
  /\ call[s] = "prepared"
  /\ MemberHasRoom(s)
  /\ AccountHasRoom(s)
  /\ sessions' = sessions \cup {s}
  /\ byAccount' = [byAccount EXCEPT ![KeyOf(s)] = @ \cup {s}]
  /\ call' = [call EXCEPT ![s] = "admitted"]
  /\ UNCHANGED <<timeVars, cap, ctx, limit, status, created, proof, staged,
                 sinkVars, pulls, jobs, snap, cut>>

\* A quota refusal: the sink that was opened for the session is not aborted
Refuse(s) ==
  /\ call[s] = "prepared"
  /\ ~MemberHasRoom(s) \/ ~AccountHasRoom(s)
  /\ call' = [call EXCEPT ![s] = "refused"]
  /\ UNCHANGED <<timeVars, cap, ctx, limit, engineVars, created, proof, staged,
                 sinkVars, pulls, jobs, snap, cut>>

\* sess.Status = StatusRunning, written without the mutex.  Where a string
\* store can be seen half done, the status is no known word in between.
MarkRunning(s) ==
  /\ call[s] = "admitted"
  /\ IF TornStores
     THEN /\ call' = [call EXCEPT ![s] = "marking"]
          /\ status' = [status EXCEPT ![s] = "torn"]
     ELSE /\ call' = [call EXCEPT ![s] = "staging"]
          /\ status' = [status EXCEPT ![s] = "running"]
  /\ UNCHANGED <<timeVars, cap, ctx, limit, created, proof, sessions, byAccount,
                 staged, sinkVars, pulls, jobs, snap, cut>>

\* The other half lands.  "revoked" and "running" have one length, so a
\* revocation in between either wins or loses whole.
FinishMark(s) ==
  /\ call[s] = "marking"
  /\ call' = [call EXCEPT ![s] = "staging"]
  /\ \E st \in {"running"} \cup ({status[s]} \ {"torn"}) :
       status' = [status EXCEPT ![s] = st]
  /\ UNCHANGED <<timeVars, cap, ctx, limit, created, proof, sessions, byAccount,
                 staged, sinkVars, pulls, jobs, snap, cut>>

\* The device sink grants a relay ticket for one more track of a play
StageTrack(s, t) ==
  /\ call[s] = "staging"
  /\ ctx[s].goal = "play"
  /\ t \notin staged[s]
  /\ staged' = [staged EXCEPT ![s] = @ \cup {t}]
  /\ tickets' = tickets \cup {[session |-> s, track |-> t, expiry |-> now + GrantTTL]}
  /\ UNCHANGED <<timeVars, cap, call, ctx, limit, engineVars, created, proof,
                 file, pulls, jobs, snap, cut>>

\* The sink rejects a track: Start returns the error and undoes nothing
StageFail(s) ==
  /\ call[s] = "staging"
  /\ ctx[s].goal = "play"
  /\ staged[s] # Track
  /\ call' = [call EXCEPT ![s] = "failed"]
  /\ UNCHANGED <<timeVars, cap, ctx, limit, engineVars, created, proof, staged,
                 sinkVars, pulls, jobs, snap, cut>>

\* The menu is complete and announced; a download stages nothing
MenuReady(s) ==
  /\ call[s] = "staging"
  /\ ctx[s].goal = "play" => staged[s] = Track
  /\ call' = [call EXCEPT ![s] = "recording"]
  /\ UNCHANGED <<timeVars, cap, ctx, limit, engineVars, created, proof, staged,
                 sinkVars, pulls, jobs, snap, cut>>

\* e.recordJob(sess.toJob()), then the API's s.recordJob(sess.Job()), then
\* Complete's record: the job is rendered first and stored later, unlocked
AfterRender == [recording |-> "storing", replying |-> "restoring", completing |-> "closing"]
RenderJob(s) ==
  /\ call[s] \in DOMAIN AfterRender
  /\ call' = [call EXCEPT ![s] = AfterRender[call[s]]]
  /\ snap' = [snap EXCEPT ![s] = JobOf(status[s])]
  /\ UNCHANGED <<timeVars, cap, ctx, limit, engineVars, created, proof, staged,
                 sinkVars, pulls, jobs, cut>>

AfterStore == [storing |-> "replying", restoring |-> "returned", closing |-> "returned"]
StoreJob(s) ==
  /\ call[s] \in DOMAIN AfterStore
  /\ call' = [call EXCEPT ![s] = AfterStore[call[s]]]
  /\ jobs' = [jobs EXCEPT ![s] = snap[s]]
  /\ UNCHANGED <<timeVars, cap, ctx, limit, engineVars, created, proof, staged,
                 sinkVars, pulls, snap, cut>>

-----------------------------------------------------------------------------
(* Liveness *)

\* Heartbeat of a play, Progress of a download: only while active
BugProveAlive(s) ==
  /\ s \in sessions /\ IdKnown(s)
  /\ proof[s] # now
  /\ proof' = [proof EXCEPT ![s] = now]
  /\ created' = [created EXCEPT ![s] = now]
  /\ UNCHANGED <<timeVars, cap, call, ctx, limit, staged, engineVars, sinkVars, pulls,
                 jobs, snap, cut>>
ProveAlive(s) ==
  /\ s \in sessions /\ IdKnown(s)
  /\ IsActive(s)
  /\ proof[s] # now
  /\ proof' = [proof EXCEPT ![s] = now]
  /\ UNCHANGED <<timeVars, cap, startVars, engineVars, sinkVars, pulls, jobs, snap, cut>>

Silent(s) == now - proof[s] > IF ctx[s].goal = "play" THEN Window ELSE TTL
Expired(s) == Silent(s) \/ now - created[s] > TTL

\* One tick of the watchdog: dead sessions fail, leave the map and the index
\* and are recorded; their sinks are left as they are
Sweep ==
  LET dead == {s \in sessions : IsActive(s) /\ Expired(s)} IN
  /\ tickDue
  /\ tickDue' = FALSE
  /\ status' = Moved(dead, "failed")
  /\ jobs' = Recorded(dead, "failed")
  /\ sessions' = sessions \ dead
  /\ byAccount' = Unindexed(dead)
  /\ UNCHANGED <<now, cap, startVars, proof, sinkVars, pulls, snap, cut>>

\* The ticker fires every TTL and drops a tick nobody took
Tick ==
  /\ now < MaxTime
  /\ now' = now + 1
  /\ tickDue' = (tickDue \/ (now + 1) % TTL = 0)
  /\ UNCHANGED <<cap, startVars, proof, engineVars, sinkVars, pulls, jobs, snap, cut>>

\* Complete marks the session done whatever it was and finalizes its sink; a
\* file that cannot be closed or renamed stays where it is.  The job is
\* recorded after the mutex is released (RenderJob, StoreJob).
Complete(s) ==
  /\ call[s] = "returned"
  /\ s \in sessions
  /\ call' = [call EXCEPT ![s] = "completing"]
  /\ status' = [status EXCEPT ![s] = "done"]
  /\ tickets' = TicketsRevoked({s})
  /\ \E f \in IF file[s] = "open" THEN {"final", "stuck"} ELSE {file[s]} :
       file' = [file EXCEPT ![s] = f]
  /\ UNCHANGED <<timeVars, cap, ctx, limit, created, staged, proof, sessions,
                 byAccount, pulls, jobs, snap, cut>>

-----------------------------------------------------------------------------
(* Revocation *)

\* one member on one account, found through the index, active or not
RevokeAccount(k) ==
  /\ Revoke(byAccount[k] \cap sessions)
  /\ byAccount' = [byAccount EXCEPT ![k] = {}]
  /\ UNCHANGED cut

\* everyone on an account id, found by scanning the sessions, active or not
RevokeAllOnAccount(id) ==
  LET S == {s \in sessions : ctx[s].account.id = id} IN
  /\ Revoke(S)
  /\ byAccount' = Unindexed(S)
  /\ UNCHANGED cut

\* active sessions on the account of anyone not kept
RevokeOthersOnAccount(a, keep) ==
  LET S == {s \in ActiveOn(a) : ctx[s].member \notin keep} IN
  /\ Revoke(S)
  /\ byAccount' = Unindexed(S)
  /\ UNCHANGED cut

-----------------------------------------------------------------------------
(* The account cap: the owner records it, ApplyAccountCap enforces it now *)

SetCap(id, n) ==
  /\ cap[id] # n
  /\ cap' = [cap EXCEPT ![id] = n]
  /\ UNCHANGED <<timeVars, startVars, proof, engineVars, sinkVars, pulls, jobs, snap, cut>>

OnlyCut == UNCHANGED <<timeVars, cap, startVars, proof, engineVars, sinkVars,
                       pulls, jobs, snap>>

CutRead(c, a) ==
  /\ cut[c] = NoCut
  /\ cut' = [cut EXCEPT ![c] = [stage |-> "read", account |-> a,
               limit |-> EffectiveAccountLimit(a), snapshot |-> {}, victims |-> {}]]
  /\ OnlyCut

\* V is a cut of the snapshot A down to n sessions, the oldest first (ties,
\* which the code breaks on the id's spelling, are left open)
BugIsCut(A, V, n) == Cardinality(V) = Cardinality(A) - n
IsCut(A, V, n) ==
  /\ Cardinality(V) = Cardinality(A) - n
  /\ \A v \in V, u \in A \ V : created[v] <= created[u]

CutSnapshot(c) ==
  /\ cut[c] # NoCut /\ cut[c].stage = "read"
  /\ LET A == ActiveOn(cut[c].account) IN
     IF Cardinality(A) <= cut[c].limit
     THEN cut' = [cut EXCEPT ![c] = NoCut]
     ELSE \E V \in SUBSET A :
            /\ IsCut(A, V, cut[c].limit)
            /\ cut' = [cut EXCEPT ![c].stage = "cutting", ![c].snapshot = A,
                                  ![c].victims = V]
  /\ OnlyCut

\* The next victim, re-checked under a fresh hold of the mutex
CutEvict(c, s) ==
  /\ cut[c] # NoCut /\ s \in cut[c].victims
  /\ \A v \in cut[c].victims : created[s] <= created[v]
  /\ cut' = [cut EXCEPT ![c].victims = @ \ {s}]
  /\ IF s \in sessions /\ IsActive(s)
     THEN Revoke({s}) /\ byAccount' = Unindexed({s})
     ELSE UNCHANGED <<timeVars, cap, startVars, proof, engineVars, sinkVars,
                      pulls, jobs, snap>>

CutReturn(c) ==
  /\ cut[c] # NoCut /\ cut[c].stage = "cutting" /\ cut[c].victims = {}
  /\ cut' = [cut EXCEPT ![c] = NoCut]
  /\ OnlyCut

-----------------------------------------------------------------------------
(* The relay: a pull checks its ticket once and then streams to the end *)

LiveTicket(t) == now <= t.expiry

PullOpen(s) ==
  /\ IdKnown(s) /\ s \notin pulls
  /\ \E t \in tickets : t.session = s /\ LiveTicket(t)
  /\ pulls' = pulls \cup {s}
  /\ UNCHANGED <<timeVars, cap, startVars, proof, engineVars, sinkVars, jobs, snap, cut>>

PullEnd(s) ==
  /\ s \in pulls
  /\ pulls' = pulls \ {s}
  /\ UNCHANGED <<timeVars, cap, startVars, proof, engineVars, sinkVars, jobs, snap, cut>>

-----------------------------------------------------------------------------
StartStep(s) ==
  \/ \E c \in Context : Prepare(s, c)
  \/ Admit(s) \/ Refuse(s) \/ MarkRunning(s) \/ FinishMark(s)
  \/ \E t \in Track : StageTrack(s, t)
  \/ StageFail(s) \/ MenuReady(s) \/ RenderJob(s) \/ StoreJob(s)

ClientStep(s) == ProveAlive(s) \/ Complete(s) \/ PullOpen(s) \/ PullEnd(s)

RevokeStep ==
  \/ \E k \in AccountKey : RevokeAccount(k)
  \/ \E id \in AccountId : RevokeAllOnAccount(id)
  \/ \E a \in Account, keep \in SUBSET Member : RevokeOthersOnAccount(a, keep)

CapStep ==
  \/ \E id \in AccountId, n \in CapValues : SetCap(id, n)
  \/ \E c \in Cutter : \/ \E a \in Account : CutRead(c, a)
                       \/ CutSnapshot(c) \/ CutReturn(c)
                       \/ \E s \in Session : CutEvict(c, s)

Next ==
  \/ \E s \in Session : StartStep(s) \/ ClientStep(s)
  \/ RevokeStep \/ CapStep \/ Tick \/ Sweep

Spec == Init /\ [][Next]_vars

\* Watch runs for the life of the stack and time does not stop
FairSpec == Spec /\ WF_vars(Tick) /\ WF_vars(Sweep)
-----------------------------------------------------------------------------
(* The quotas, as an abstract gate (StreamGate).  A slot is held by an       *)
(* active session the account index still leads to.                          *)

Holders == {s \in sessions : IsActive(s) /\ s \in byAccount[KeyOf(s)]}

SlotOf(s) == [session |-> s, member |-> ctx[s].member,
              account |-> ctx[s].account, limit |-> limit[s]]

HeldSlots == {SlotOf(s) : s \in Holders}

Gate == INSTANCE StreamGate WITH held <- HeldSlots, Limits <- LimitValues

(* The engine implements the gate: admission takes one slot in one step,    *)
(* under both limits, and no other step takes one - although counting,      *)
(* admitting, marking and staging are separate steps of concurrent starts   *)
(* (delivery.go Start, "counting and admission must be atomic").            *)
GateSpec == Gate!Spec

(* No member has more sessions that are active and indexed than the instance *)
(* policy allows, on whatever accounts.  A session that MarkRunning brought  *)
(* back after its revocation is not indexed and streams beside them.         *)
MemberQuota == Gate!MemberQuota

(* The active, indexed sessions of an account are explained by a limit one  *)
(* of them was admitted under, however caps were edited in between.         *)
AccountQuota == Gate!AccountQuota

(* The min rule of PLAN.md 7.2, over all time: however the owner raised or  *)
(* lowered the declared cap between starts, an account never has more       *)
(* active, indexed sessions than the instance policy allows it.             *)
PolicyCeiling ==
  \A a \in Account :
    Cardinality({s \in Holders : ctx[s].account = a}) <= AccountPolicy[a.id]

-----------------------------------------------------------------------------
(* Safety *)

(* The session->account index leads only to sessions that are in the map,   *)
(* under their own key, and that nothing has ended but Complete: a          *)
(* revocation through the index never ends a session twice, and every end   *)
(* found by another route (sweep, cap cut, removal) leaves the index too.   *)
IndexSound ==
  \A k \in AccountKey : \A s \in byAccount[k] :
    s \in sessions /\ KeyOf(s) = k /\ status[s] \notin {"none", "failed", "revoked"}

(* However a session comes to be revoked - member, account, narrowed        *)
(* sharing, cap cut - in that one step its relay tickets go, its partial    *)
(* file goes, the index forgets it and its job reads failed.                *)
RevocationIsWhole ==
  [][\A s \in Session : (status[s] # "revoked" /\ status'[s] = "revoked") =>
       /\ \A t \in tickets' : t.session # s
       /\ file'[s] \notin {"open", "stuck"}
       /\ s \notin byAccount'[KeyOf(s)]
       /\ jobs'[s] = "failed"]_vars

(* A revoked download is never delivered: no later call, Complete included, *)
(* turns it into a finished file (PLAN.md 7.1: in-progress downloads are    *)
(* discarded).                                                              *)
RevokedIsDiscarded ==
  [][\A s \in Session : (status[s] = "revoked" /\ file[s] # "final") =>
       file'[s] \notin {"open", "stuck", "final"}]_vars

(* A cap cut in progress has marked enough: the sessions of its snapshot it *)
(* will spare fit the limit it read, and none of them is older than one it  *)
(* is about to end.                                                         *)
CutIsOldestFirst ==
  \A c \in Cutter : (cut[c] # NoCut /\ cut[c].stage = "cutting") =>
    LET spared == {s \in cut[c].snapshot \ cut[c].victims : s \in Holders} IN
    /\ Cardinality(spared) <= cut[c].limit
    /\ \A v \in cut[c].victims, u \in spared : created[v] <= created[u]

(* No phantom sessions: whatever clients do or stop doing, every admitted   *)
(* session stops counting against the quotas - heartbeats, a failed start   *)
(* and a start that races a revocation included.  (Sessions seen active     *)
(* with two watchdog periods left on the bounded clock.)                    *)
PhantomsEnd ==
  \A s \in Session :
    (s \in sessions /\ IsActive(s) /\ now + 2 * TTL < MaxTime)
      ~> ~(s \in sessions /\ IsActive(s))
=============================================================================
