--------------------------- MODULE DeliveryProofs ---------------------------
(* Theorems about the delivery engine, for every set of sessions, members, *)
(* accounts and tracks, every policy and every cap.                        *)
EXTENDS Delivery, TLAPS, FiniteSetTheorems, FunctionTheorems

USE DEF timeVars, startVars, engineVars, sinkVars

(* Type correctness of the engine's state and of its callers' progress.    *)
LEMMA TypeInit == Init => TypeOK
<1> SUFFICES ASSUME Init PROVE TypeOK
  OBVIOUS
<1>1. /\ now \in Nat /\ tickDue \in BOOLEAN
      /\ cap \in [AccountId -> CapValues]
      /\ call \in [Session -> Stage]
      /\ ctx \in [Session -> Context \cup {NoContext}]
      /\ limit \in [Session -> Nat]
  BY DEF Init, Stage
<1>2. /\ status \in [Session -> Status]
      /\ created \in [Session -> Nat] /\ proof \in [Session -> Nat]
      /\ file \in [Session -> FileState]
      /\ jobs \in [Session -> JobStatus] /\ snap \in [Session -> JobStatus]
  BY DEF Init, Status, FileState, JobStatus
<1>3. /\ sessions \in SUBSET Session
      /\ byAccount \in [AccountKey -> SUBSET Session]
      /\ staged \in [Session -> SUBSET Track]
      /\ tickets \in SUBSET Ticket /\ pulls \in SUBSET Session
      /\ cut \in [Cutter -> Cut \cup {NoCut}]
  BY DEF Init
<1>. QED  BY <1>1, <1>2, <1>3 DEF TypeOK

LEMMA LimitIsNat ==
  ASSUME TypeOK, NEW a \in Account
  PROVE  EffectiveAccountLimit(a) \in Nat
BY BoundsAssumption DEF TypeOK, EffectiveAccountLimit, Account

LEMMA JobIsStatus ==
  ASSUME NEW st \in Status
  PROVE  JobOf(st) \in JobStatus
BY DEF Status, JobStatus, JobOf

LEMMA AbortTypes ==
  ASSUME TypeOK, NEW S \in SUBSET Session
  PROVE  /\ FileAborted(S) \in [Session -> FileState]
         /\ TicketsRevoked(S) \in SUBSET Ticket
         /\ Unindexed(S) \in [AccountKey -> SUBSET Session]
         /\ \A st \in Status : /\ Moved(S, st) \in [Session -> Status]
                               /\ Recorded(S, st) \in [Session -> JobStatus]
<1>1. FileAborted(S) \in [Session -> FileState]
  BY DEF TypeOK, FileAborted, FileState
<1>2. TicketsRevoked(S) \in SUBSET Ticket
  BY DEF TypeOK, TicketsRevoked
<1>3. Unindexed(S) \in [AccountKey -> SUBSET Session]
  BY DEF TypeOK, Unindexed
<1>4. ASSUME NEW st \in Status
      PROVE  Moved(S, st) \in [Session -> Status] /\ Recorded(S, st) \in [Session -> JobStatus]
  BY JobIsStatus DEF TypeOK, Moved, Recorded
<1>. QED  BY <1>1, <1>2, <1>3, <1>4

LEMMA TypeStart ==
  ASSUME TypeOK, NEW s \in Session, StartStep(s)
  PROVE  TypeOK'
<1>1. ASSUME NEW c \in Context, Prepare(s, c) PROVE TypeOK'
  <2>1. EffectiveAccountLimit(c.account) \in Nat
    BY LimitIsNat DEF Context
  <2>. QED  BY <1>1, <2>1 DEF TypeOK, Prepare, Stage, Status, FileState
<1>2. CASE Admit(s)
  BY <1>2 DEF TypeOK, Admit, Stage
<1>3. CASE Refuse(s)
  BY <1>3 DEF TypeOK, Refuse, Stage
<1>4. CASE MarkRunning(s)
  BY <1>4 DEF TypeOK, MarkRunning, Stage, Status
<1>5. CASE FinishMark(s)
  BY <1>5 DEF TypeOK, FinishMark, Stage, Status
<1>6. ASSUME NEW t \in Track, StageTrack(s, t) PROVE TypeOK'
  BY <1>6, BoundsAssumption DEF TypeOK, StageTrack, Stage, Ticket
<1>7. CASE StageFail(s)
  BY <1>7 DEF TypeOK, StageFail, Stage
<1>8. CASE MenuReady(s)
  BY <1>8 DEF TypeOK, MenuReady, Stage
<1>9. CASE RenderJob(s)
  BY <1>9, JobIsStatus DEF TypeOK, RenderJob, AfterRender, Stage
<1>10. CASE StoreJob(s)
  BY <1>10 DEF TypeOK, StoreJob, AfterStore, Stage
<1>. QED
  BY <1>1, <1>2, <1>3, <1>4, <1>5, <1>6, <1>7, <1>8, <1>9, <1>10 DEF StartStep

LEMMA TypeClient ==
  ASSUME TypeOK, NEW s \in Session, ClientStep(s)
  PROVE  TypeOK'
<1>1. CASE ProveAlive(s)
  BY <1>1 DEF TypeOK, ProveAlive
<1>2. CASE Complete(s)
  <2>1. TicketsRevoked({s}) \in SUBSET Ticket
    BY AbortTypes
  <2>. QED  BY <1>2, <2>1 DEF TypeOK, Complete, Stage, Status, FileState
<1>3. CASE PullOpen(s)
  BY <1>3 DEF TypeOK, PullOpen
<1>4. CASE PullEnd(s)
  BY <1>4 DEF TypeOK, PullEnd
<1>. QED  BY <1>1, <1>2, <1>3, <1>4 DEF ClientStep

LEMMA TypeRevoke ==
  ASSUME TypeOK, NEW S \in SUBSET Session, Revoke(S),
         byAccount' \in [AccountKey -> SUBSET Session],
         cut' \in [Cutter -> Cut \cup {NoCut}]
  PROVE  TypeOK'
<1>1. "revoked" \in Status
  BY DEF Status
<1>. QED
  BY <1>1, AbortTypes DEF TypeOK, Revoke, Abort

LEMMA TypeRevokeStep ==
  ASSUME TypeOK, RevokeStep
  PROVE  TypeOK'
<1>0. cut \in [Cutter -> Cut \cup {NoCut}] /\ byAccount \in [AccountKey -> SUBSET Session]
      /\ sessions \in SUBSET Session
  BY DEF TypeOK
<1>1. ASSUME NEW k \in AccountKey, RevokeAccount(k) PROVE TypeOK'
  BY <1>0, <1>1, TypeRevoke DEF RevokeAccount
<1>2. ASSUME NEW id \in AccountId, RevokeAllOnAccount(id) PROVE TypeOK'
  BY <1>0, <1>2, TypeRevoke, AbortTypes DEF RevokeAllOnAccount
<1>3. ASSUME NEW a \in Account, NEW keep \in SUBSET Member, RevokeOthersOnAccount(a, keep)
      PROVE  TypeOK'
  BY <1>0, <1>3, TypeRevoke, AbortTypes DEF RevokeOthersOnAccount, ActiveOn
<1>. QED  BY <1>1, <1>2, <1>3 DEF RevokeStep

LEMMA TypeCap ==
  ASSUME TypeOK, CapStep
  PROVE  TypeOK'
<1>1. ASSUME NEW id \in AccountId, NEW n \in CapValues, SetCap(id, n) PROVE TypeOK'
  BY <1>1 DEF TypeOK, SetCap
<1>2. ASSUME NEW c \in Cutter, NEW a \in Account, CutRead(c, a) PROVE TypeOK'
  <2>1. EffectiveAccountLimit(a) \in Nat
    BY LimitIsNat
  <2>2. cut' \in [Cutter -> Cut \cup {NoCut}]
    BY <1>2, <2>1 DEF TypeOK, CutRead, Cut
  <2>. QED  BY <1>2, <2>2 DEF TypeOK, CutRead, OnlyCut
<1>3. ASSUME NEW c \in Cutter, CutSnapshot(c) PROVE TypeOK'
  <2>1. cut' \in [Cutter -> Cut \cup {NoCut}]
    <3>1. CASE cut' = [cut EXCEPT ![c] = NoCut]
      BY <3>1 DEF TypeOK
    <3>2. ASSUME NEW V \in SUBSET ActiveOn(cut[c].account),
                 cut' = [cut EXCEPT ![c].stage = "cutting",
                                    ![c].snapshot = ActiveOn(cut[c].account),
                                    ![c].victims = V]
          PROVE  cut' \in [Cutter -> Cut \cup {NoCut}]
      <4>1. ActiveOn(cut[c].account) \in SUBSET Session /\ V \in SUBSET Session
        BY DEF TypeOK, ActiveOn
      <4>2. cut[c] \in Cut
        BY <1>3 DEF TypeOK, CutSnapshot
      <4>. QED  BY <3>2, <4>1, <4>2 DEF TypeOK, Cut
    <3>. QED  BY <1>3, <3>1, <3>2 DEF CutSnapshot
  <2>. QED  BY <1>3, <2>1 DEF TypeOK, CutSnapshot, OnlyCut
<1>4. ASSUME NEW c \in Cutter, CutReturn(c) PROVE TypeOK'
  <2>1. cut' \in [Cutter -> Cut \cup {NoCut}]
    BY <1>4 DEF TypeOK, CutReturn
  <2>. QED  BY <1>4, <2>1 DEF TypeOK, CutReturn, OnlyCut
<1>5. ASSUME NEW c \in Cutter, NEW s \in Session, CutEvict(c, s) PROVE TypeOK'
  <2>1. cut' \in [Cutter -> Cut \cup {NoCut}]
    BY <1>5 DEF TypeOK, CutEvict, Cut
  <2>2. CASE s \in sessions /\ IsActive(s)
    BY <1>5, <2>1, <2>2, TypeRevoke, AbortTypes DEF CutEvict
  <2>3. CASE ~(s \in sessions /\ IsActive(s))
    BY <1>5, <2>1, <2>3 DEF TypeOK, CutEvict
  <2>. QED  BY <2>2, <2>3
<1>. QED  BY <1>1, <1>2, <1>3, <1>4, <1>5 DEF CapStep

LEMMA TypeTime ==
  ASSUME TypeOK, Tick \/ Sweep
  PROVE  TypeOK'
<1>1. CASE Tick
  BY <1>1 DEF TypeOK, Tick
<1>2. CASE Sweep
  <2> DEFINE dead == {s \in sessions : IsActive(s) /\ Expired(s)}
  <2>1. dead \in SUBSET Session /\ "failed" \in Status
    BY DEF TypeOK, Status
  <2>2. /\ Moved(dead, "failed") \in [Session -> Status]
        /\ Recorded(dead, "failed") \in [Session -> JobStatus]
        /\ Unindexed(dead) \in [AccountKey -> SUBSET Session]
    BY <2>1, AbortTypes
  <2>3. /\ status' = Moved(dead, "failed") /\ jobs' = Recorded(dead, "failed")
        /\ byAccount' = Unindexed(dead) /\ sessions' = sessions \ dead
        /\ tickDue' = FALSE
        /\ UNCHANGED <<now, cap, startVars, proof, sinkVars, pulls, snap, cut>>
    BY <1>2 DEF Sweep
  <2>. HIDE DEF dead
  <2>. QED  BY <2>2, <2>3 DEF TypeOK
<1>. QED  BY <1>1, <1>2

LEMMA TypeNext == TypeOK /\ [Next]_vars => TypeOK'
<1> SUFFICES ASSUME TypeOK, [Next]_vars PROVE TypeOK'
  OBVIOUS
<1>1. CASE UNCHANGED vars
  BY <1>1 DEF TypeOK, vars
<1>. QED
  BY <1>1, TypeStart, TypeClient, TypeRevokeStep, TypeCap, TypeTime DEF Next

(* The engine's state keeps its type whatever its callers do.              *)
THEOREM TypeCorrect == Spec => []TypeOK
BY TypeInit, TypeNext, PTL DEF Spec

-----------------------------------------------------------------------------
(* The inductive invariant behind the quotas.  IndexSound alone is not      *)
(* inductive: a start admits whatever id it minted, so the id must be new;  *)
(* and the unlocked write of "running" would bring a dead session back into *)
(* the index, were a session not out of the index from the moment it dies.  *)

KnownContext ==
  \A s \in Session : call[s] # "idle" =>
    /\ ctx[s] \in Context
    /\ limit[s] \in LimitValues
    /\ limit[s] <= AccountPolicy[ctx[s].account.id]

FreshUntilAdmitted ==
  \A s \in Session : call[s] \in {"idle", "prepared", "refused"} => s \notin sessions

QueuedUntilMarked ==
  \A s \in Session :
    /\ call[s] = "prepared" => status[s] = "queued"
    /\ (call[s] = "admitted" /\ s \in sessions /\ s \in byAccount[KeyOf(s)])
         => status[s] = "queued"

WholeStores == ~TornStores => \A s \in Session : call[s] # "marking"

Ind == TypeOK /\ KnownContext /\ FreshUntilAdmitted /\ QueuedUntilMarked /\ WholeStores /\ IndexSound

LEMMA IndInit == Init => Ind
<1> SUFFICES ASSUME Init PROVE Ind
  OBVIOUS
<1>1. TypeOK /\ sessions = {} /\ (\A s \in Session : call[s] = "idle")
      /\ (\A k \in AccountKey : byAccount[k] = {})
  BY TypeInit DEF Init
<1>2. KnownContext /\ FreshUntilAdmitted /\ QueuedUntilMarked /\ WholeStores
  BY <1>1 DEF KnownContext, FreshUntilAdmitted, QueuedUntilMarked, WholeStores
<1>3. IndexSound
  BY <1>1 DEF IndexSound
<1>. QED  BY <1>1, <1>2, <1>3 DEF Ind

LEMMA LimitBounded ==
  ASSUME TypeOK, NEW a \in Account
  PROVE  /\ EffectiveAccountLimit(a) \in LimitValues
         /\ EffectiveAccountLimit(a) <= AccountPolicy[a.id]
<1>1. a.id \in AccountId
  BY DEF Account
<1>2. /\ AccountPolicy[a.id] \in Nat /\ AccountPolicy[a.id] \in LimitValues
      /\ cap[a.id] \in Nat /\ cap[a.id] \in LimitValues
  BY <1>1, BoundsAssumption DEF TypeOK, LimitValues
<1>. QED  BY <1>2 DEF EffectiveAccountLimit

(* Steps that only end sessions: a session whose status they change was in *)
(* the map and leaves the index.                                           *)
LEMMA EndingKeeps ==
  ASSUME Ind, TypeOK', UNCHANGED <<call, ctx, limit>>,
         sessions' \subseteq sessions,
         \A k \in AccountKey : byAccount'[k] \subseteq byAccount[k] \cap sessions',
         \A s \in Session : status'[s] # status[s] =>
           s \in sessions /\ \A k \in AccountKey : s \notin byAccount'[k]
  PROVE  Ind'
<1>1. KnownContext' /\ FreshUntilAdmitted' /\ WholeStores'
  BY DEF Ind, KnownContext, FreshUntilAdmitted, WholeStores
<1>2. IndexSound'
  <2> SUFFICES ASSUME NEW k \in AccountKey, NEW s \in byAccount'[k]
               PROVE  s \in sessions' /\ KeyOf(s)' = k /\ status'[s] \notin {"none", "failed", "revoked"}
    BY DEF IndexSound
  <2>1. s \in byAccount[k] /\ s \in sessions' /\ s \in Session
    BY DEF Ind, TypeOK
  <2>2. status'[s] = status[s]
    BY <2>1
  <2>. QED  BY <2>1, <2>2 DEF Ind, IndexSound, KeyOf
<1>3. QueuedUntilMarked'
  <2> SUFFICES ASSUME NEW s \in Session
               PROVE  /\ call'[s] = "prepared" => status'[s] = "queued"
                      /\ (call'[s] = "admitted" /\ s \in sessions' /\ s \in byAccount'[KeyOf(s)'])
                           => status'[s] = "queued"
    BY DEF QueuedUntilMarked
  <2>1. KeyOf(s)' = KeyOf(s)
    BY DEF KeyOf
  <2>2. CASE call[s] = "prepared"
    <3>1. s \notin sessions /\ status[s] = "queued"
      BY <2>2 DEF Ind, FreshUntilAdmitted, QueuedUntilMarked
    <3>. QED  BY <3>1, <2>2
  <2>3. CASE call[s] = "admitted" /\ s \in sessions' /\ s \in byAccount'[KeyOf(s)']
    <3>1. KeyOf(s) \in AccountKey
      BY <2>3 DEF Ind, KnownContext, KeyOf, Context, AccountKey
    <3>2. s \in sessions /\ s \in byAccount[KeyOf(s)]
      BY <2>1, <2>3, <3>1
    <3>3. status[s] = "queued"
      BY <2>3, <3>2 DEF Ind, QueuedUntilMarked
    <3>4. status'[s] = status[s]
      BY <2>1, <2>3, <3>1
    <3>. QED  BY <2>3, <3>3, <3>4
  <2>. QED  BY <2>2, <2>3
<1>. QED  BY <1>1, <1>2, <1>3 DEF Ind

(* Steps that leave the sessions, their contexts and the index alone.      *)
LEMMA NeutralKeeps ==
  ASSUME Ind, TypeOK', UNCHANGED <<ctx, limit, engineVars>>,
         \/ UNCHANGED call
         \/ \E s \in Session, x \in Stage \ {"idle", "prepared", "admitted", "marking"} :
              /\ call[s] # "idle" /\ (x = "refused" => call[s] = "prepared")
              /\ call' = [call EXCEPT ![s] = x]
  PROVE  Ind'
<1>1. KnownContext' /\ FreshUntilAdmitted' /\ WholeStores'
  BY DEF Ind, TypeOK, KnownContext, FreshUntilAdmitted, WholeStores
<1>2. IndexSound'
  BY DEF Ind, IndexSound, KeyOf
<1>3. QueuedUntilMarked'
  BY DEF Ind, TypeOK, QueuedUntilMarked, KeyOf
<1>. QED  BY <1>1, <1>2, <1>3 DEF Ind

LEMMA IndPrepare ==
  ASSUME Ind, TypeOK', NEW s \in Session, NEW c \in Context, Prepare(s, c)
  PROVE  Ind'
<1>1. s \notin sessions /\ call[s] = "idle"
  BY DEF Ind, FreshUntilAdmitted, Prepare
<1>2. KnownContext'
  <2>1. c.account \in Account
    BY DEF Context
  <2>2. EffectiveAccountLimit(c.account) \in LimitValues
        /\ EffectiveAccountLimit(c.account) <= AccountPolicy[c.account.id]
    BY <2>1, LimitBounded DEF Ind
  <2>. QED  BY <2>2 DEF Ind, TypeOK, KnownContext, Prepare
<1>3. FreshUntilAdmitted' /\ WholeStores'
  BY <1>1 DEF Ind, TypeOK, FreshUntilAdmitted, WholeStores, Prepare
<1>4. IndexSound'
  BY <1>1 DEF Ind, TypeOK, IndexSound, KeyOf, Prepare
<1>5. QueuedUntilMarked'
  BY <1>1 DEF Ind, TypeOK, QueuedUntilMarked, KeyOf, Prepare
<1>. QED  BY <1>2, <1>3, <1>4, <1>5 DEF Ind

LEMMA IndAdmit ==
  ASSUME Ind, TypeOK', NEW s \in Session, Admit(s)
  PROVE  Ind'
<1>1. /\ call[s] = "prepared" /\ status[s] = "queued" /\ s \notin sessions
      /\ KeyOf(s) \in AccountKey
  BY DEF Ind, FreshUntilAdmitted, QueuedUntilMarked, Admit, KnownContext, Context,
         AccountKey, KeyOf
<1>2. KnownContext' /\ FreshUntilAdmitted' /\ WholeStores'
  BY <1>1 DEF Ind, TypeOK, KnownContext, FreshUntilAdmitted, WholeStores, Admit
<1>3. IndexSound'
  <2> SUFFICES ASSUME NEW k \in AccountKey, NEW x \in byAccount'[k]
               PROVE  x \in sessions' /\ KeyOf(x)' = k /\ status'[x] \notin {"none", "failed", "revoked"}
    BY DEF IndexSound
  <2>1. KeyOf(x)' = KeyOf(x) /\ status' = status /\ sessions' = sessions \cup {s}
    BY DEF Admit, KeyOf
  <2>2. x \in byAccount[k] \/ (x = s /\ k = KeyOf(s))
    BY DEF Ind, TypeOK, Admit
  <2>. QED  BY <1>1, <2>1, <2>2 DEF Ind, IndexSound
<1>4. QueuedUntilMarked'
  <2> SUFFICES ASSUME NEW x \in Session
               PROVE  /\ call'[x] = "prepared" => status'[x] = "queued"
                      /\ (call'[x] = "admitted" /\ x \in sessions' /\ x \in byAccount'[KeyOf(x)'])
                           => status'[x] = "queued"
    BY DEF QueuedUntilMarked
  <2>1. CASE x = s
    BY <1>1, <2>1 DEF Admit
  <2>2. CASE x # s
    <3>1. KeyOf(x)' = KeyOf(x) /\ status' = status /\ call'[x] = call[x]
          /\ (x \in sessions' => x \in sessions)
      BY <2>2 DEF Admit, KeyOf, Ind, TypeOK
    <3>2. x \in byAccount'[KeyOf(x)] => x \in byAccount[KeyOf(x)]
      BY <2>2 DEF Admit, Ind, TypeOK
    <3>. QED  BY <3>1, <3>2 DEF Ind, QueuedUntilMarked
  <2>. QED  BY <2>1, <2>2
<1>. QED  BY <1>2, <1>3, <1>4 DEF Ind

(* The unlocked status writes.  They may bring a dead session back to      *)
(* life, but never one the index still leads to.                           *)
LEMMA IndMark ==
  ASSUME Ind, TypeOK', NEW s \in Session, MarkRunning(s) \/ FinishMark(s) \/ Complete(s)
  PROVE  Ind'
<1>1. /\ UNCHANGED <<ctx, limit, sessions, byAccount>>
      /\ call[s] \in {"admitted", "marking", "returned"}
      /\ \E x \in {"marking", "staging", "completing"} :
           (x = "marking" => TornStores) /\ call' = [call EXCEPT ![s] = x]
  BY DEF MarkRunning, FinishMark, Complete
<1>2. KnownContext' /\ FreshUntilAdmitted' /\ WholeStores'
  BY <1>1 DEF Ind, TypeOK, KnownContext, FreshUntilAdmitted, WholeStores
<1>3. \E st \in {"torn", "running", "done", status[s]} : status' = [status EXCEPT ![s] = st]
  BY DEF MarkRunning, FinishMark, Complete
<1>4. IndexSound'
  BY <1>1, <1>3 DEF Ind, TypeOK, IndexSound, KeyOf
<1>5. QueuedUntilMarked'
  BY <1>1, <1>3 DEF Ind, TypeOK, QueuedUntilMarked, KeyOf
<1>. QED  BY <1>2, <1>4, <1>5 DEF Ind

LEMMA IndStart ==
  ASSUME Ind, TypeOK', NEW s \in Session, StartStep(s)
  PROVE  Ind'
<1>1. ASSUME NEW c \in Context, Prepare(s, c) PROVE Ind'
  BY <1>1, IndPrepare
<1>2. CASE Admit(s)
  BY <1>2, IndAdmit
<1>3. CASE MarkRunning(s) \/ FinishMark(s)
  BY <1>3, IndMark
<1>4. CASE Refuse(s)
  BY <1>4, NeutralKeeps DEF Refuse, Stage
<1>5. ASSUME NEW t \in Track, StageTrack(s, t) PROVE Ind'
  BY <1>5, NeutralKeeps DEF StageTrack
<1>6. CASE StageFail(s) \/ MenuReady(s)
  BY <1>6, NeutralKeeps DEF StageFail, MenuReady, Stage
<1>7. CASE RenderJob(s) \/ StoreJob(s)
  <2>1. /\ UNCHANGED <<ctx, limit, engineVars>> /\ call[s] # "idle"
        /\ \E x \in {"storing", "restoring", "closing", "replying", "returned"} :
             call' = [call EXCEPT ![s] = x]
    BY <1>7 DEF RenderJob, StoreJob, AfterRender, AfterStore
  <2>. QED  BY <2>1, NeutralKeeps DEF Stage
<1>. QED  BY <1>1, <1>2, <1>3, <1>4, <1>5, <1>6, <1>7 DEF StartStep

LEMMA IndClient ==
  ASSUME Ind, TypeOK', NEW s \in Session, ClientStep(s)
  PROVE  Ind'
<1>1. CASE Complete(s)
  BY <1>1, IndMark
<1>2. CASE ProveAlive(s) \/ PullOpen(s) \/ PullEnd(s)
  BY <1>2, NeutralKeeps DEF ProveAlive, PullOpen, PullEnd
<1>. QED  BY <1>1, <1>2 DEF ClientStep

(* The five ways a session is ended share one shape.                       *)
LEMMA IndEnd ==
  ASSUME Ind, TypeOK', NEW S \in SUBSET sessions, NEW st,
         status' = Moved(S, st), sessions' \subseteq sessions,
         \A k \in AccountKey : byAccount'[k] \subseteq (byAccount[k] \ S) \cap sessions',
         UNCHANGED <<call, ctx, limit>>
  PROVE  Ind'
<1>1. \A s \in Session : status'[s] # status[s] =>
        s \in sessions /\ \A k \in AccountKey : s \notin byAccount'[k]
  BY DEF Moved
<1>2. \A k \in AccountKey : byAccount'[k] \subseteq byAccount[k] \cap sessions'
  OBVIOUS
<1>. QED  BY <1>1, <1>2, EndingKeeps

LEMMA IndRevoke ==
  ASSUME Ind, TypeOK', NEW S \in SUBSET sessions, Revoke(S), byAccount' = Unindexed(S)
  PROVE  Ind'
<1>1. \A k \in AccountKey : byAccount'[k] \subseteq (byAccount[k] \ S) \cap sessions'
  BY DEF Ind, IndexSound, Unindexed, Revoke
<1>. QED  BY <1>1, IndEnd DEF Revoke

LEMMA IndRevokeStep ==
  ASSUME Ind, TypeOK', RevokeStep
  PROVE  Ind'
<1>1. ASSUME NEW k \in AccountKey, RevokeAccount(k) PROVE Ind'
  <2>1. byAccount[k] \subseteq sessions
    BY DEF Ind, IndexSound
  <2>2. \A x \in AccountKey : x # k => byAccount[x] \cap byAccount[k] = {}
    BY DEF Ind, IndexSound
  <2>3. \A x \in AccountKey :
          byAccount'[x] \subseteq (byAccount[x] \ (byAccount[k] \cap sessions)) \cap sessions'
    BY <1>1, <2>2 DEF RevokeAccount, Revoke, Ind, TypeOK, IndexSound
  <2>. QED  BY <1>1, <2>3, IndEnd DEF RevokeAccount, Revoke
<1>2. ASSUME NEW id \in AccountId, RevokeAllOnAccount(id) PROVE Ind'
  BY <1>2, IndRevoke DEF RevokeAllOnAccount
<1>3. ASSUME NEW a \in Account, NEW keep \in SUBSET Member, RevokeOthersOnAccount(a, keep)
      PROVE  Ind'
  BY <1>3, IndRevoke DEF RevokeOthersOnAccount, ActiveOn
<1>. QED  BY <1>1, <1>2, <1>3 DEF RevokeStep

LEMMA IndCap ==
  ASSUME Ind, TypeOK', CapStep
  PROVE  Ind'
<1>1. ASSUME NEW id \in AccountId, NEW n \in CapValues, SetCap(id, n) PROVE Ind'
  BY <1>1, NeutralKeeps DEF SetCap
<1>2. ASSUME NEW c \in Cutter,
             (\E a \in Account : CutRead(c, a)) \/ CutSnapshot(c) \/ CutReturn(c)
      PROVE  Ind'
  BY <1>2, NeutralKeeps DEF CutRead, CutSnapshot, CutReturn, OnlyCut
<1>3. ASSUME NEW c \in Cutter, NEW s \in Session, CutEvict(c, s) PROVE Ind'
  <2>1. CASE s \in sessions /\ IsActive(s)
    BY <1>3, <2>1, IndRevoke DEF CutEvict
  <2>2. CASE ~(s \in sessions /\ IsActive(s))
    BY <1>3, <2>2, NeutralKeeps DEF CutEvict
  <2>. QED  BY <2>1, <2>2
<1>. QED  BY <1>1, <1>2, <1>3 DEF CapStep

LEMMA IndTime ==
  ASSUME Ind, TypeOK', Tick \/ Sweep
  PROVE  Ind'
<1>1. CASE Tick
  BY <1>1, NeutralKeeps DEF Tick
<1>2. CASE Sweep
  <2> DEFINE dead == {s \in sessions : IsActive(s) /\ Expired(s)}
  <2>1. /\ status' = Moved(dead, "failed") /\ byAccount' = Unindexed(dead)
        /\ sessions' = sessions \ dead /\ UNCHANGED <<call, ctx, limit>>
    BY <1>2 DEF Sweep
  <2>2. dead \in SUBSET sessions
    OBVIOUS
  <2>. HIDE DEF dead
  <2>3. \A k \in AccountKey : byAccount'[k] \subseteq (byAccount[k] \ dead) \cap sessions'
    BY <2>1 DEF Ind, IndexSound, Unindexed
  <2>. QED  BY <2>1, <2>2, <2>3, IndEnd
<1>. QED  BY <1>1, <1>2

LEMMA IndNext == Ind /\ [Next]_vars => Ind'
<1> SUFFICES ASSUME Ind, [Next]_vars PROVE Ind'
  OBVIOUS
<1>1. TypeOK'
  BY TypeNext DEF Ind
<1>2. CASE UNCHANGED vars
  BY <1>1, <1>2, NeutralKeeps DEF vars
<1>. QED
  BY <1>1, <1>2, IndStart, IndClient, IndRevokeStep, IndCap, IndTime DEF Next

LEMMA Inductive == Spec => []Ind
BY IndInit, IndNext, PTL DEF Spec

(* The index leads only to sessions of the map, under their own key, that  *)
(* nothing has ended but Complete.                                         *)
THEOREM IndexIsSound == Spec => []IndexSound
<1>1. Ind => IndexSound
  BY DEF Ind
<1>. QED  BY <1>1, Inductive, PTL

-----------------------------------------------------------------------------
(* Refinement.  A slot appears in the gate in the one step that admits its *)
(* session; every other step of the engine keeps the slots or gives some   *)
(* back.  The engine's count of active sessions is at least the gate's     *)
(* count of slots, since an active session may have left the index.        *)

LEMMA SameCardinality == \A S : Gate!Cardinality(S) = Cardinality(S)
BY DEF Gate!Cardinality, Cardinality

LEMMA HoldersFinite ==
  ASSUME IsFiniteSet(Session), Ind, NEW T \in SUBSET Session, NEW P \in SUBSET {SlotOf(s) : s \in T}
  PROVE  /\ IsFiniteSet(P) /\ IsFiniteSet(T)
         /\ Cardinality(P) \in Nat /\ Cardinality(T) \in Nat
         /\ Cardinality(P) <= Cardinality(T)
<1>1. IsFiniteSet(T)
  BY FS_Subset
<1>2. IsFiniteSet({SlotOf(s) : s \in T}) /\ Cardinality({SlotOf(s) : s \in T}) <= Cardinality(T)
  <2> DEFINE Slots == {SlotOf(s) : s \in T}
  <2> DEFINE f == [s \in T |-> SlotOf(s)]
  <2>1. f \in [T -> Slots] /\ \A x \in Slots : \E s \in T : f[s] = x
    OBVIOUS
  <2>2. f \in Surjection(T, Slots)
    BY <2>1 DEF Surjection
  <2>. QED  BY <1>1, <2>2, FS_Surjection
<1>3. IsFiniteSet(P) /\ Cardinality(P) <= Cardinality({SlotOf(s) : s \in T})
  BY <1>2, FS_Subset
<1>. QED  BY <1>1, <1>2, <1>3, FS_CardinalityType

(* A step that gives back slots, or none.                                  *)
Releases == Holders' \subseteq Holders /\ \A s \in Holders' : SlotOf(s)' = SlotOf(s)

LEMMA GateRelease ==
  ASSUME Releases
  PROVE  [Gate!Next]_HeldSlots
<1>1. HeldSlots' \subseteq HeldSlots
  BY DEF HeldSlots, Releases
<1>2. HeldSlots' = HeldSlots \ (HeldSlots \ HeldSlots')
  BY <1>1
<1>3. Gate!Release
  BY <1>2 DEF Gate!Release, HeldSlots
<1>. QED  BY <1>3 DEF Gate!Next

LEMMA AdmitHolds ==
  ASSUME Ind, NEW s \in Session, Admit(s)
  PROVE  Holders' = Holders \cup {s}
<1>0. /\ call[s] = "prepared" /\ status[s] = "queued" /\ s \notin sessions /\ KeyOf(s) \in AccountKey
  BY DEF Ind, FreshUntilAdmitted, QueuedUntilMarked, Admit, KnownContext, Context, AccountKey, KeyOf
<1>1. /\ UNCHANGED <<ctx, status>> /\ sessions' = sessions \cup {s}
      /\ byAccount' = [byAccount EXCEPT ![KeyOf(s)] = @ \cup {s}]
  BY DEF Admit
<1>2. ASSUME NEW x \in sessions
      PROVE  (IsActive(x) /\ x \in byAccount[KeyOf(x)]) <=> (IsActive(x)' /\ x \in byAccount'[KeyOf(x)'])
  <2>1. x # s /\ IsActive(x)' = IsActive(x) /\ KeyOf(x)' = KeyOf(x)
    BY <1>0, <1>1 DEF IsActive, KeyOf
  <2>2. x \in byAccount'[KeyOf(x)] <=> x \in byAccount[KeyOf(x)]
    BY <1>0, <1>1, <2>1 DEF Ind, TypeOK
  <2>. QED  BY <2>1, <2>2
<1>3. IsActive(s)' /\ s \in byAccount'[KeyOf(s)']
  BY <1>0, <1>1 DEF IsActive, KeyOf, Ind, TypeOK
<1>. QED  BY <1>0, <1>1, <1>2, <1>3 DEF Holders

LEMMA GateAdmit ==
  ASSUME IsFiniteSet(Session), Ind, NEW s \in Session, Admit(s)
  PROVE  [Gate!Next]_HeldSlots
<1>1. /\ call[s] = "prepared" /\ status[s] = "queued" /\ s \notin sessions
      /\ ctx[s] \in Context /\ limit[s] \in LimitValues /\ limit[s] \in Nat
      /\ KeyOf(s) \in AccountKey
  BY DEF Ind, TypeOK, FreshUntilAdmitted, QueuedUntilMarked, Admit, KnownContext, Context,
         AccountKey, KeyOf
<1>2. SlotOf(s) \in Gate!Slot
  BY <1>1 DEF SlotOf, Gate!Slot, Context
<1>3. Holders' = Holders \cup {s}
  BY AdmitHolds
<1>4. HeldSlots' = HeldSlots \cup {SlotOf(s)}
  <2>1. \A x \in Session : SlotOf(x)' = SlotOf(x)
    BY DEF SlotOf, Admit
  <2>2. Holders \subseteq Session
    BY DEF Holders, Ind, TypeOK
  <2>. QED  BY <1>3, <2>1, <2>2 DEF HeldSlots
<1>5. SlotOf(s).session \notin {g.session : g \in HeldSlots}
  BY <1>1 DEF HeldSlots, SlotOf, Holders
<1>6. Cardinality(Gate!HeldBy(SlotOf(s).member)) < MemberLimit
  <2> DEFINE T == ActiveBy(ctx[s].member)
  <2>1. T \in SUBSET Session
    BY DEF ActiveBy, Ind, TypeOK
  <2>2. Gate!HeldBy(SlotOf(s).member) \in SUBSET {SlotOf(x) : x \in T}
    BY DEF Gate!HeldBy, HeldSlots, SlotOf, Holders, ActiveBy
  <2>3. Cardinality(T) < MemberLimit
    BY DEF Admit, MemberHasRoom
  <2>. HIDE DEF T
  <2>4. /\ Cardinality(Gate!HeldBy(SlotOf(s).member)) \in Nat /\ Cardinality(T) \in Nat
        /\ Cardinality(Gate!HeldBy(SlotOf(s).member)) <= Cardinality(T)
    BY <2>1, <2>2, HoldersFinite
  <2>5. MemberLimit \in Nat
    BY BoundsAssumption
  <2>. QED  BY <2>3, <2>4, <2>5
<1>7. Cardinality(Gate!HeldOn(SlotOf(s).account)) < SlotOf(s).limit
  <2> DEFINE T == ActiveOn(ctx[s].account)
  <2>1. T \in SUBSET Session
    BY DEF ActiveOn, Ind, TypeOK
  <2>2. Gate!HeldOn(SlotOf(s).account) \in SUBSET {SlotOf(x) : x \in T}
    BY DEF Gate!HeldOn, HeldSlots, SlotOf, Holders, ActiveOn
  <2>3. Cardinality(T) < limit[s] /\ SlotOf(s).limit = limit[s]
    BY DEF Admit, AccountHasRoom, SlotOf
  <2>. HIDE DEF T
  <2>4. /\ Cardinality(Gate!HeldOn(SlotOf(s).account)) \in Nat /\ Cardinality(T) \in Nat
        /\ Cardinality(Gate!HeldOn(SlotOf(s).account)) <= Cardinality(T)
    BY <2>1, <2>2, HoldersFinite
  <2>. QED  BY <1>1, <2>3, <2>4
<1>8. Gate!Admit(SlotOf(s))
  BY <1>4, <1>5, <1>6, <1>7, SameCardinality DEF Gate!Admit, HeldSlots
<1>. QED  BY <1>2, <1>8 DEF Gate!Next

(* A step after which no session is active and indexed that was not so     *)
(* before, under the same context.                                         *)
LEMMA GateShrink ==
  ASSUME Ind, UNCHANGED <<ctx, limit>>, sessions' \subseteq sessions,
         \A k \in AccountKey : byAccount'[k] \subseteq byAccount[k],
         \A s \in sessions' : IsActive(s)' =>
             (IsActive(s) \/ \A k \in AccountKey : s \notin byAccount'[k])
  PROVE  Releases
<1>1. ASSUME NEW s \in sessions
      PROVE  KeyOf(s) \in AccountKey /\ KeyOf(s)' = KeyOf(s)
  BY DEF Ind, TypeOK, FreshUntilAdmitted, KnownContext, KeyOf, Context, AccountKey
<1>2. Holders' \subseteq Holders
  <2> SUFFICES ASSUME NEW s \in Holders' PROVE s \in Holders
    OBVIOUS
  <2>1. s \in sessions' /\ IsActive(s)' /\ s \in byAccount'[KeyOf(s)']
    BY DEF Holders
  <2>2. KeyOf(s) \in AccountKey /\ KeyOf(s)' = KeyOf(s)
    BY <1>1, <2>1
  <2>3. s \in byAccount[KeyOf(s)] /\ IsActive(s) /\ s \in sessions
    BY <2>1, <2>2
  <2>. QED  BY <2>3 DEF Holders
<1>3. \A s \in Holders' : SlotOf(s)' = SlotOf(s)
  BY DEF SlotOf
<1>. QED  BY <1>2, <1>3 DEF Releases

(* The steps that neither admit nor prepare a session.                     *)
LEMMA GateOther ==
  ASSUME ~TornStores, Ind, Next,
         ~ \E s \in Session : Admit(s) \/ \E c \in Context : Prepare(s, c)
  PROVE  Releases
<1>1. ASSUME NEW s \in Session, MarkRunning(s) PROVE Releases
  <2>1. /\ call[s] = "admitted" /\ status' = [status EXCEPT ![s] = "running"]
        /\ UNCHANGED <<ctx, limit, sessions, byAccount>>
    BY <1>1 DEF MarkRunning
  <2>2. s \in sessions /\ ~IsActive(s) => \A k \in AccountKey : s \notin byAccount[k]
    BY <2>1 DEF Ind, QueuedUntilMarked, IndexSound, IsActive
  <2>. QED  BY <2>1, <2>2, GateShrink DEF IsActive, Ind, TypeOK
<1>2. ASSUME NEW s \in Session, Complete(s) PROVE Releases
  BY <1>2, GateShrink DEF Complete, IsActive, Ind, TypeOK
<1>3. ASSUME UNCHANGED <<ctx, limit, engineVars>> PROVE Releases
  BY <1>3, GateShrink DEF IsActive
<1>4. ASSUME NEW S \in SUBSET sessions, Revoke(S),
             \A k \in AccountKey : byAccount'[k] \subseteq byAccount[k]
      PROVE  Releases
  BY <1>4, GateShrink DEF Revoke, Moved, IsActive, Ind, TypeOK
<1>5. CASE Sweep
  <2> DEFINE dead == {s \in sessions : IsActive(s) /\ Expired(s)}
  <2>1. /\ status' = Moved(dead, "failed") /\ byAccount' = Unindexed(dead)
        /\ sessions' = sessions \ dead /\ UNCHANGED <<ctx, limit>>
    BY <1>5 DEF Sweep
  <2>. HIDE DEF dead
  <2>2. \A k \in AccountKey : byAccount'[k] \subseteq byAccount[k]
    BY <2>1 DEF Unindexed
  <2>3. \A s \in sessions' : IsActive(s)' => IsActive(s)
    BY <2>1 DEF Moved, IsActive, Ind, TypeOK
  <2>. QED  BY <2>1, <2>2, <2>3, GateShrink
<1>6. CASE Tick
  BY <1>3, <1>6 DEF Tick
<1>7. CASE RevokeStep
  <2>1. ASSUME NEW k \in AccountKey, RevokeAccount(k) PROVE Releases
    <3>1. \A x \in AccountKey : byAccount'[x] \subseteq byAccount[x]
      BY <2>1 DEF RevokeAccount, Ind, TypeOK
    <3>. QED  BY <1>4, <2>1, <3>1 DEF RevokeAccount
  <2>2. ASSUME NEW S \in SUBSET sessions, Revoke(S), byAccount' = Unindexed(S)
        PROVE  Releases
    BY <1>4, <2>2 DEF Unindexed
  <2>3. ASSUME NEW id \in AccountId, RevokeAllOnAccount(id) PROVE Releases
    BY <2>2, <2>3 DEF RevokeAllOnAccount
  <2>4. ASSUME NEW a \in Account, NEW keep \in SUBSET Member, RevokeOthersOnAccount(a, keep)
        PROVE  Releases
    BY <2>2, <2>4 DEF RevokeOthersOnAccount, ActiveOn
  <2>. QED  BY <1>7, <2>1, <2>3, <2>4 DEF RevokeStep
<1>8. CASE CapStep
  <2>1. ASSUME NEW c \in Cutter, NEW s \in Session, CutEvict(c, s) PROVE Releases
    <3>1. CASE s \in sessions /\ IsActive(s)
      <4>1. Revoke({s}) /\ byAccount' = Unindexed({s}) /\ {s} \in SUBSET sessions
        BY <2>1, <3>1 DEF CutEvict
      <4>. QED  BY <1>4, <4>1 DEF Unindexed
    <3>2. CASE ~(s \in sessions /\ IsActive(s))
      BY <1>3, <2>1, <3>2 DEF CutEvict
    <3>. QED  BY <3>1, <3>2
  <2>2. ASSUME NEW c \in Cutter,
               (\E a \in Account : CutRead(c, a)) \/ CutSnapshot(c) \/ CutReturn(c)
        PROVE  Releases
    BY <1>3, <2>2 DEF CutRead, CutSnapshot, CutReturn, OnlyCut
  <2>3. ASSUME NEW id \in AccountId, NEW n \in CapValues, SetCap(id, n)
        PROVE  Releases
    BY <1>3, <2>3 DEF SetCap
  <2>. QED  BY <1>8, <2>1, <2>2, <2>3 DEF CapStep
<1>9. ASSUME NEW s \in Session, StartStep(s) \/ ClientStep(s) PROVE Releases
  <2>1. CASE \/ Refuse(s) \/ (\E t \in Track : StageTrack(s, t)) \/ StageFail(s)
             \/ MenuReady(s) \/ RenderJob(s) \/ StoreJob(s)
             \/ ProveAlive(s) \/ PullOpen(s) \/ PullEnd(s)
    BY <1>3, <2>1 DEF Refuse, StageTrack, StageFail, MenuReady, RenderJob, StoreJob,
                      ProveAlive, PullOpen, PullEnd
  <2>2. ~FinishMark(s)
    BY DEF Ind, WholeStores, FinishMark
  <2>. QED  BY <1>1, <1>2, <1>9, <2>1, <2>2 DEF StartStep, ClientStep
<1>. QED  BY <1>5, <1>6, <1>7, <1>8, <1>9 DEF Next

LEMMA GatePrepare ==
  ASSUME Ind, NEW s \in Session, NEW c \in Context, Prepare(s, c)
  PROVE  Releases
<1>1. s \notin sessions
  BY DEF Ind, FreshUntilAdmitted, Prepare
<1>2. \A x \in sessions : /\ status'[x] = status[x] /\ KeyOf(x)' = KeyOf(x)
                          /\ SlotOf(x)' = SlotOf(x)
  BY <1>1 DEF Prepare, KeyOf, SlotOf, Ind, TypeOK
<1>3. Holders' = Holders
  BY <1>2 DEF Holders, IsActive, Prepare
<1>. QED  BY <1>2, <1>3 DEF Holders, Releases

LEMMA OnlyAdmitTakes ==
  ASSUME ~TornStores, Ind, [Next]_vars
  PROVE  Releases \/ \E s \in Session : Admit(s)
<1>1. CASE UNCHANGED vars
  BY <1>1 DEF vars, Releases, Holders, SlotOf, IsActive, KeyOf
<1>2. ASSUME NEW s \in Session, NEW c \in Context, Prepare(s, c) PROVE Releases
  BY <1>2, GatePrepare
<1>. QED  BY <1>1, <1>2, GateOther

LEMMA GateStep ==
  ASSUME IsFiniteSet(Session), ~TornStores
  PROVE  Ind /\ [Next]_vars => [Gate!Next]_HeldSlots
BY OnlyAdmitTakes, GateAdmit, GateRelease

(* The engine implements the gate, where a status is never seen half       *)
(* written: one step takes a slot, under both limits, and no other does.   *)
THEOREM ImplementsGate ==
  ASSUME IsFiniteSet(Session), ~TornStores
  PROVE  Spec => GateSpec
<1>1. Init => Gate!Init
  BY DEF Init, Gate!Init, Holders, HeldSlots
<1>2. Ind /\ [Next]_vars => [Gate!Next]_HeldSlots
  BY GateStep
<1>. QED  BY <1>1, <1>2, Inductive, PTL DEF Spec, GateSpec, Gate!Spec, HeldSlots

-----------------------------------------------------------------------------
(* The gate keeps both quotas.                                             *)

(* The inductive invariant.  Cardinality means nothing of an infinite set, *)
(* so the set of held slots is shown finite along with the quotas.         *)
Quotas == IsFiniteSet(HeldSlots) /\ Gate!MemberQuota /\ Gate!AccountQuota

LEMMA SubsetOfFinite ==
  ASSUME NEW S, IsFiniteSet(S), NEW T \in SUBSET S
  PROVE  IsFiniteSet(T) /\ Cardinality(T) \in Nat /\ Cardinality(T) <= Cardinality(S)
BY FS_Subset, FS_CardinalityType

LEMMA OneMore ==
  ASSUME NEW S, IsFiniteSet(S), NEW x
  PROVE  /\ Cardinality(S) \in Nat
         /\ IsFiniteSet(S \cup {x})
         /\ Cardinality(S \cup {x}) <= Cardinality(S) + 1
BY FS_AddElement, FS_CardinalityType

LEMMA GateLimits == Gate!LimitsAreNatural
BY BoundsAssumption DEF Gate!LimitsAreNatural, LimitValues

LEMMA AdmitKeeps ==
  ASSUME Quotas, NEW h \in Gate!Slot, Gate!Admit(h)
  PROVE  Quotas'
<1>1. IsFiniteSet(HeldSlots) /\ HeldSlots' = HeldSlots \cup {h}
  BY SameCardinality DEF Quotas, Gate!Admit
<1>2. IsFiniteSet(HeldSlots')
  BY <1>1, OneMore
<1>3. Gate!MemberQuota'
  <2> SUFFICES ASSUME NEW m \in Member
               PROVE  Cardinality(Gate!HeldBy(m)') <= MemberLimit
    BY SameCardinality DEF Gate!MemberQuota
  <2>1. IsFiniteSet(Gate!HeldBy(m))
    BY <1>1, SubsetOfFinite DEF Gate!HeldBy
  <2>2. CASE m = h.member
    <3>1. Gate!HeldBy(m)' = Gate!HeldBy(m) \cup {h}
      BY <1>1, <2>2 DEF Gate!HeldBy
    <3>2. Cardinality(Gate!HeldBy(m)) < MemberLimit
      BY SameCardinality, <2>2 DEF Gate!Admit
    <3>3. /\ Cardinality(Gate!HeldBy(m)) \in Nat
          /\ Cardinality(Gate!HeldBy(m) \cup {h}) \in Nat
          /\ Cardinality(Gate!HeldBy(m) \cup {h}) <= Cardinality(Gate!HeldBy(m)) + 1
      BY <2>1, OneMore, FS_CardinalityType
    <3>4. Cardinality(Gate!HeldBy(m) \cup {h}) <= MemberLimit
      BY GateLimits, <3>2, <3>3 DEF Gate!LimitsAreNatural
    <3>. QED  BY <3>1, <3>4
  <2>3. CASE m # h.member
    <3>1. Gate!HeldBy(m)' = Gate!HeldBy(m)
      BY <1>1, <2>3 DEF Gate!HeldBy
    <3>. QED  BY SameCardinality, <3>1 DEF Quotas, Gate!MemberQuota
  <2>. QED  BY <2>2, <2>3
<1>4. Gate!AccountQuota'
  <2> SUFFICES ASSUME NEW a \in Account, NEW group \in SUBSET Gate!HeldOn(a)', group # {}
               PROVE  \E g \in group : Cardinality(group) <= g.limit
    BY SameCardinality DEF Gate!AccountQuota
  <2>1. IsFiniteSet(Gate!HeldOn(a)) /\ (group \ {h}) \in SUBSET Gate!HeldOn(a)
    BY <1>1, SubsetOfFinite DEF Gate!HeldOn
  <2>2. CASE h \in group
    <3>1. a = h.account
      BY <2>2, <1>1 DEF Gate!HeldOn
    <3>2. Cardinality(Gate!HeldOn(a)) < h.limit
      BY SameCardinality, <3>1 DEF Gate!Admit
    <3>3. Cardinality(group \ {h}) \in Nat /\ Cardinality(group \ {h}) < h.limit /\ IsFiniteSet(group \ {h})
      <4>1. /\ IsFiniteSet(group \ {h}) /\ Cardinality(group \ {h}) \in Nat
            /\ Cardinality(group \ {h}) <= Cardinality(Gate!HeldOn(a))
        BY <2>1, SubsetOfFinite
      <4>2. Cardinality(Gate!HeldOn(a)) \in Nat /\ h.limit \in Nat
        BY GateLimits, <2>1, FS_CardinalityType DEF Gate!Slot, Gate!LimitsAreNatural
      <4>. QED  BY <4>1, <4>2, <3>2
    <3>4. group = (group \ {h}) \cup {h}
      BY <2>2
    <3>5. Cardinality(group) <= Cardinality(group \ {h}) + 1 /\ Cardinality(group) \in Nat
      BY <3>3, <3>4, OneMore, FS_CardinalityType
    <3>6. h.limit \in Nat
      BY GateLimits DEF Gate!Slot, Gate!LimitsAreNatural
    <3>7. Cardinality(group) <= h.limit
      BY <3>3, <3>5, <3>6
    <3>. QED  BY <3>7, <2>2
  <2>3. CASE h \notin group
    <3>1. group \in SUBSET Gate!HeldOn(a)
      BY <2>1, <2>3
    <3>. QED  BY SameCardinality, <3>1 DEF Quotas, Gate!AccountQuota
  <2>. QED  BY <2>2, <2>3
<1>. QED  BY <1>2, <1>3, <1>4 DEF Quotas

LEMMA ReleaseKeeps ==
  ASSUME Quotas, Gate!Release
  PROVE  Quotas'
<1>1. IsFiniteSet(HeldSlots) /\ HeldSlots' \in SUBSET HeldSlots
  BY DEF Quotas, Gate!Release
<1>2. Gate!MemberQuota'
  <2> SUFFICES ASSUME NEW m \in Member
               PROVE  Cardinality(Gate!HeldBy(m)') <= MemberLimit
    BY SameCardinality DEF Gate!MemberQuota
  <2>1. Gate!HeldBy(m)' \in SUBSET Gate!HeldBy(m) /\ IsFiniteSet(Gate!HeldBy(m))
    BY <1>1, SubsetOfFinite DEF Gate!HeldBy
  <2>2. Cardinality(Gate!HeldBy(m)) <= MemberLimit
    BY SameCardinality DEF Quotas, Gate!MemberQuota
  <2>3. /\ Cardinality(Gate!HeldBy(m)') \in Nat
        /\ Cardinality(Gate!HeldBy(m)) \in Nat
        /\ Cardinality(Gate!HeldBy(m)') <= Cardinality(Gate!HeldBy(m))
    BY <2>1, SubsetOfFinite, FS_CardinalityType
  <2>. QED  BY GateLimits, <2>2, <2>3 DEF Gate!LimitsAreNatural
<1>3. Gate!AccountQuota'
  <2> SUFFICES ASSUME NEW a \in Account, NEW group \in SUBSET Gate!HeldOn(a)', group # {}
               PROVE  \E g \in group : Cardinality(group) <= g.limit
    BY SameCardinality DEF Gate!AccountQuota
  <2>1. group \in SUBSET Gate!HeldOn(a)
    BY <1>1 DEF Gate!HeldOn
  <2>. QED  BY SameCardinality, <2>1 DEF Quotas, Gate!AccountQuota
<1>. QED  BY <1>1, <1>2, <1>3, SubsetOfFinite DEF Quotas

LEMMA QuotasInductive == Gate!Spec => []Quotas
<1>1. Gate!Init => Quotas
  <2> SUFFICES ASSUME Gate!Init PROVE Quotas
    OBVIOUS
  <2>1. HeldSlots = {} /\ IsFiniteSet(HeldSlots)
    BY FS_EmptySet DEF Gate!Init
  <2>2. Gate!MemberQuota
    <3> SUFFICES ASSUME NEW m \in Member PROVE Cardinality(Gate!HeldBy(m)) <= MemberLimit
      BY SameCardinality DEF Gate!MemberQuota
    <3>1. Gate!HeldBy(m) = {}
      BY <2>1 DEF Gate!HeldBy
    <3>. QED  BY GateLimits, <3>1, FS_EmptySet DEF Gate!LimitsAreNatural
  <2>3. Gate!AccountQuota
    BY SameCardinality, <2>1 DEF Gate!AccountQuota, Gate!HeldOn
  <2>. QED  BY <2>1, <2>2, <2>3 DEF Quotas
<1>2. Quotas /\ [Gate!Next]_HeldSlots => Quotas'
  <2> SUFFICES ASSUME Quotas, [Gate!Next]_HeldSlots PROVE Quotas'
    OBVIOUS
  <2>1. CASE \E h \in Gate!Slot : Gate!Admit(h)
    BY <2>1, AdmitKeeps
  <2>2. CASE Gate!Release
    BY <2>2, ReleaseKeeps
  <2>3. CASE UNCHANGED HeldSlots
    BY SameCardinality, <2>3 DEF Quotas, Gate!MemberQuota, Gate!AccountQuota, Gate!HeldBy, Gate!HeldOn
  <2>. QED  BY <2>1, <2>2, <2>3 DEF Gate!Next
<1>. QED  BY <1>1, <1>2, PTL DEF Gate!Spec

(* No member has more active, indexed sessions than the instance policy    *)
(* allows, on whatever accounts.                                           *)
THEOREM MemberQuotaHolds ==
  ASSUME IsFiniteSet(Session), ~TornStores
  PROVE  Spec => []MemberQuota
<1>1. Quotas => MemberQuota
  BY DEF Quotas, MemberQuota
<1>. QED  BY <1>1, ImplementsGate, QuotasInductive, PTL DEF GateSpec

(* The active, indexed sessions of an account are always explained by a    *)
(* limit one of them was admitted under, however caps were edited since.   *)
THEOREM AccountQuotaHolds ==
  ASSUME IsFiniteSet(Session), ~TornStores
  PROVE  Spec => []AccountQuota
<1>1. Quotas => AccountQuota
  BY DEF Quotas, AccountQuota
<1>. QED  BY <1>1, ImplementsGate, QuotasInductive, PTL DEF GateSpec

(* Whatever the owner did to the cap, an account never carries more active *)
(* indexed streams than the instance policy allows it.                     *)
THEOREM PolicyCeilingHolds ==
  ASSUME IsFiniteSet(Session), ~TornStores
  PROVE  Spec => []PolicyCeiling
<1>1. Ind /\ AccountQuota => PolicyCeiling
  <2> SUFFICES ASSUME Ind, AccountQuota, NEW a \in Account
               PROVE  Cardinality({s \in Holders : ctx[s].account = a}) <= AccountPolicy[a.id]
    BY DEF PolicyCeiling
  <2> DEFINE H == {s \in Holders : ctx[s].account = a}
             G == {SlotOf(s) : s \in H}
             f == [s \in H |-> SlotOf(s)]
  <2>0. AccountPolicy[a.id] \in Nat
    BY BoundsAssumption DEF Account
  <2>1. H \in SUBSET Session /\ IsFiniteSet(H)
    BY FS_Subset DEF Holders, Ind, TypeOK
  <2>2. ExistsBijection(H, G)
    <3>1. f \in [H -> G] /\ \A x \in G : \E s \in H : f[s] = x
      OBVIOUS
    <3>2. \A x, y \in H : f[x] = f[y] => x = y
      BY DEF SlotOf
    <3>. HIDE DEF f, G, H
    <3>3. f \in Bijection(H, G)
      BY <3>1, <3>2, Fun_IsBij DEF Bijection
    <3>. QED  BY <3>3, Fun_ExistsBij
  <2>3. Cardinality(G) = Cardinality(H)
    <3>. HIDE DEF f, G, H
    <3>. QED  BY <2>1, <2>2, FS_Bijection
  <2>4. Gate!HeldOn(a) = G
    BY DEF Gate!HeldOn, HeldSlots, SlotOf
  <2>5. CASE G # {}
    <3>1. PICK h \in G : Gate!Cardinality(G) <= h.limit
      BY <2>4, <2>5 DEF AccountQuota, Gate!AccountQuota
    <3>2. PICK s \in H : h = SlotOf(s)
      OBVIOUS
    <3>3. s \in Session /\ call[s] # "idle" /\ ctx[s].account = a
      BY DEF Holders, Ind, TypeOK, FreshUntilAdmitted
    <3>4. limit[s] <= AccountPolicy[a.id] /\ limit[s] \in Nat /\ h.limit = limit[s]
      BY <3>2, <3>3 DEF Ind, TypeOK, KnownContext, SlotOf
    <3>5. Cardinality(H) \in Nat
      BY <2>1, FS_CardinalityType
    <3>. QED  BY <2>0, <2>3, <3>1, <3>4, <3>5, SameCardinality
  <2>6. CASE G = {}
    <3>1. H = {}
      BY <2>6
    <3>2. Cardinality(H) = 0
      BY <3>1, FS_EmptySet
    <3>. QED  BY <2>0, <3>2
  <2>. QED  BY <2>5, <2>6
<1>. QED  BY <1>1, Inductive, AccountQuotaHolds, PTL

-----------------------------------------------------------------------------
(* Action properties of revocation.                                        *)

(* Only the body every revocation shares writes "revoked".                 *)
LEMMA OnlyRevokeRevokes ==
  ASSUME Ind, Next, NEW s \in Session, status[s] # "revoked", status'[s] = "revoked"
  PROVE  \E S \in SUBSET sessions :
           /\ s \in S /\ Revoke(S)
           /\ s \notin byAccount'[KeyOf(s)] /\ KeyOf(s) \in AccountKey
<1>1. ASSUME NEW S \in SUBSET sessions, Revoke(S) PROVE s \in S /\ KeyOf(s) \in AccountKey
  <2>1. s \in S
    BY <1>1 DEF Revoke, Moved
  <2>. QED  BY <2>1 DEF Ind, TypeOK, FreshUntilAdmitted, KnownContext, KeyOf, Context, AccountKey
<1>2. ASSUME NEW S \in SUBSET sessions, Revoke(S), byAccount' = Unindexed(S)
      PROVE  \E R \in SUBSET sessions :
               s \in R /\ Revoke(R) /\ s \notin byAccount'[KeyOf(s)] /\ KeyOf(s) \in AccountKey
  BY <1>1, <1>2 DEF Unindexed
<1>3. ASSUME NEW x \in Session, StartStep(x) \/ ClientStep(x) PROVE FALSE
  <2>1. status' = status \/ \E st \in {"queued", "torn", "running", "done", status[x]} :
          status' = [status EXCEPT ![x] = st]
    BY <1>3 DEF StartStep, ClientStep, Prepare, Admit, Refuse, MarkRunning, FinishMark,
       StageTrack, StageFail, MenuReady, RenderJob, StoreJob, ProveAlive, Complete,
       PullOpen, PullEnd
  <2>. QED  BY <2>1 DEF Ind, TypeOK
<1>4. CASE Tick \/ Sweep
  BY <1>4 DEF Tick, Sweep, Moved
<1>5. ASSUME NEW k \in AccountKey, RevokeAccount(k)
      PROVE  \E R \in SUBSET sessions :
               s \in R /\ Revoke(R) /\ s \notin byAccount'[KeyOf(s)] /\ KeyOf(s) \in AccountKey
  <2>1. s \in byAccount[k] \cap sessions /\ KeyOf(s) \in AccountKey /\ Revoke(byAccount[k] \cap sessions)
    BY <1>1, <1>5 DEF RevokeAccount
  <2>2. KeyOf(s) = k
    BY <2>1 DEF Ind, IndexSound
  <2>3. byAccount'[k] = {}
    BY <1>5 DEF RevokeAccount, Ind, TypeOK
  <2>. QED  BY <2>1, <2>2, <2>3
<1>6. CASE RevokeStep
  BY <1>2, <1>5, <1>6 DEF RevokeStep, RevokeAllOnAccount, RevokeOthersOnAccount, ActiveOn
<1>7. CASE CapStep
  <2>1. ASSUME NEW c \in Cutter, NEW x \in Session, CutEvict(c, x)
        PROVE  x \in sessions /\ Revoke({x}) /\ byAccount' = Unindexed({x})
    BY <2>1 DEF CutEvict
  <2>2. ~ (\E c \in Cutter : (\E a \in Account : CutRead(c, a)) \/ CutSnapshot(c) \/ CutReturn(c))
        /\ ~ (\E id \in AccountId, n \in CapValues : SetCap(id, n))
    BY DEF CutRead, CutSnapshot, CutReturn, OnlyCut, SetCap
  <2>3. PICK x \in Session : x \in sessions /\ Revoke({x}) /\ byAccount' = Unindexed({x})
    BY <1>7, <2>1, <2>2 DEF CapStep
  <2>. QED  BY <1>2, <2>3
<1>. QED  BY <1>3, <1>4, <1>6, <1>7 DEF Next

(* However a session comes to be revoked, its tickets, its partial file,   *)
(* its index entry and its job go in the same step.                        *)
THEOREM RevocationIsWholeHolds == Spec => RevocationIsWhole
<1> DEFINE Whole ==
      \A s \in Session : (status[s] # "revoked" /\ status'[s] = "revoked") =>
        /\ \A t \in tickets' : t.session # s
        /\ file'[s] \notin {"open", "stuck"}
        /\ s \notin byAccount'[KeyOf(s)]
        /\ jobs'[s] = "failed"
<1>1. Ind /\ [Next]_vars => [Whole]_vars
  <2> SUFFICES ASSUME Ind, Next, NEW s \in Session,
                      status[s] # "revoked", status'[s] = "revoked"
               PROVE  /\ \A t \in tickets' : t.session # s
                      /\ file'[s] \notin {"open", "stuck"}
                      /\ s \notin byAccount'[KeyOf(s)]
                      /\ jobs'[s] = "failed"
    OBVIOUS
  <2>1. PICK S \in SUBSET sessions : s \in S /\ Revoke(S) /\ s \notin byAccount'[KeyOf(s)]
    BY OnlyRevokeRevokes
  <2>. QED  BY <2>1 DEF Revoke, Abort, FileAborted, TicketsRevoked, Recorded, JobOf
<1>. QED  BY <1>1, Inductive, PTL DEF Spec, RevocationIsWhole

(* What makes a discarded download stay discarded: a revoked session has   *)
(* no partial file left for Complete to rename.                            *)
Discarded ==
  \A s \in Session : /\ status[s] = "revoked" => file[s] \notin {"open", "stuck"}
                     /\ call[s] = "idle" => status[s] = "none"

(* A file only ever moves from nothing to open (Prepare), from open to     *)
(* final or stuck (Complete), and from open or stuck to gone (Abort).      *)
FileMoves ==
  \A s \in Session :
    \/ file'[s] = file[s]
    \/ call[s] = "idle" /\ status'[s] = "queued"
    \/ file[s] = "open" /\ status'[s] = "done"
    \/ file'[s] = "gone"

LEMMA FilesMove ==
  ASSUME Ind, Next
  PROVE  FileMoves
<1>1. ASSUME NEW S, Revoke(S) PROVE FileMoves
  BY <1>1 DEF Revoke, Abort, FileAborted, FileMoves
<1>2. ASSUME UNCHANGED file PROVE FileMoves
  BY <1>2 DEF FileMoves
<1>3. ASSUME NEW s \in Session, NEW c \in Context, Prepare(s, c) PROVE FileMoves
  BY <1>3 DEF Prepare, FileMoves, Ind, TypeOK
<1>4. ASSUME NEW s \in Session, Complete(s) PROVE FileMoves
  BY <1>4 DEF Complete, FileMoves, Ind, TypeOK
<1>5. ASSUME NEW s \in Session, StartStep(s) \/ ClientStep(s) PROVE FileMoves
  BY <1>2, <1>3, <1>4, <1>5 DEF StartStep, ClientStep, Admit, Refuse, MarkRunning,
     FinishMark, StageTrack, StageFail, MenuReady, RenderJob, StoreJob, ProveAlive,
     PullOpen, PullEnd
<1>6. CASE RevokeStep
  BY <1>1, <1>6 DEF RevokeStep, RevokeAccount, RevokeAllOnAccount, RevokeOthersOnAccount
<1>7. CASE CapStep
  BY <1>1, <1>2, <1>7 DEF CapStep, SetCap, CutRead, CutSnapshot, CutReturn, CutEvict, OnlyCut
<1>8. CASE Tick \/ Sweep
  BY <1>2, <1>8 DEF Tick, Sweep
<1>. QED  BY <1>5, <1>6, <1>7, <1>8 DEF Next

LEMMA DiscardedNext == Ind /\ Discarded /\ [Next]_vars => Discarded'
<1> SUFFICES ASSUME Ind, Discarded, [Next]_vars PROVE Discarded'
  OBVIOUS
<1>1. CASE UNCHANGED vars
  BY <1>1 DEF vars, Discarded
<1>2. ASSUME Next, NEW s \in Session, status'[s] = "revoked"
      PROVE  file'[s] \notin {"open", "stuck"}
  <2>1. CASE status[s] = "revoked"
    BY <1>2, <2>1, FilesMove DEF FileMoves, Discarded
  <2>2. CASE status[s] # "revoked"
    <3>1. PICK S \in SUBSET sessions : s \in S /\ Revoke(S)
      BY <1>2, <2>2, OnlyRevokeRevokes
    <3>. QED  BY <3>1 DEF Revoke, Abort, FileAborted
  <2>. QED  BY <2>1, <2>2
<1>3. ASSUME Next, NEW s \in Session, call'[s] = "idle"
      PROVE  status'[s] = "none"
  <2>1. ASSUME call[s] = "idle", status'[s] = status[s] PROVE status'[s] = "none"
    BY <2>1 DEF Discarded
  <2>2. ASSUME NEW S \in SUBSET sessions, NEW st, status' = Moved(S, st), call' = call
        PROVE  status'[s] = "none"
    BY <1>3, <2>1, <2>2 DEF Moved, Ind, FreshUntilAdmitted
  <2>3. ASSUME NEW S \in SUBSET sessions, Revoke(S) PROVE status'[s] = "none"
    BY <2>2, <2>3 DEF Revoke
  <2>4. ASSUME status' = status, call' = call PROVE status'[s] = "none"
    BY <1>3, <2>1, <2>4
  <2>5. ASSUME NEW x \in Session, NEW c \in Stage \ {"idle"},
               call' = [call EXCEPT ![x] = c],
               status' = status \/ \E st \in Status : status' = [status EXCEPT ![x] = st]
        PROVE  status'[s] = "none"
    BY <1>3, <2>1, <2>5 DEF Ind, TypeOK
  <2>6. ASSUME NEW x \in Session, StartStep(x) PROVE status'[s] = "none"
    <3>1. ASSUME NEW t \in Track, StageTrack(x, t) PROVE status'[s] = "none"
      BY <2>4, <3>1 DEF StageTrack
    <3>2. ASSUME NEW c \in Context, Prepare(x, c) PROVE status'[s] = "none"
      BY <2>5, <3>2 DEF Prepare, Stage, Status
    <3>3. CASE Admit(x) \/ Refuse(x) \/ StageFail(x) \/ MenuReady(x)
      BY <2>5, <3>3 DEF Admit, Refuse, StageFail, MenuReady, Stage
    <3>4. CASE MarkRunning(x)
      BY <2>5, <3>4 DEF MarkRunning, Stage, Status
    <3>5. CASE FinishMark(x)
      BY <2>5, <3>5 DEF FinishMark, Stage, Status, Ind, TypeOK
    <3>6. CASE RenderJob(x) \/ StoreJob(x)
      BY <2>5, <3>6 DEF RenderJob, StoreJob, AfterRender, AfterStore, Stage
    <3>. QED  BY <2>6, <3>1, <3>2, <3>3, <3>4, <3>5, <3>6 DEF StartStep
  <2>7. ASSUME NEW x \in Session, ClientStep(x) PROVE status'[s] = "none"
    BY <2>4, <2>5, <2>7 DEF ClientStep, ProveAlive, Complete, PullOpen, PullEnd, Stage, Status
  <2>8. CASE RevokeStep
    BY <2>3, <2>8 DEF RevokeStep, RevokeAccount, RevokeAllOnAccount, RevokeOthersOnAccount, ActiveOn
  <2>9. CASE CapStep
    BY <2>3, <2>4, <2>9 DEF CapStep, SetCap, CutRead, CutSnapshot, CutReturn, CutEvict, OnlyCut
  <2>10. CASE Tick
    BY <2>4, <2>10 DEF Tick
  <2>11. CASE Sweep
    BY <2>2, <2>11 DEF Sweep
  <2>. QED  BY <1>3, <2>6, <2>7, <2>8, <2>9, <2>10, <2>11 DEF Next
<1>. QED  BY <1>1, <1>2, <1>3 DEF Discarded

(* A revoked download is never delivered: no later call, Complete included,*)
(* turns it into a finished file.                                          *)
THEOREM RevokedIsDiscardedHolds == Spec => RevokedIsDiscarded
<1> DEFINE Kept ==
      \A s \in Session : (status[s] = "revoked" /\ file[s] # "final") =>
        file'[s] \notin {"open", "stuck", "final"}
<1>1. Init => Discarded
  BY DEF Init, Discarded
<1>2. Ind /\ Discarded /\ [Next]_vars => [Kept]_vars
  <2> SUFFICES ASSUME Ind, Discarded, Next, NEW s \in Session,
                      status[s] = "revoked", file[s] # "final"
               PROVE  file'[s] \notin {"open", "stuck", "final"}
    OBVIOUS
  <2>1. file[s] \notin {"open", "stuck"} /\ call[s] # "idle"
    BY DEF Discarded
  <2>. QED  BY <2>1, FilesMove DEF FileMoves
<1>. QED  BY <1>1, <1>2, Inductive, DiscardedNext, PTL DEF Spec, RevokedIsDiscarded

-----------------------------------------------------------------------------
(* The cap cut.  What it spares may only shrink: a session of its snapshot *)
(* was admitted, and an admitted session that holds no slot never holds    *)
(* one again, whatever ended it while the cut went on.                     *)

Cutting(c) == cut[c] # NoCut /\ cut[c].stage = "cutting"
Admitted(s) == call[s] \notin {"idle", "prepared", "refused"}
Spared(c) == {s \in cut[c].snapshot \ cut[c].victims : s \in Holders}

CutsMarkAdmitted ==
  \A c \in Cutter : Cutting(c) =>
    /\ cut[c].victims \subseteq cut[c].snapshot
    /\ \A s \in cut[c].snapshot : Admitted(s)

CutsSpare ==
  \A c \in Cutter : Cutting(c) =>
    /\ Cardinality(Spared(c)) <= cut[c].limit
    /\ \A v \in cut[c].victims, u \in Spared(c) : created[v] <= created[u]

CutInd == CutsMarkAdmitted /\ CutsSpare

LEMMA AdmittedStays ==
  ASSUME ~TornStores, Ind, [Next]_vars, NEW s \in Session, Admitted(s)
  PROVE  Admitted(s)' /\ created'[s] = created[s] /\ (s \in Holders' => s \in Holders)
<1>1. Admitted(s)' /\ created'[s] = created[s]
  <2>1. ASSUME NEW r \in Session, StartStep(r) \/ ClientStep(r)
        PROVE  Admitted(s)' /\ created'[s] = created[s]
    <3>1. CASE \E c \in Context : Prepare(r, c)
      BY <3>1 DEF Prepare, Admitted, Ind, TypeOK
    <3>2. CASE Admit(r) \/ Refuse(r) \/ MarkRunning(r) \/ FinishMark(r) \/ Complete(r)
      BY <3>2 DEF Admit, Refuse, MarkRunning, FinishMark, Complete, Admitted, Ind, TypeOK
    <3>3. CASE (\E t \in Track : StageTrack(r, t)) \/ StageFail(r) \/ MenuReady(r)
      BY <3>3 DEF StageTrack, StageFail, MenuReady, Admitted, Ind, TypeOK
    <3>4. CASE RenderJob(r) \/ StoreJob(r)
      BY <3>4 DEF RenderJob, StoreJob, AfterRender, AfterStore, Admitted, Ind, TypeOK
    <3>5. CASE ProveAlive(r) \/ PullOpen(r) \/ PullEnd(r)
      BY <3>5 DEF ProveAlive, PullOpen, PullEnd, Admitted
    <3>. QED  BY <2>1, <3>1, <3>2, <3>3, <3>4, <3>5 DEF StartStep, ClientStep
  <2>2. CASE RevokeStep
    BY <2>2 DEF RevokeStep, RevokeAccount, RevokeAllOnAccount, RevokeOthersOnAccount, Revoke, Admitted
  <2>3. CASE CapStep
    BY <2>3 DEF CapStep, SetCap, CutRead, CutSnapshot, CutReturn, CutEvict, OnlyCut, Revoke, Admitted
  <2>4. CASE Tick \/ Sweep \/ UNCHANGED vars
    BY <2>4 DEF Tick, Sweep, vars, Admitted
  <2>. QED  BY <2>1, <2>2, <2>3, <2>4 DEF Next
<1>2. s \in Holders' => s \in Holders
  <2>1. CASE Releases
    BY <2>1 DEF Releases
  <2>2. ASSUME NEW r \in Session, Admit(r) PROVE s \in Holders' => s \in Holders
    <3>1. r # s
      BY <2>2 DEF Admit, Admitted
    <3>. QED  BY <2>2, <3>1, AdmitHolds
  <2>. QED  BY <2>1, <2>2, OnlyAdmitTakes
<1>. QED  BY <1>1, <1>2

(* The steps a cut in progress takes, or another thread does.              *)
LEMMA CutMoves ==
  ASSUME Ind, [Next]_vars, NEW c \in Cutter, Cutting(c)'
  PROVE  \/ cut'[c] = cut[c]
         \/ CutSnapshot(c)
         \/ \E s \in Session : CutEvict(c, s)
<1>1. ASSUME NEW r \in Session, StartStep(r) \/ ClientStep(r) PROVE cut' = cut
  BY <1>1 DEF StartStep, ClientStep, Prepare, Admit, Refuse, MarkRunning, FinishMark, StageTrack, StageFail,
              MenuReady, RenderJob, StoreJob, ProveAlive, Complete, PullOpen, PullEnd
<1>2. RevokeStep \/ Tick \/ Sweep \/ UNCHANGED vars => cut' = cut
  BY DEF RevokeStep, RevokeAccount, RevokeAllOnAccount, RevokeOthersOnAccount, Tick, Sweep, vars
<1>3. ASSUME NEW id \in AccountId, NEW n \in CapValues, SetCap(id, n) PROVE cut' = cut
  BY <1>3 DEF SetCap
<1>4. ASSUME NEW d \in Cutter, d # c,
             \/ \E a \in Account : CutRead(d, a)
             \/ CutSnapshot(d) \/ CutReturn(d)
             \/ \E s \in Session : CutEvict(d, s)
      PROVE  cut'[c] = cut[c]
  BY <1>4 DEF CutRead, CutSnapshot, CutReturn, CutEvict, Ind, TypeOK
<1>5. ~CutReturn(c) /\ \A a \in Account : ~CutRead(c, a)
  BY DEF CutRead, CutReturn, Cutting, Ind, TypeOK
<1>. QED  BY <1>1, <1>2, <1>3, <1>4, <1>5 DEF Next, CapStep

LEMMA CutBegins ==
  ASSUME IsFiniteSet(Session), Ind, NEW c \in Cutter, CutSnapshot(c), Cutting(c)'
  PROVE  /\ cut'[c].victims \subseteq cut'[c].snapshot
         /\ \A s \in cut'[c].snapshot : Admitted(s)'
         /\ Cardinality(Spared(c)') <= cut'[c].limit
         /\ \A v \in cut'[c].victims, u \in Spared(c)' : created'[v] <= created'[u]
<1> DEFINE A == ActiveOn(cut[c].account)
           n == cut[c].limit
<1>1. cut[c] \in Cut /\ n \in Nat /\ A \in SUBSET sessions /\ sessions \in SUBSET Session
  BY DEF CutSnapshot, Ind, TypeOK, Cut, ActiveOn
<1>2. PICK V \in SUBSET A :
        /\ IsCut(A, V, n)
        /\ cut' = [cut EXCEPT ![c].stage = "cutting", ![c].snapshot = A, ![c].victims = V]
        /\ ~(Cardinality(A) <= n)
  BY DEF CutSnapshot, Cutting, Ind, TypeOK
<1>3. cut'[c].snapshot = A /\ cut'[c].victims = V /\ cut'[c].limit = n
  BY <1>1, <1>2 DEF Cut, Ind, TypeOK
<1>4. UNCHANGED <<call, created>>
  BY DEF CutSnapshot, OnlyCut
<1>5. \A s \in A : Admitted(s)'
  BY <1>1, <1>4 DEF Ind, FreshUntilAdmitted, Admitted
<1>6. Spared(c)' \subseteq A \ V
  BY <1>3 DEF Spared
<1>. HIDE DEF A
<1>7. IsFiniteSet(A) /\ IsFiniteSet(A \ V) /\ Cardinality(A \ V) = n
  <2>1. IsFiniteSet(A) /\ IsFiniteSet(V)
    BY <1>1, SubsetOfFinite
  <2>2. IsFiniteSet(A \ V) /\ Cardinality(A \ V) = Cardinality(A) - Cardinality(A \cap V)
    BY <2>1, FS_Difference
  <2>3. A \cap V = V /\ Cardinality(A) \in Nat /\ Cardinality(V) \in Nat
    BY <2>1, FS_CardinalityType
  <2>4. Cardinality(V) = Cardinality(A) - n
    BY <1>2 DEF IsCut
  <2>5. Cardinality(A \ V) = Cardinality(A) - Cardinality(V)
    BY <2>2, <2>3
  <2>6. Cardinality(A \ V) = n
    <3> DEFINE x == Cardinality(A)
               y == Cardinality(V)
    <3>1. x \in Nat /\ y \in Nat /\ n \in Nat /\ y = x - n /\ Cardinality(A \ V) = x - y
      BY <1>1, <2>3, <2>4, <2>5
    <3>. HIDE DEF x, y, n
    <3>. QED  BY <3>1
  <2>. QED  BY <2>1, <2>2, <2>6
<1>8. Cardinality(Spared(c)') <= n
  BY <1>6, <1>7, SubsetOfFinite
<1>9. \A v \in V, u \in Spared(c)' : created'[v] <= created'[u]
  BY <1>2, <1>4, <1>6 DEF IsCut
<1>. QED  BY <1>3, <1>5, <1>8, <1>9

LEMMA CutGoesOn ==
  ASSUME IsFiniteSet(Session), ~TornStores, Ind, CutInd, [Next]_vars, NEW c \in Cutter, Cutting(c)',
         cut'[c] = cut[c] \/ \E s \in Session : CutEvict(c, s)
  PROVE  /\ cut'[c].victims \subseteq cut'[c].snapshot
         /\ \A s \in cut'[c].snapshot : Admitted(s)'
         /\ Cardinality(Spared(c)') <= cut'[c].limit
         /\ \A v \in cut'[c].victims, u \in Spared(c)' : created'[v] <= created'[u]
<1>1. /\ Cutting(c) /\ cut'[c].snapshot = cut[c].snapshot /\ cut'[c].limit = cut[c].limit
      /\ cut'[c].victims \subseteq cut[c].victims
      /\ \A s \in cut[c].victims \ cut'[c].victims : s \notin Holders'
  <2>1. CASE cut'[c] = cut[c]
    BY <2>1 DEF Cutting
  <2>2. ASSUME NEW s \in Session, CutEvict(c, s)
        PROVE  /\ Cutting(c) /\ cut'[c].snapshot = cut[c].snapshot /\ cut'[c].limit = cut[c].limit
               /\ cut'[c].victims = cut[c].victims \ {s}
               /\ s \notin Holders'
    <3>1. cut[c] \in Cut /\ cut' = [cut EXCEPT ![c].victims = @ \ {s}]
      BY <2>2 DEF CutEvict, Ind, TypeOK
    <3>2. /\ cut'[c].snapshot = cut[c].snapshot /\ cut'[c].limit = cut[c].limit
          /\ cut'[c].victims = cut[c].victims \ {s} /\ cut'[c].stage = cut[c].stage
      BY <3>1 DEF Cut, Ind, TypeOK
    <3>3. Cutting(c)
      BY <2>2, <3>2 DEF Cutting, CutEvict
    <3>4. CASE s \in sessions /\ IsActive(s)
      <4>1. status'[s] = "revoked"
        BY <2>2, <3>4 DEF CutEvict, Revoke, Moved
      <4>. QED  BY <3>2, <3>3, <4>1 DEF Holders, IsActive
    <3>5. CASE ~(s \in sessions /\ IsActive(s))
      <4>1. UNCHANGED <<sessions, status>>
        BY <2>2, <3>5 DEF CutEvict
      <4>. QED  BY <3>2, <3>3, <3>5, <4>1 DEF Holders, IsActive
    <3>. QED  BY <3>4, <3>5
  <2>. QED  BY <2>1, <2>2
<1>2. /\ cut[c].victims \subseteq cut[c].snapshot /\ cut[c].snapshot \subseteq Session /\ cut[c].limit \in Nat
      /\ \A s \in cut[c].snapshot : Admitted(s)
  BY <1>1 DEF CutInd, CutsMarkAdmitted, Cutting, Ind, TypeOK, Cut
<1>3. \A s \in cut[c].snapshot : Admitted(s)' /\ created'[s] = created[s] /\ (s \in Holders' => s \in Holders)
  BY <1>2, AdmittedStays
<1>4. Spared(c)' \subseteq Spared(c) /\ Spared(c) \subseteq Session
  BY <1>1, <1>2, <1>3 DEF Spared
<1>5. Cardinality(Spared(c)') <= cut[c].limit
  <2>1. IsFiniteSet(Spared(c))
    BY <1>4, SubsetOfFinite
  <2>2. /\ Cardinality(Spared(c)') <= Cardinality(Spared(c))
        /\ Cardinality(Spared(c)') \in Nat /\ Cardinality(Spared(c)) \in Nat
    BY <1>4, <2>1, SubsetOfFinite, FS_CardinalityType
  <2>3. Cardinality(Spared(c)) <= cut[c].limit
    BY <1>1 DEF CutInd, CutsSpare
  <2>. QED  BY <1>2, <2>2, <2>3
<1>6. \A v \in cut'[c].victims, u \in Spared(c)' : created'[v] <= created'[u]
  <2>1. \A v \in cut[c].victims, u \in Spared(c) : created[v] <= created[u]
    BY <1>1 DEF CutInd, CutsSpare
  <2>2. \A u \in Spared(c) : u \in cut[c].snapshot
    BY DEF Spared
  <2>. QED  BY <1>1, <1>2, <1>3, <1>4, <2>1, <2>2
<1>. QED  BY <1>1, <1>2, <1>3, <1>5, <1>6

(* However starts, ends and other cuts interleave with it, a cap cut spares *)
(* no more sessions than the limit it read, and none older than one it is   *)
(* about to end, where a status is never seen half written.                 *)
THEOREM CutIsOldestFirstHolds ==
  ASSUME IsFiniteSet(Session), ~TornStores
  PROVE  Spec => []CutIsOldestFirst
<1>1. Init => CutInd
  BY DEF Init, CutInd, CutsMarkAdmitted, CutsSpare, Cutting
<1>2. Ind /\ CutInd /\ [Next]_vars => CutInd'
  <2> SUFFICES ASSUME Ind, CutInd, [Next]_vars, NEW c \in Cutter, Cutting(c)'
               PROVE  /\ cut'[c].victims \subseteq cut'[c].snapshot
                      /\ \A s \in cut'[c].snapshot : Admitted(s)'
                      /\ Cardinality(Spared(c)') <= cut'[c].limit
                      /\ \A v \in cut'[c].victims, u \in Spared(c)' : created'[v] <= created'[u]
    BY DEF CutInd, CutsMarkAdmitted, CutsSpare
  <2>. QED  BY CutMoves, CutBegins, CutGoesOn
<1>3. CutInd => CutIsOldestFirst
  BY DEF CutInd, CutsSpare, CutIsOldestFirst, Cutting, Spared
<1>. QED  BY <1>1, <1>2, <1>3, Inductive, PTL DEF Spec
=============================================================================
