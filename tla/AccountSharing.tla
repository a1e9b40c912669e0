--------------------------- MODULE AccountSharing ---------------------------
(***************************************************************************)
(* Linked accounts and who may use them: the record and the session blob   *)
(* in the vault, the live reach the library and the delivery API authorize *)
(* against, the slot's account list, and the calls that change them - link,*)
(* update and remove (core/internal/apiserver/accounts.go) - racing the    *)
(* deliveries other users start (server.go, StartDelivery).                *)
(*                                                                         *)
(* No call holds a lock across its steps and a field of a record is edited *)
(* by an unlocked read and write, so each call is a sequence of steps, one *)
(* per store access; any step that touches a store may fail, and the whole *)
(* instance may stop between two of them and boot again from the vault.    *)
(* All accounts here belong to one owner: calls by anybody else, requests  *)
(* that fail validation and a failing first read leave no trace.           *)
(***************************************************************************)
EXTENDS Integers

CONSTANTS
  Account,          \* ids a link may mint
  Owner, Guest,     \* the linking user, the other host users
  Call,             \* API calls on accounts, one each
  Start,            \* StartDelivery calls, one each
  Caps,             \* stream caps an owner may set
  Links,            \* the records accounts are linked with
  Edits,            \* the update requests owners make
  CapChangeDefault, \* the instance's delivery.on-cap-change
  FaultSites,       \* the store accesses that may fail
  MaxFaults, MaxRestarts, \* bounds (model checking only)
  Unset, Nothing

User == {Owner} \cup Guest
Sharing ==
  {[vis |-> v, members |-> {}] : v \in {"private", "public"}} \cup
  {[vis |-> "shared", members |-> m] : m \in SUBSET Guest \ {{}}}
Policy == {"default", "new-sessions-only", "enforce-now"}
Record == [sharing: Sharing, cap: Caps, policy: Policy]
Field == {"sharing", "cap", "policy"}
Request == [sharing: Sharing \cup {Unset}, cap: Caps \cup {Unset}, policy: Policy \cup {Unset}]
Stage == {"saving", "adding", "attaching", "unrecording", "unvaulting", "unreaching",
          "ending", "getting", "reading", "writing", "rereading", "swapping",
          "revoking", "capping", "done", "failed", "lost"}
CallState ==
  [op: {"link", "update", "remove"}, stage: Stage, account: Account,
   req: Request \cup {Nothing},          \* of an update
   old: Record \cup {Nothing},           \* the record it first read
   rec: Record \cup {Nothing},           \* the record it links, or last read
   todo: SUBSET Field, undo: BOOLEAN]    \* the fields to store, or to put back
Site == {"save", "add", "attach", "unrecord", "unvault", "read", "write", "reread", "sweep"}

ASSUME ConstantsAssumption ==
  /\ Owner \notin Guest
  /\ Caps \subseteq Nat
  /\ Links \subseteq [sharing: Sharing, cap: Caps, policy: {"default"}]
  /\ Edits \subseteq Request
  /\ CapChangeDefault \in Policy \ {"default"}
  /\ FaultSites \subseteq Site
  /\ {MaxFaults, MaxRestarts} \subseteq Nat
  /\ Unset \notin Sharing /\ Unset \notin Policy /\ Unset \notin Nat
  /\ Nothing \notin Sharing /\ Nothing \notin Record
  /\ Nothing \notin Request /\ Nothing \notin CallState

VARIABLES
  record,    \* account/meta/<id> in the vault
  blob,      \* accounts whose session blob is in the vault
  slot,      \* accounts the running slot serves
  reach,     \* the sharing of each reach the library holds
  call,      \* the API calls
  start,     \* the StartDelivery calls and the sessions they admitted
  faults, restarts,
  contended, \* history: accounts two calls were in progress on at once
  late       \* history: sessions admitted after their reach check went stale

stores == <<record, blob>>
live == <<slot, reach>>
history == <<contended, late>>
vars == <<record, blob, slot, reach, call, start, faults, restarts, contended, late>>

TypeOK ==
  /\ record \in [Account -> Record \cup {Nothing}]
  /\ blob \subseteq Account /\ slot \subseteq Account
  /\ reach \in [Account -> Sharing \cup {Nothing}]
  /\ call \in [Call -> CallState \cup {Nothing}]
  /\ start \in [Start -> [stage: {"checked", "active", "ended"}, user: User,
                         account: Account] \cup {Nothing}]
  /\ faults \in 0..MaxFaults /\ restarts \in 0..MaxRestarts
  /\ contended \subseteq Account /\ late \subseteq Start

\* The instance has just booted, some accounts already linked
Init ==
  /\ record \in [Account -> Links \cup {Nothing}]
  /\ blob = {a \in Account : record[a] # Nothing}
  /\ slot = blob
  /\ reach = [a \in Account |-> IF a \in blob THEN record[a].sharing ELSE Nothing]
  /\ call = [c \in Call |-> Nothing]
  /\ start = [s \in Start |-> Nothing]
  /\ faults = 0 /\ restarts = 0
  /\ contended = {} /\ late = {}

-----------------------------------------------------------------------------
(* Who may use what *)

Authorized(u, sharing) ==
  \/ sharing.vis = "public"
  \/ u = Owner
  \/ sharing.vis = "shared" /\ u \in sharing.members

Reaches(u, a) == reach[a] # Nothing /\ Authorized(u, reach[a])

ActiveOn(a) == {s \in Start : start[s] # Nothing /\ start[s].stage = "active"
                                /\ start[s].account = a}

Ended(S) == [s \in Start |-> IF s \in S THEN [start[s] EXCEPT !.stage = "ended"] ELSE start[s]]

-----------------------------------------------------------------------------
(* Calls *)

InProgress(c) == call[c] # Nothing /\ call[c].stage \notin {"done", "failed", "lost"}
At(c, stage) == call[c] # Nothing /\ call[c].stage = stage

Begin(c, op, a, stage, req, rec) ==
  /\ call[c] = Nothing
  /\ call' = [call EXCEPT ![c] =
       [op |-> op, stage |-> stage, account |-> a, req |-> req, old |-> Nothing,
        rec |-> rec, todo |-> {}, undo |-> FALSE]]
  /\ contended' = IF \E d \in Call : InProgress(d) /\ call[d].account = a
                  THEN contended \cup {a} ELSE contended
  /\ UNCHANGED <<stores, live, start, faults, restarts, late>>

\* a call that returns leaves nothing but its outcome
Left(k, stage) ==
  IF stage \in {"done", "failed", "lost"}
  THEN [k EXCEPT !.stage = stage, !.req = Nothing, !.old = Nothing, !.rec = Nothing,
                 !.todo = {}, !.undo = FALSE]
  ELSE [k EXCEPT !.stage = stage]

GoTo(c, stage) == call' = [call EXCEPT ![c] = Left(@, stage)]

Works == UNCHANGED faults
Fails(site) == site \in FaultSites /\ faults < MaxFaults /\ faults' = faults + 1

\* LinkAccount: the credential is probed, an id minted, then the session
\* blob, the record and the live side follow
LinkAccount(c, a, rec) ==
  /\ record[a] = Nothing /\ \A d \in Call : call[d] # Nothing => call[d].account # a
  /\ Begin(c, "link", a, "saving", Nothing, rec)

Save(c) ==
  /\ At(c, "saving")
  /\ \/ Works /\ blob' = blob \cup {call[c].account} /\ GoTo(c, "adding")
     \/ Fails("save") /\ UNCHANGED blob /\ GoTo(c, "failed")
  /\ UNCHANGED <<record, live, start, restarts, history>>

Add(c) ==
  /\ At(c, "adding")
  /\ \/ Works /\ record' = [record EXCEPT ![call[c].account] = call[c].rec]
              /\ GoTo(c, "attaching")
     \/ Fails("add") /\ UNCHANGED record /\ GoTo(c, "unrecording")
  /\ UNCHANGED <<blob, live, start, restarts, history>>

\* SlotRuntime.AttachAccount takes the account back out of the slot itself
\* when a step of it fails; the first sync it starts is another component's
BugAttach(c) ==
  /\ At(c, "attaching")
  /\ \/ /\ Works /\ GoTo(c, "done")
        /\ slot' = slot \cup {call[c].account}
        /\ reach' = [reach EXCEPT ![call[c].account] = call[c].rec.sharing]
     \/ Fails("attach") /\ UNCHANGED live /\ GoTo(c, "unvaulting")
  /\ UNCHANGED <<stores, start, restarts, history>>
Attach(c) ==
  /\ At(c, "attaching")
  /\ \/ /\ Works /\ GoTo(c, "done")
        /\ slot' = slot \cup {call[c].account}
        /\ reach' = [reach EXCEPT ![call[c].account] = call[c].rec.sharing]
     \/ Fails("attach") /\ UNCHANGED live /\ GoTo(c, "unrecording")
  /\ UNCHANGED <<stores, start, restarts, history>>

-----------------------------------------------------------------------------
(* Store.Delete, of a removal or of a link that failed: record, then blob *)

Unrecord(c) ==
  /\ At(c, "unrecording")
  /\ \/ Works /\ record' = [record EXCEPT ![call[c].account] = Nothing]
              /\ GoTo(c, "unvaulting")
     \/ Fails("unrecord") /\ UNCHANGED record /\ GoTo(c, "failed")
  /\ UNCHANGED <<blob, live, start, restarts, history>>

Unvault(c) ==
  /\ At(c, "unvaulting")
  /\ \/ Works /\ blob' = blob \ {call[c].account}
              /\ GoTo(c, IF call[c].op = "link" THEN "failed" ELSE "unreaching")
     \/ Fails("unvault") /\ UNCHANGED blob /\ GoTo(c, "failed")
  /\ UNCHANGED <<record, live, start, restarts, history>>

RemoveAccount(c, a) == Begin(c, "remove", a, "getting", Nothing, Nothing)

\* RemoveReach, then DropAccount, whose error is ignored
Unreach(c) ==
  /\ At(c, "unreaching")
  /\ reach' = [reach EXCEPT ![call[c].account] = Nothing]
  /\ slot' = slot \ {call[c].account}
  /\ GoTo(c, "ending")
  /\ UNCHANGED <<stores, start, faults, restarts, history>>

\* RevokeAllOnAccount
EndAll(c) ==
  /\ At(c, "ending")
  /\ start' = Ended(ActiveOn(call[c].account))
  /\ GoTo(c, "done")
  /\ UNCHANGED <<stores, live, faults, restarts, history>>

-----------------------------------------------------------------------------
(* UpdateAccount *)

UpdateAccount(c, a, req) == Begin(c, "update", a, "getting", req, Nothing)

\* the fields a request sets
Plan(req) == {f \in Field : req[f] # Unset}

\* the fields the handler puts back when a step fails, whether or not the
\* request had set them
BugUndoOf(failed) == IF failed = "sharing" THEN {} ELSE {"sharing"}
UndoOf(failed) == CASE failed = "sharing" -> {}
                    [] failed \in {"cap", "swap"} -> {"sharing"}
                    [] failed = "policy" -> {"sharing", "cap"}

\* fields are stored, and put back, in this order
First(todo) ==
  IF "sharing" \in todo THEN "sharing" ELSE IF "cap" \in todo THEN "cap" ELSE "policy"

\* the next field to store; none left ends the rollback or the edit
Proceed(k) ==
  Left(k, IF k.todo # {} THEN "reading" ELSE IF k.undo THEN "failed" ELSE "rereading")

\* a store error abandons the edit for its rollback; a rollback ignores it
Abandon(c, failed) ==
  LET k == call[c] IN
  call' = [call EXCEPT ![c] = Proceed(
    [k EXCEPT !.undo = TRUE,
              !.todo = IF k.undo THEN @ \ {failed} ELSE UndoOf(failed)])]

Get(c) ==
  LET k == call[c] IN
  /\ At(c, "getting")
  /\ IF record[k.account] = Nothing THEN GoTo(c, "failed")
     ELSE IF k.op = "remove" THEN GoTo(c, "unrecording")
     ELSE call' = [call EXCEPT ![c] =
            Proceed([k EXCEPT !.old = record[k.account], !.todo = Plan(k.req)])]
  /\ UNCHANGED <<stores, live, start, faults, restarts, history>>

\* Store.update, first half: the record is read, into rec
Read(c) ==
  LET a == call[c].account IN
  /\ At(c, "reading")
  /\ \/ /\ Works /\ record[a] # Nothing
        /\ call' = [call EXCEPT ![c].rec = record[a], ![c].stage = "writing"]
     \/ /\ \/ Works /\ record[a] = Nothing
           \/ Fails("read")
        /\ Abandon(c, First(call[c].todo))
  /\ UNCHANGED <<stores, live, start, restarts, history>>

\* second half: what was read is put back whole, one field changed
WriteBack(c) ==
  LET k == call[c]
      f == First(k.todo)
      value == IF k.undo THEN k.old[f] ELSE k.req[f]
  IN
  /\ At(c, "writing")
  /\ \/ /\ Works
        /\ record' = [record EXCEPT ![k.account] = [k.rec EXCEPT ![f] = value]]
        /\ call' = [call EXCEPT ![c] = Proceed([k EXCEPT !.todo = @ \ {f}, !.rec = Nothing])]
     \/ Fails("write") /\ UNCHANGED record /\ Abandon(c, f)
  /\ UNCHANGED <<blob, live, start, restarts, history>>

BugSharingEdited(k, rec) == k.req.sharing # Unset /\ rec.sharing # k.req.sharing
SharingEdited(k, rec) == k.req.sharing # Unset /\ rec.sharing # k.old.sharing

AfterSharing(k) == IF k.req.cap # Unset THEN "capping" ELSE "done"

Reread(c) ==
  LET k == call[c]
      rec == record[k.account]
  IN
  /\ At(c, "rereading")
  /\ \/ /\ Works /\ rec # Nothing
        /\ call' = [call EXCEPT ![c] =
             Left([k EXCEPT !.rec = rec],
                  IF SharingEdited(k, rec) THEN "swapping" ELSE AfterSharing(k))]
     \/ /\ \/ Works /\ rec = Nothing
           \/ Fails("reread")
        /\ GoTo(c, "failed")
  /\ UNCHANGED <<stores, live, start, restarts, history>>

\* SetReachSharing swaps the reach, then sweeps the derived libraries: the
\* error of a sweep comes back with the reach already swapped
Swap(c) ==
  LET k == call[c] IN
  /\ At(c, "swapping")
  /\ IF reach[k.account] = Nothing
     THEN Works /\ UNCHANGED reach /\ Abandon(c, "swap")
     ELSE /\ reach' = [reach EXCEPT ![k.account] = k.rec.sharing]
          /\ \/ /\ Works
                /\ GoTo(c, IF k.rec.sharing.vis = "public" THEN AfterSharing(k) ELSE "revoking")
             \/ Fails("sweep") /\ Abandon(c, "swap")
  /\ UNCHANGED <<stores, slot, start, restarts, history>>

BugKept(k) == {Owner} \cup k.rec.sharing.members \cup k.old.sharing.members
BugKeptNoOwner(k) == k.rec.sharing.members
Kept(k) == {Owner} \cup k.rec.sharing.members

RevokeOthers(c) ==
  LET k == call[c] IN
  /\ At(c, "revoking")
  /\ start' = Ended({s \in ActiveOn(k.account) : start[s].user \notin Kept(k)})
  /\ GoTo(c, AfterSharing(k))
  /\ UNCHANGED <<stores, live, faults, restarts, history>>

\* ApplyAccountCap: which sessions are in excess is the engine's (Delivery)
ApplyCap(c) ==
  LET k == call[c]
      policy == IF k.rec.policy = "default" THEN CapChangeDefault ELSE k.rec.policy
  IN
  /\ At(c, "capping")
  /\ \E gone \in IF policy = "enforce-now" THEN SUBSET ActiveOn(k.account) ELSE {{}} :
       start' = Ended(gone)
  /\ GoTo(c, "done")
  /\ UNCHANGED <<stores, live, faults, restarts, history>>

-----------------------------------------------------------------------------
(* StartDelivery: the reach is checked, then the engine admits *)

Check(s, u, a) ==
  /\ start[s] = Nothing
  /\ Reaches(u, a)
  /\ start' = [start EXCEPT ![s] = [stage |-> "checked", user |-> u, account |-> a]]
  /\ UNCHANGED <<stores, live, call, faults, restarts, history>>

Admit(s) ==
  /\ start[s] # Nothing /\ start[s].stage = "checked"
  /\ start' = [start EXCEPT ![s].stage = "active"]
  /\ late' = IF Reaches(start[s].user, start[s].account) THEN late ELSE late \cup {s}
  /\ UNCHANGED <<stores, live, call, faults, restarts, contended>>

\* The instance stops and boots: calls and sessions are gone, the slots and
\* the reaches are built from the records in the vault
Restart ==
  /\ restarts < MaxRestarts
  /\ restarts' = restarts + 1
  /\ call' = [c \in Call |-> IF InProgress(c) THEN Left(call[c], "lost") ELSE call[c]]
  /\ start' = Ended({s \in Start : start[s] # Nothing})
  /\ slot' = {a \in Account : record[a] # Nothing}
  /\ reach' = [a \in Account |-> IF record[a] = Nothing THEN Nothing ELSE record[a].sharing]
  /\ UNCHANGED <<stores, faults, history>>

CallStep(c) ==
  \/ \E a \in Account, rec \in Links : LinkAccount(c, a, rec)
  \/ Save(c) \/ Add(c) \/ Attach(c) \/ Unrecord(c) \/ Unvault(c)
  \/ \E a \in Account : RemoveAccount(c, a)
  \/ Unreach(c) \/ EndAll(c)
  \/ \E a \in Account, req \in Edits : UpdateAccount(c, a, req)
  \/ Get(c) \/ Read(c) \/ WriteBack(c) \/ Reread(c) \/ Swap(c) \/ RevokeOthers(c) \/ ApplyCap(c)

Next ==
  \/ \E c \in Call : CallStep(c)
  \/ \E s \in Start, u \in User, a \in Account : Check(s, u, a)
  \/ \E s \in Start : Admit(s)
  \/ Restart

Spec == Init /\ [][Next]_vars

-----------------------------------------------------------------------------
Quiet(a) == \A c \in Call : ~(InProgress(c) /\ call[c].account = a)
Alone(a) == a \notin contended

(* The record and the live reach never disagree about who may use an       *)
(* account (accounts.go:175): once the calls on it are over - succeeded,   *)
(* failed and rolled back, or cut by a restart - the reach has the sharing *)
(* of the record, and there is one only where there is the other.  Of      *)
(* accounts whose calls did not overlap, as long as neither the sweep nor  *)
(* the re-read of an edit nor a second delete fails.                       *)
RecordAndReachAgree ==
  \A a \in Account : (Quiet(a) /\ Alone(a)) =>
    reach[a] = IF record[a] = Nothing THEN Nothing ELSE record[a].sharing

(* Linking and removing are all or nothing: when the calls on an account   *)
(* have returned, it is in the vault (record and blob), the slot and the   *)
(* reaches, or in none of them.                                            *)
AllOrNothing ==
  \A a \in Account :
    (Alone(a) /\ \A c \in Call : call[c] # Nothing /\ call[c].account = a =>
                                   call[c].stage \in {"done", "failed"}) =>
      \/ record[a] # Nothing /\ reach[a] # Nothing /\ a \in blob \cap slot
      \/ record[a] = Nothing /\ reach[a] = Nothing /\ a \notin blob \cup slot

(* An update that reports failure has changed nothing (accounts.go:114,    *)
(* "a store failure changes nothing"), whichever of its fields could not   *)
(* be stored and whatever it had stored before - as long as the re-read    *)
(* and the sweep, which nothing puts right, do not fail.                   *)
FailedEditChangesNothing ==
  [][\A c \in Call :
       (InProgress(c) /\ call[c].old # Nothing /\ call'[c].stage = "failed"
          /\ Alone(call[c].account)) =>
         record'[call[c].account] = call[c].old]_vars

(* A session goes on only while its user may reach the account, or until   *)
(* the call that took the reach away ends it: no narrowing or removal, in  *)
(* whatever order calls overlap, forgets a session - save those admitted   *)
(* after their own check went stale.                                       *)
SessionsFollowReach ==
  \A s \in Start \ late : (start[s] # Nothing /\ start[s].stage = "active") =>
    \/ Reaches(start[s].user, start[s].account)
    \/ \E c \in Call : call[c] # Nothing /\ call[c].account = start[s].account
                         /\ call[c].stage \in {"revoking", "ending"}

(* PLAN.md:622: narrowing ends exactly the sessions of the members who     *)
(* lost access - of nobody the record still authorizes.                    *)
NarrowingSparesTheAuthorized ==
  [][\A c \in Call, s \in Start :
       (At(c, "revoking") /\ RevokeOthers(c) /\ Alone(call[c].account)
          /\ start'[s] # start[s]) =>
         ~Authorized(start[s].user, record[start[s].account].sharing)]_vars
=============================================================================
