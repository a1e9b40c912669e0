---------------------------- MODULE SlotRuntime ----------------------------
(***************************************************************************)
(* The provider slots of a running instance: composed at boot from the     *)
(* configuration and the linked records (core/internal/slotwiring,         *)
(* core/internal/registry), changed afterwards as accounts are linked and  *)
(* removed (core/app/slots.go), with the refresh job of each account on    *)
(* the shared scheduler (core/internal/scheduler/scheduler.go).            *)
(*                                                                         *)
(* A slot serves one server. One that the operator declared accounts for   *)
(* stays; one that exists only for linked accounts retires with the last.  *)
(* API calls run concurrently with each other and with the start of the    *)
(* scheduler, which main launches just before the API serves.              *)
(***************************************************************************)
EXTENDS Integers, FiniteSets

CONSTANTS
  Server, Account,
  Home,        \* the server of each account
  Declared,    \* servers whose slot has accounts of the operator
  Lazy,        \* servers whose slot syncs nothing in the background
  Call,        \* API calls in progress at once
  MaxFaults    \* bound (model checking only): failing steps and restarts

Stage ==
  {"idle", "recording", "routing", "admitting", "publishing", "scheduling", "undoing",
   "unreaching", "finding", "dropping", "unscheduling", "clearing", "counting", "forgetting",
   "unresolving", "reading", "replacing"}

ASSUME ConstantsAssumption ==
  /\ Account # {} /\ Home \in [Account -> Server]
  /\ Declared \subseteq Server /\ Lazy \subseteq Server
  /\ MaxFaults \in Nat

VARIABLES
  record,     \* accounts in the store of linked accounts
  used,       \* ids ever minted: an id is never minted twice
  admitted,   \* slots in the registry
  resolvers,  \* slots that deliveries can be resolved through
  providers,  \* slots the runtime attaches accounts to
  served,     \* accounts the slots accept
  reach,      \* accounts published to the library
  started,    \* the scheduler runs
  jobs,       \* accounts with a registered refresh job
  pending,    \* jobs copied by Run and not started yet
  running,    \* accounts with an entry in the scheduler's table of workers
  loops,      \* uncancelled workers of each account
  call,       \* calls in progress: [account, stage, keep]
  faults,
  escaped,    \* history: accounts removed while their job was about to be started
  exposed     \* history: servers with an account linked while their slot was retiring or the
              \* account being removed, or whose retirement went by a list that was stale or failed

slots == <<admitted, resolvers, providers, served>>
schedule == <<started, jobs, pending, running, loops>>
history == <<escaped, exposed>>
vars == <<record, used, admitted, resolvers, providers, served, reach, started, jobs, pending,
          running, loops, call, faults, escaped, exposed>>

TypeOK ==
  /\ record \subseteq used /\ used \subseteq Account
  /\ admitted \subseteq Server /\ resolvers \subseteq Server /\ providers \subseteq Server
  /\ served \subseteq Account /\ reach \subseteq Account
  /\ started \in BOOLEAN /\ jobs \subseteq Account /\ pending \subseteq Account
  /\ running \subseteq Account /\ loops \in [Account -> Nat]
  /\ call \in [Call -> [account: Account, stage: Stage, keep: SUBSET Server]]
  /\ faults \in 0..MaxFaults
  /\ escaped \subseteq Account /\ exposed \subseteq Server

Eager(A) == {a \in A : Home[a] \notin Lazy}
NoCall == [c \in Call |-> [account |-> CHOOSE a \in Account : TRUE, stage |-> "idle", keep |-> {}]]

-----------------------------------------------------------------------------
(* Boot.                                                                   *)

\* routing: the slots the operator declared, and one for each server of a record that none of
\* them serves
Routed(recs) == Declared \cup {Home[a] : a \in recs}

\* the runtime that boot composes from the records: every factory builds before any slot is
\* admitted, and a failure ends the process with nothing published
Boot(recs) ==
  /\ admitted' = Routed(recs) /\ resolvers' = Routed(recs) /\ providers' = Routed(recs)
  /\ served' = recs /\ reach' = recs /\ jobs' = Eager(recs)
  /\ started' = FALSE /\ pending' = {} /\ running' = {}
  /\ loops' = [a \in Account |-> 0] /\ call' = NoCall
  /\ escaped' = {} /\ exposed' = {}

Init ==
  /\ record \in SUBSET Account /\ used = record
  /\ admitted = Routed(record) /\ resolvers = Routed(record) /\ providers = Routed(record)
  /\ served = record /\ reach = record /\ jobs = Eager(record)
  /\ started = FALSE /\ pending = {} /\ running = {}
  /\ loops = [a \in Account |-> 0] /\ call = NoCall
  /\ faults = 0 /\ escaped = {} /\ exposed = {}

\* the instance stops anywhere and boots again from what the vault holds
Restart ==
  /\ faults < MaxFaults /\ faults' = faults + 1
  /\ Boot(record)
  /\ UNCHANGED <<record, used>>

-----------------------------------------------------------------------------
(* Scheduler. Its lock is held in each of these steps.                     *)

\* Run marks the scheduler started and copies the jobs ...
RunBegin ==
  /\ ~started /\ started' = TRUE /\ pending' = jobs
  /\ UNCHANGED <<record, used, slots, reach, jobs, running, loops, call, faults, history>>

\* a worker of its own, in the table under its name
Started(a) == running' = running \cup {a} /\ loops' = [loops EXCEPT ![a] = @ + 1]

\* ... then starts each, the lock released between them
RunStart(a) ==
  /\ a \in pending /\ pending' = pending \ {a}
  /\ Started(a)
  /\ UNCHANGED <<record, used, slots, reach, started, jobs, call, faults, history>>

\* a slip: a job registered while Run copies is left to it
BugRegister(a) ==
  /\ jobs' = jobs \cup {a}
  /\ IF started /\ pending = {} THEN Started(a) ELSE UNCHANGED <<running, loops>>
\* a job registered after Run began starts at once
Register(a) ==
  /\ jobs' = jobs \cup {a}
  /\ IF started THEN Started(a) ELSE UNCHANGED <<running, loops>>

\* the worker in the table is cancelled, the job forgotten
Unregister(a) ==
  /\ jobs' = jobs \ {a} /\ running' = running \ {a}
  /\ loops' = [loops EXCEPT ![a] = IF a \in running THEN @ - 1 ELSE @]

-----------------------------------------------------------------------------
(* API calls.                                                              *)

At(c, stage) == call[c].stage = stage
Go(c, stage) == call' = [call EXCEPT ![c].stage = stage]
End(c) == call' = [call EXCEPT ![c] = NoCall[c]]
Of(c) == call[c].account
Retiring(s) ==
  {c \in Call : Home[Of(c)] = s /\ call[c].stage \in {"forgetting", "unresolving", "reading", "replacing"}}
\* what becomes exposed when an account of a server changes while its slot is retiring
Exposing(c) == exposed' = exposed \cup {s \in {Home[Of(c)]} : Retiring(s) \ {c} # {}}

\* the record is stored before the account is wired
Record(c, a) ==
  /\ At(c, "idle") /\ a \notin used
  /\ used' = used \cup {a} /\ record' = record \cup {a}
  /\ call' = [call EXCEPT ![c].account = a, ![c].stage = "routing"]
  /\ UNCHANGED <<slots, reach, schedule, faults, history>>

\* the slot that serves its server, or the link is undone
Route(c) ==
  /\ At(c, "routing")
  /\ Go(c, IF Home[Of(c)] \in providers THEN "admitting" ELSE "undoing")
  /\ UNCHANGED <<record, used, slots, reach, schedule, faults, escaped>>
  /\ Exposing(c)

\* the slot accepts an account it can resolve
Admit(c) ==
  /\ At(c, "admitting")
  /\ \/ Of(c) \in record /\ served' = served \cup {Of(c)} /\ Go(c, "publishing") /\ UNCHANGED faults
     \/ Of(c) \notin record /\ Go(c, "undoing") /\ UNCHANGED <<served, faults>>
     \/ faults < MaxFaults /\ faults' = faults + 1 /\ Go(c, "undoing") /\ UNCHANGED served
  /\ Exposing(c)
  /\ UNCHANGED <<record, used, admitted, resolvers, providers, reach, schedule, escaped>>

\* a reach that is already there is refused, and the slot's side taken back
Publish(c) ==
  /\ At(c, "publishing")
  /\ IF Of(c) \notin reach
     THEN /\ reach' = reach \cup {Of(c)} /\ UNCHANGED served
          /\ IF Home[Of(c)] \in Lazy THEN End(c) ELSE Go(c, "scheduling")
     ELSE served' = served \ {Of(c)} /\ Go(c, "undoing") /\ UNCHANGED reach
  /\ Exposing(c)
  /\ UNCHANGED <<record, used, admitted, resolvers, providers, schedule, faults, escaped>>

Schedule(c) ==
  /\ At(c, "scheduling")
  /\ Register(Of(c)) /\ End(c)
  /\ Exposing(c)
  /\ UNCHANGED <<record, used, slots, reach, started, pending, faults, escaped>>

\* a link that could not be wired takes its record back
Undo(c) ==
  /\ At(c, "undoing")
  /\ record' = record \ {Of(c)} /\ End(c)
  /\ UNCHANGED <<used, slots, reach, schedule, faults, history>>

\* an owner removes an account: its record first ...
Remove(c, a) ==
  /\ At(c, "idle") /\ a \in record
  /\ record' = record \ {a}
  /\ call' = [call EXCEPT ![c].account = a, ![c].stage = "unreaching"]
  /\ exposed' = exposed \cup {Home[Of(d)] : d \in {d \in Call : Of(d) = a /\ ~At(d, "idle")}}
  /\ UNCHANGED <<used, slots, reach, schedule, faults, escaped>>

\* ... then its reach ...
Unreach(c) ==
  /\ At(c, "unreaching")
  /\ reach' = reach \ {Of(c)}
  /\ Go(c, "finding")
  /\ UNCHANGED <<record, used, slots, schedule, faults, history>>

\* ... then what its slot has of it, if it has one
FindSlot(c) ==
  /\ At(c, "finding")
  /\ IF Home[Of(c)] \in providers THEN Go(c, "dropping") ELSE End(c)
  /\ exposed' = exposed \cup {s \in {Home[Of(c)]} : s \notin providers /\ Of(c) \in served}
  /\ UNCHANGED <<record, used, slots, reach, schedule, faults, escaped>>

Drop(c) ==
  /\ At(c, "dropping")
  /\ served' = served \ {Of(c)} /\ Go(c, "unscheduling")
  /\ UNCHANGED <<record, used, admitted, resolvers, providers, reach, schedule, faults, history>>

Unschedule(c) ==
  /\ At(c, "unscheduling")
  /\ Unregister(Of(c)) /\ Go(c, "clearing")
  /\ escaped' = escaped \cup ({Of(c)} \cap pending)
  /\ UNCHANGED <<record, used, slots, reach, started, pending, faults, exposed>>

\* its rows go; an error there ends the removal, and the API ignores it
Clear(c) ==
  /\ At(c, "clearing")
  /\ \/ Go(c, "counting") /\ UNCHANGED faults
     \/ faults < MaxFaults /\ faults' = faults + 1 /\ End(c)
  /\ UNCHANGED <<record, used, slots, reach, schedule, history>>

\* a slip: the other accounts of the server are forgotten
BugStays(s) == s \in Declared
\* a slot of the operator stays, and one that an account still needs
Stays(s) == s \in Declared \/ \E a \in record : Home[a] = s

\* the accounts of the server are counted; a listing that fails counts none
Count(c) ==
  LET s == Home[Of(c)] IN
  /\ At(c, "counting")
  /\ \/ /\ IF Stays(s) THEN End(c) ELSE Go(c, "forgetting")
        /\ UNCHANGED faults
     \/ /\ s \notin Declared /\ faults < MaxFaults /\ faults' = faults + 1
        /\ Go(c, "forgetting")
  /\ exposed' = exposed \cup {t \in {s} : Stays(t) /\ call'[c].stage = "forgetting"}
  /\ UNCHANGED <<record, used, slots, reach, schedule, escaped>>

\* the registry tears the slot's transport down
Forget(c) ==
  /\ At(c, "forgetting")
  /\ admitted' = admitted \ {Home[Of(c)]} /\ Go(c, "unresolving")
  /\ UNCHANGED <<record, used, resolvers, providers, served, reach, schedule, faults, history>>

\* a slip: the resolver stays
BugUnresolve(c) ==
  /\ At(c, "unresolving") /\ Go(c, "reading")
  /\ UNCHANGED <<record, used, slots, reach, schedule, faults, history>>
Unresolve(c) ==
  /\ At(c, "unresolving")
  /\ resolvers' = resolvers \ {Home[Of(c)]} /\ Go(c, "reading")
  /\ UNCHANGED <<record, used, admitted, providers, served, reach, schedule, faults, history>>

\* the list of slots is copied without it ...
ReadProviders(c) ==
  /\ At(c, "reading")
  /\ call' = [call EXCEPT ![c].stage = "replacing", ![c].keep = providers \ {Home[Of(c)]}]
  /\ UNCHANGED <<record, used, slots, reach, schedule, faults, history>>

\* ... and the copy takes its place, over what another removal put there meanwhile
ReplaceProviders(c) ==
  /\ At(c, "replacing")
  /\ providers' = call[c].keep /\ End(c)
  /\ exposed' = exposed \cup (call[c].keep \ providers)
  /\ UNCHANGED <<record, used, admitted, resolvers, served, reach, schedule, faults, escaped>>

CallStep(c) ==
  \/ Route(c) \/ Admit(c) \/ Publish(c) \/ Schedule(c) \/ Undo(c)
  \/ Unreach(c) \/ FindSlot(c) \/ Drop(c) \/ Unschedule(c) \/ Clear(c) \/ Count(c)
  \/ Forget(c) \/ Unresolve(c) \/ ReadProviders(c) \/ ReplaceProviders(c)

Next ==
  \/ Restart \/ RunBegin \/ \E a \in Account : RunStart(a)
  \/ \E c \in Call : CallStep(c) \/ \E a \in Account : Record(c, a) \/ Remove(c, a)

Spec == Init /\ [][Next]_vars

-----------------------------------------------------------------------------
(* Properties.                                                             *)

Settled == \A c \in Call : At(c, "idle")
Wired(a) ==
  /\ a \in served /\ a \in reach /\ (Home[a] \in Lazy \/ a \in jobs)
  /\ Home[a] \in admitted \cap resolvers \cap providers
Gone(a) == a \notin served /\ a \notin reach /\ a \notin jobs

\* Linking and removing leave nothing half wired: when no call is in progress, an account with
\* a record is accepted by a live slot, published and scheduled, and an account without one is
\* none of it, however calls overlapped or failed and wherever the instance restarted, except
\* on a server whose slot retired under a link or on a failed count (DropAccount).
LinkedIsWired ==
  Settled => \A a \in Account : Home[a] \notin exposed =>
               IF a \in record THEN Wired(a) ELSE Gone(a)

\* The registry, the resolvers and the runtime's list agree on the slots there are when no call
\* is in progress, but for a removal that put its copy of the list over another's.
SlotsAgree ==
  Settled => \A s \in Server \ exposed :
               (s \in admitted <=> s \in resolvers) /\ (s \in admitted <=> s \in providers)

\* Every job has one worker once Run has started it, and no other worker goes on: never two for
\* a job registered while Run starts its copy, none for a job that was removed, unless it was
\* removed between the copy and its start (Run, Register, Remove).
OneWorkerPerJob ==
  \A a \in Account : /\ loops[a] <= 1
                     /\ a \notin escaped => (loops[a] = 1 <=> started /\ a \in jobs \ pending)
=============================================================================
