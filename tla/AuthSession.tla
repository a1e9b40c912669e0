----------------------------- MODULE AuthSession -----------------------------
(***************************************************************************)
(* Accounts of users, their sessions and their key material: sign-up and   *)
(* login (core/internal/auth/auth.go, apiserver/server.go), the sessions   *)
(* of auth/session.go over a token store and a cache of data keys          *)
(* (auth/store.go), the interceptors that turn a token into an identity    *)
(* (apiserver/auth.go), the per-user blobs (store/userblob.go) and the     *)
(* event streams opened under an identity (module EventBus).               *)
(*                                                                         *)
(* Every access to a store is a step of its own.  A user's record holds    *)
(* its data key wrapped by a key derived from the password: the model      *)
(* keeps the password and the data key, a number drawn at sign-up, and the *)
(* instance key the record is sealed with.  A token is a number; a client  *)
(* presents only tokens it was given.  Which stores outlive the process,   *)
(* which cache holds the data keys and whether the instance key is pinned  *)
(* is the operator's configuration (config/config.go).                     *)
(***************************************************************************)
EXTENDS EventBus

CONSTANTS
  Password,   \* passwords
  Configs,    \* configurations of the stores
  MaxSignUps, \* bound: sign-ups that reach the store
  MaxTokens,  \* bound: tokens minted
  MaxFaults   \* bound: failing accesses and restarts, together

DataKey == 1..MaxSignUps
Token == 1..MaxTokens
InstanceKey == 0..MaxFaults
User == [password : Password, key : DataKey, seal : InstanceKey]
TokenRecord == [name : Name, live : BOOLEAN]
KeyEntry == [key : DataKey, seal : InstanceKey]

ASSUME AuthAssumption ==
  /\ MaxSignUps \in Nat /\ MaxTokens \in Nat /\ MaxFaults \in Nat
  /\ None \notin Nat \cup Password \cup User \cup TokenRecord \cup KeyEntry
  /\ Configs \subseteq [pinned : BOOLEAN, sealedCache : BOOLEAN,
                        keepsUsers : BOOLEAN, keepsSessions : BOOLEAN, keepsBlobs : BOOLEAN]

VARIABLES
  config,       \* the configuration of this instance
  instanceKey,  \* the instance key, numbered
  users,        \* users store: the sealed record of each name
  tokens,       \* sessions store: the record of each token
  keys,         \* data-key cache: the entry of each token
  blobs,        \* the data key each user's blob is encrypted with
  calls,        \* for each connection, the call in progress
  known,        \* tokens a client was given
  drawn,        \* data keys drawn
  faults,       \* failing accesses and restarts so far
  signed,       \* history: names that were given a record
  twice,        \* history: names that were given one again
  leaked,       \* history: tokens whose key outlived a failing delete
  restarted     \* history: tokens whose session a restart cuts short

authVars == <<config, instanceKey, users, tokens, keys, blobs, calls, known,
              drawn, faults, signed, twice, leaked, restarted>>
stores == <<users, tokens, keys, blobs>>
history == <<signed, twice, leaked, restarted>>
fixed == <<config, instanceKey>>
vars == <<authVars, busVars>>

CallStep == {"idle", "put", "mint", "cache", "forgetToken", "forgetKey", "authorize", "handle", "stream"}

Call == [step : CallStep, name : Name \cup {None}, password : Password \cup {None},
         key : DataKey \cup {None}, token : Token \cup {None}, saw : User \cup {None}]

Idle == [step |-> "idle", name |-> None, password |-> None, key |-> None,
         token |-> None, saw |-> None]

TypeOK ==
  /\ BusTypeOK
  /\ config \in Configs /\ instanceKey \in InstanceKey
  /\ users \in [Name -> User \cup {None}]
  /\ tokens \in [Token -> TokenRecord \cup {None}]
  /\ keys \in [Token -> KeyEntry \cup {None}]
  /\ blobs \in [Name -> DataKey \cup {None}]
  /\ calls \in [Conn -> Call]
  /\ known \subseteq Token
  /\ drawn \in 0..MaxSignUps /\ faults \in 0..MaxFaults
  /\ signed \subseteq Name /\ twice \subseteq Name
  /\ leaked \subseteq Token /\ restarted \subseteq Token

Init ==
  /\ BusInit
  /\ config \in Configs /\ instanceKey = 0
  /\ users = [n \in Name |-> None]
  /\ tokens = [t \in Token |-> None] /\ keys = [t \in Token |-> None]
  /\ blobs = [n \in Name |-> None]
  /\ calls = [c \in Conn |-> Idle]
  /\ known = {} /\ drawn = 0 /\ faults = 0
  /\ signed = {} /\ twice = {} /\ leaked = {} /\ restarted = {}

Fails == faults < MaxFaults /\ faults' = faults + 1

Return(c) == calls' = [calls EXCEPT ![c] = Idle]
Goto(c, s) == calls' = [calls EXCEPT ![c].step = s]

-----------------------------------------------------------------------------
(* Sign-up and login *)

(* SealedStore.Get: a record opens under the key it was sealed with. *)
Readable(n) == users[n] # None /\ users[n].seal = instanceKey

(* The lookup of a name finds a record; any error of it reads as a free    *)
(* name.                                                                   *)
Taken(n) == Readable(n)

(* SignUp: the name is looked up, then a data key is drawn and wrapped. *)
SignUp(c, n, p) ==
  /\ calls[c].step = "idle" /\ drawn < MaxSignUps
  /\ \E failed \in BOOLEAN :
       /\ IF failed THEN Fails ELSE ~Taken(n) /\ UNCHANGED faults
       /\ calls' = [calls EXCEPT ![c] =
            [Idle EXCEPT !.step = "put", !.name = n, !.password = p, !.key = drawn + 1,
                         !.saw = IF ~failed /\ Readable(n) THEN users[n] ELSE None]]
  /\ drawn' = drawn + 1
  /\ UNCHANGED <<fixed, stores, known, history, busVars>>

(* a slip: the record wraps the latest key drawn, which may be another's *)
BugWrapped(k) == drawn

(* The data key in the record is the one the session is given. *)
Wrapped(k) == k

(* SignUp: PutUser, over whatever the store holds by now. *)
StoreUser(c) ==
  LET call == calls[c]
  IN /\ call.step = "put"
     /\ \/ /\ users' = [users EXCEPT ![call.name] =
                [password |-> call.password, key |-> Wrapped(call.key), seal |-> instanceKey]]
           /\ signed' = signed \cup {call.name}
           /\ twice' = IF call.name \in signed THEN twice \cup {call.name} ELSE twice
           /\ calls' = [calls EXCEPT ![c] =
                [Idle EXCEPT !.step = "mint", !.name = call.name, !.key = call.key]]
           /\ UNCHANGED faults
        \/ Fails /\ Return(c) /\ UNCHANGED <<users, signed, twice>>
     /\ UNCHANGED <<fixed, tokens, keys, blobs, known, drawn, leaked, restarted, busVars>>

(* Login: the record is read, the password checked, the data key unwrapped; *)
(* a refusal changes nothing.                                               *)
Login(c, n, p) ==
  /\ calls[c].step = "idle"
  /\ Readable(n) /\ users[n].password = p
  /\ calls' = [calls EXCEPT ![c] =
       [Idle EXCEPT !.step = "mint", !.name = n, !.key = users[n].key]]
  /\ UNCHANGED <<fixed, stores, known, drawn, faults, history, busVars>>

(* Mint: a fresh token and its record. *)
Mint(c) ==
  /\ calls[c].step = "mint"
  /\ \/ \E t \in Token :
          /\ tokens[t] = None /\ t \notin known /\ keys[t] = None
          /\ \A d \in Conn : calls[d].token # t
          /\ tokens' = [tokens EXCEPT ![t] = [name |-> calls[c].name, live |-> TRUE]]
          /\ calls' = [calls EXCEPT ![c].step = "cache", ![c].token = t]
          /\ \A u \in 1..(t - 1) : tokens[u] # None \/ u \in known
          /\ UNCHANGED faults
     \/ Fails /\ Return(c) /\ UNCHANGED tokens
  /\ UNCHANGED <<fixed, users, keys, blobs, known, drawn, history, busVars>>

(* a slip: a token whose key could not be stored is handed out *)
BugHandedOut(c, stored) == known \cup {calls[c].token}

(* The client is given the token when both of its entries are stored. *)
HandedOut(c, stored) == IF stored THEN known \cup {calls[c].token} ELSE known

(* StoreDEK, and the answer to the client; the in-memory cache never fails. *)
CacheKey(c) ==
  LET t == calls[c].token
  IN /\ calls[c].step = "cache"
     /\ \/ /\ keys' = [keys EXCEPT ![t] = [key |-> calls[c].key, seal |-> instanceKey]]
           /\ known' = HandedOut(c, TRUE) /\ UNCHANGED faults
        \/ /\ config.sealedCache /\ Fails
           /\ known' = HandedOut(c, FALSE) /\ UNCHANGED keys
     /\ Return(c)
     /\ UNCHANGED <<fixed, users, tokens, blobs, drawn, history, busVars>>

-----------------------------------------------------------------------------
(* Requests under a token *)

(* Time passes a token's expiry. *)
Expire(t) ==
  /\ tokens[t] # None /\ tokens[t].live
  /\ tokens' = [tokens EXCEPT ![t].live = FALSE]
  /\ UNCHANGED <<fixed, users, keys, blobs, calls, known, drawn, faults, history, busVars>>

(* Validate: the token's record is loaded; an unknown token, like a failing *)
(* load, is refused and changes nothing.                                    *)
Present(c, t) ==
  /\ calls[c].step = "idle" /\ t \in known /\ tokens[t] # None
  /\ calls' = [calls EXCEPT ![c] =
       [Idle EXCEPT !.step = IF tokens[t].live THEN "authorize" ELSE "forgetToken",
                    !.name = tokens[t].name, !.token = t]]
  /\ UNCHANGED <<fixed, stores, known, drawn, faults, history, busVars>>

(* Validate of an expired token: its record goes first, ... *)
ForgetToken(c) ==
  /\ calls[c].step = "forgetToken"
  /\ \/ tokens' = [tokens EXCEPT ![calls[c].token] = None] /\ UNCHANGED faults
     \/ Fails /\ UNCHANGED tokens
  /\ Goto(c, "forgetKey")
  /\ UNCHANGED <<fixed, users, keys, blobs, known, drawn, history, busVars>>

(* a slip: the key of an expired token is left to the cache *)
BugForgotten(t) == keys[t]

(* What an expired token leaves in the cache. *)
Forgotten(t) == None

(* ... then its cached key; an error of either is ignored. *)
ForgetKey(c) ==
  LET t == calls[c].token
  IN /\ calls[c].step = "forgetKey"
     /\ \/ keys' = [keys EXCEPT ![t] = Forgotten(t)] /\ UNCHANGED <<faults, leaked>>
        \/ config.sealedCache /\ Fails /\ leaked' = leaked \cup {t} /\ UNCHANGED keys
     /\ Return(c)
     /\ UNCHANGED <<fixed, users, tokens, blobs, known, drawn, signed, twice, restarted, busVars>>

(* GetDEK: an entry that does not open counts as absent. *)
CachedKey(t) ==
  IF keys[t] # None /\ (config.sealedCache => keys[t].seal = instanceKey)
  THEN keys[t].key ELSE None

(* AuthContext: the identity, and the session's data key if there is one;  *)
(* a sealed cache that cannot be read has none.                            *)
Authorize(c) ==
  /\ calls[c].step = "authorize"
  /\ \E key \in {CachedKey(calls[c].token), None} :
       /\ calls' = [calls EXCEPT ![c].step = "handle", ![c].key = key]
       /\ IF key = CachedKey(calls[c].token) THEN UNCHANGED faults ELSE config.sealedCache /\ Fails
  /\ UNCHANGED <<fixed, stores, known, drawn, history, busVars>>

(* UserBlobStore: Put and Delete under the caller's prefix and data key,   *)
(* refused without one.                                                    *)
EditBlob(c) ==
  /\ calls[c].step = "handle" /\ calls[c].key # None
  /\ \E value \in {calls[c].key, None} : blobs' = [blobs EXCEPT ![calls[c].name] = value]
  /\ Return(c)
  /\ UNCHANGED <<fixed, users, tokens, keys, known, drawn, faults, history, busVars>>

(* UserBlobStore: Get decrypts with the caller's data key. *)
Opens(n, k) == blobs[n] # None => blobs[n] = k

(* Any other handler: nothing of this module changes. *)
Answer(c) ==
  /\ calls[c].step = "handle" /\ Return(c)
  /\ UNCHANGED <<fixed, stores, known, drawn, faults, history, busVars>>

(* Subscribe: the stream lives on whatever becomes of its token. *)
OpenStream(c) ==
  /\ calls[c].step = "handle"
  /\ Register(c, calls[c].name) /\ Goto(c, "stream")
  /\ UNCHANGED <<fixed, stores, known, drawn, faults, history>>

(* Subscribe returns, by its deferred Unsubscribe. *)
CloseStream(c) ==
  /\ calls[c].step = "stream" /\ LoopEnds(c)
  /\ Unsubscribe(c) /\ Return(c)
  /\ UNCHANGED <<fixed, stores, known, drawn, faults, history>>

BusStep ==
  /\ \/ \E entitled \in SUBSET Name : Publish(entitled)
     \/ \E c \in Conn : Send(c) \/ HangUp(c)
     \/ Close
  /\ UNCHANGED authVars

-----------------------------------------------------------------------------
(* Sessions and their sealed keys are stored, and stay readable. *)
SurvivesRestart == config.keepsSessions /\ config.sealedCache /\ config.pinned

(* The process stops, at any point, and starts again. *)
Restart ==
  /\ Fails
  /\ instanceKey' = IF config.pinned THEN instanceKey ELSE instanceKey + 1
  /\ users' = IF config.keepsUsers THEN users ELSE [n \in Name |-> None]
  /\ blobs' = IF config.keepsBlobs THEN blobs ELSE [n \in Name |-> None]
  /\ tokens' = IF config.keepsSessions THEN tokens ELSE [t \in Token |-> None]
  /\ keys' = IF config.keepsSessions /\ config.sealedCache THEN keys
             ELSE [t \in Token |-> None]
  /\ calls' = [c \in Conn |-> Idle]
  /\ restarted' = restarted \cup {t \in Token : tokens[t] # None /\ ~SurvivesRestart}
  /\ registered' = [c \in Conn |-> None]
  /\ channel' = [c \in Conn |-> None] /\ gone' = {}
  /\ leaked' = leaked \cup {t \in Token : \E c \in Conn :
                              calls[c].step = "forgetKey" /\ calls[c].token = t}
  /\ UNCHANGED <<config, known, drawn, signed, twice>>

CallStepOf(c) ==
  \/ \E n \in Name, p \in Password : SignUp(c, n, p) \/ Login(c, n, p)
  \/ StoreUser(c) \/ Mint(c) \/ CacheKey(c)
  \/ \E t \in Token : Present(c, t)
  \/ ForgetToken(c) \/ ForgetKey(c) \/ Authorize(c)
  \/ EditBlob(c) \/ Answer(c) \/ OpenStream(c) \/ CloseStream(c)

Next ==
  \/ \E c \in Conn : CallStepOf(c)
  \/ \E t \in Token : Expire(t)
  \/ BusStep
  \/ Restart

Spec == Init /\ [][Next]_vars

-----------------------------------------------------------------------------
(* Properties *)

(***************************************************************************)
(* A session outlives neither half of itself (the Session interface,       *)
(* auth/session.go): a data key stays cached without its token's record    *)
(* only while a validation is between its two deletes, or after the second *)
(* of them failed or was cut off.                                          *)
(***************************************************************************)
NoOrphanKey ==
  \A t \in Token :
    keys[t] # None /\ tokens[t] = None =>
      t \in leaked \/ \E c \in Conn : calls[c].step = "forgetKey" /\ calls[c].token = t

(***************************************************************************)
(* A client that was given a token can use its blobs until the token       *)
(* expires or the instance restarts: mintSession hands a token out only    *)
(* when both stores hold their half, and no validation of another token,   *)
(* failing store or second login takes the key away.                       *)
(***************************************************************************)
SessionHasKey ==
  \A t \in known \ restarted :
    tokens[t] # None /\ tokens[t].live => CachedKey(t) # None

(***************************************************************************)
(* Unless a name was signed up twice, the key in its record, the keys its  *)
(* sessions cache and the key its blob is encrypted with are one: what one *)
(* session wrote every other opens, across logins, expiries and restarts.  *)
(* (SignUp looks a name up and stores it in two steps, auth.go:81 and 127, *)
(* and takes any failing lookup for a free name.)                          *)
(***************************************************************************)
KeysAgree ==
  \A n \in Name \ twice :
    /\ users[n] # None =>
         \A t \in Token : tokens[t] # None /\ tokens[t].name = n /\ keys[t] # None =>
           keys[t].key = users[n].key
    /\ \A c \in Conn : calls[c].step = "handle" /\ calls[c].name = n /\ calls[c].key # None =>
         Opens(n, calls[c].key)

(***************************************************************************)
(* The table of subscribers and the streams agree: Publish sends only on   *)
(* open channels (a send on a closed one would panic), each read by a      *)
(* stream of the user it is listed for, and an open channel is listed.     *)
(***************************************************************************)
StreamsAgree ==
  \A c \in Conn :
    /\ registered[c] # None =>
         calls[c].step = "stream" /\ calls[c].name = registered[c]
    /\ registered[c] # None <=> (channel[c] # None /\ channel[c].open)

(***************************************************************************)
(* A record of a user is replaced only by a sign-up that did not see it:   *)
(* one that looked the name up before it was stored, or whose lookup       *)
(* failed, or that could not open it (SignUp, auth.go:81).                 *)
(***************************************************************************)
NoRecordSeenIsReplaced ==
  [][\A n \in Name :
       users[n] # None /\ users'[n] \notin {users[n], None} =>
         \E c \in Conn : calls[c].step = "put" /\ calls[c].name = n /\ calls[c].saw # users[n]]_vars
=============================================================================
