-------------------------- MODULE AuthSessionProofs --------------------------
(* Theorems about accounts, sessions and event streams, for any number of    *)
(* users, connections, tokens, failures and restarts.                        *)
EXTENDS AuthSession, TLAPS

LEMMA Bounds ==
  /\ MaxSignUps \in Nat /\ MaxTokens \in Nat /\ MaxFaults \in Nat /\ Capacity \in Nat \ {0}
  /\ DataKey \subseteq Nat /\ Token \subseteq Nat /\ InstanceKey \subseteq Nat
BY AuthAssumption, BusAssumption DEF DataKey, Token, InstanceKey

LEMMA NoneIsApart ==
  /\ None \notin Name /\ None \notin Channel /\ None \notin DataKey /\ None \notin Token
  /\ None \notin Password /\ None \notin User /\ None \notin TokenRecord /\ None \notin KeyEntry
BY AuthAssumption, BusAssumption, Bounds

LEMMA ConfigsAreTyped ==
  ASSUME config \in Configs
  PROVE  /\ config.pinned \in BOOLEAN /\ config.sealedCache \in BOOLEAN
         /\ config.keepsUsers \in BOOLEAN /\ config.keepsSessions \in BOOLEAN
         /\ config.keepsBlobs \in BOOLEAN
BY AuthAssumption

LEMMA IdleIsTyped == Idle \in Call
BY DEF Idle, Call, CallStep

(* The call of a connection after one of its steps is again a call.          *)
LEMMA CallsAreTyped ==
  ASSUME calls \in [Conn -> Call], NEW c \in Conn
  PROVE  /\ \A s \in CallStep : Goto(c, s) => calls' \in [Conn -> Call]
         /\ Return(c) => calls' \in [Conn -> Call]
         /\ \A q \in Call : [calls EXCEPT ![c] = q] \in [Conn -> Call]
<1>1. calls[c] \in Call
  OBVIOUS
<1>2. \A q \in Call : [calls EXCEPT ![c] = q] \in [Conn -> Call]
  OBVIOUS
<1>3. \A s \in CallStep : [calls[c] EXCEPT !.step = s] \in Call
  BY <1>1 DEF Call
<1>4. \A s \in CallStep : [calls EXCEPT ![c].step = s] = [calls EXCEPT ![c] = [calls[c] EXCEPT !.step = s]]
  OBVIOUS
<1> QED BY <1>2, <1>3, <1>4, IdleIsTyped DEF Goto, Return

-----------------------------------------------------------------------------
(* Types *)

\* an instance key is generated by a restart, and restarts are counted
Grounded == instanceKey <= faults

AuthTypeOK ==
  /\ config \in Configs /\ instanceKey \in InstanceKey
  /\ users \in [Name -> User \cup {None}]
  /\ tokens \in [Token -> TokenRecord \cup {None}]
  /\ keys \in [Token -> KeyEntry \cup {None}]
  /\ blobs \in [Name -> DataKey \cup {None}]
  /\ calls \in [Conn -> Call]
  /\ known \subseteq Token
  /\ drawn \in 0..MaxSignUps /\ faults \in 0..MaxFaults
  /\ signed \subseteq Name /\ twice \subseteq Name
  /\ leaked \subseteq Token /\ restarted \subseteq Token

(* What a call has in hand at each of its steps.                             *)
CallsFit ==
  \A c \in Conn :
    /\ calls[c].saw = None
    /\ calls[c].step = "put" => calls[c].password \in Password
    /\ calls[c].step \in {"put", "mint", "cache"} =>
         calls[c].name \in Name /\ calls[c].key \in DataKey
    /\ calls[c].step \in {"idle", "put", "mint"} => calls[c].token = None
    /\ calls[c].step \notin {"idle", "put", "mint"} =>
         calls[c].name \in Name /\ calls[c].token \in Token
    /\ calls[c].step = "cache" =>
         /\ calls[c].token \notin known /\ tokens[calls[c].token] # None
         /\ tokens[calls[c].token].name = calls[c].name
         /\ \A d \in Conn \ {c} : calls[d].token # calls[c].token
    /\ calls[c].step \in {"forgetToken", "forgetKey"} =>
         tokens[calls[c].token] = None \/ ~tokens[calls[c].token].live
    /\ calls[c].step \notin {"idle", "put", "mint", "cache"} => calls[c].token \in known

Inv == TypeOK /\ Grounded /\ CallsFit

LEMMA TypeInit == Init => Inv
<1> SUFFICES ASSUME Init PROVE Inv
  OBVIOUS
<1>1. BusTypeOK
  BY DEF Init, BusInit, BusTypeOK
<1>2. calls \in [Conn -> Call]
  BY IdleIsTyped DEF Init
<1>3. TypeOK
  BY <1>1, <1>2, Bounds DEF Init, TypeOK, InstanceKey
<1>4. CallsFit
  BY DEF Init, CallsFit, Idle
<1> QED BY <1>3, <1>4 DEF Inv, Grounded, Init

\* one more failure or restart stays within the bound
LEMMA FailsIsTyped ==
  ASSUME TypeOK, Grounded, Fails \/ UNCHANGED faults
  PROVE  faults' \in 0..MaxFaults /\ faults <= faults' /\ (UNCHANGED instanceKey => Grounded')
<1>1. faults \in 0..MaxFaults /\ instanceKey \in Nat /\ instanceKey <= faults
  BY Bounds DEF TypeOK, Grounded
<1> QED BY <1>1, Bounds DEF Fails, Grounded

-----------------------------------------------------------------------------
LEMMA SignUpStep ==
  ASSUME Inv, NEW c \in Conn, NEW n \in Name, NEW p \in Password, SignUp(c, n, p)
  PROVE  Inv'
<1> DEFINE q == [Idle EXCEPT !.step = "put", !.name = n, !.password = p, !.key = drawn + 1,
                             !.saw = None]
<1>1. /\ calls' = [calls EXCEPT ![c] = q] /\ drawn' = drawn + 1 /\ drawn < MaxSignUps
      /\ Fails \/ UNCHANGED faults
      /\ UNCHANGED <<fixed, stores, known, history, busVars>>
  <2>1. PICK failed \in BOOLEAN :
          /\ IF failed THEN Fails ELSE ~Taken(n) /\ UNCHANGED faults
          /\ calls' = [calls EXCEPT ![c] = [Idle EXCEPT !.step = "put", !.name = n, !.password = p,
                         !.key = drawn + 1, !.saw = IF ~failed /\ Readable(n) THEN users[n] ELSE None]]
    BY DEF SignUp
  <2>2. failed \/ ~Readable(n)
    BY <2>1 DEF Taken
  <2>3. calls' = [calls EXCEPT ![c] = q]
    <3> DEFINE saw == IF ~failed /\ Readable(n) THEN users[n] ELSE None
    <3>1. saw = None
      BY <2>2
    <3>2. calls' = [calls EXCEPT ![c] = [Idle EXCEPT !.step = "put", !.name = n, !.password = p,
                         !.key = drawn + 1, !.saw = saw]]
      BY <2>1
    <3> HIDE DEF saw
    <3> QED BY <3>1, <3>2
  <2> HIDE DEF q
  <2> QED BY <2>1, <2>3 DEF SignUp
<1>2. drawn + 1 \in DataKey /\ drawn' \in 0..MaxSignUps
  BY <1>1, Bounds DEF Inv, TypeOK, DataKey
<1>3. q \in Call
  BY <1>2, IdleIsTyped DEF Call, CallStep
<1>4. calls' \in [Conn -> Call]
  BY <1>1, <1>3, CallsAreTyped DEF Inv, TypeOK
<1>5. faults' \in 0..MaxFaults /\ Grounded'
  BY <1>1, FailsIsTyped DEF Inv, fixed
<1>6. TypeOK'
  BY <1>1, <1>2, <1>4, <1>5 DEF Inv, TypeOK, BusTypeOK, fixed, stores, history, busVars
<1>7. CallsFit'
  <2>1. q.saw = None /\ q.step = "put" /\ q.name = n /\ q.password = p /\ q.key = drawn + 1 /\ q.token = None
    BY DEF Idle
  <2> HIDE DEF q
  <2>2. calls'[c] = q /\ \A d \in Conn \ {c} : calls'[d] = calls[d]
    BY <1>1 DEF Inv, TypeOK
  <2> QED BY <1>1, <1>2, <2>1, <2>2, NoneIsApart DEF Inv, CallsFit, stores
<1> QED BY <1>5, <1>6, <1>7 DEF Inv

\* the call of one connection is replaced, the others stay
LEMMA CallReplaced ==
  ASSUME Inv, NEW c \in Conn, NEW q \in Call, calls' = [calls EXCEPT ![c] = q]
  PROVE  /\ calls' \in [Conn -> Call]
         /\ calls'[c] = q /\ \A d \in Conn \ {c} : calls'[d] = calls[d]
BY CallsAreTyped DEF Inv, TypeOK

\* an answered call leaves nothing behind
LEMMA ReturnFits ==
  ASSUME Inv, NEW c \in Conn, Return(c), UNCHANGED known,
         \A d \in Conn \ {c} :
           tokens'[calls[d].token] = tokens[calls[d].token] \/ calls[d].token \notin Token
  PROVE  CallsFit' /\ calls' \in [Conn -> Call]
<1>1. calls' = [calls EXCEPT ![c] = Idle] /\ calls \in [Conn -> Call]
  BY DEF Return, Inv, TypeOK
<1>2. calls'[c] = Idle /\ \A d \in Conn \ {c} : calls'[d] = calls[d]
  BY <1>1
<1>3. Idle.step = "idle" /\ Idle.token = None /\ Idle.saw = None
  BY DEF Idle
<1>4. calls' \in [Conn -> Call]
  BY <1>1, CallsAreTyped DEF Return
<1>5. \A d \in Conn \ {c} : calls[d].token \in Token => calls[d].token # None
  BY NoneIsApart
<1>6. \A d \in Conn \ {c} : calls[d].step = "cache" => calls[d].token # Idle.token
  BY <1>3, NoneIsApart DEF Inv, CallsFit
<1> QED BY <1>2, <1>3, <1>4, <1>6 DEF Inv, CallsFit

LEMMA StoreUserStep ==
  ASSUME Inv, NEW c \in Conn, StoreUser(c)
  PROVE  Inv'
<1>1. calls[c] \in Call /\ calls[c].step = "put" /\ calls[c].name \in Name
      /\ calls[c].key \in DataKey /\ calls[c].password \in Password
  BY DEF StoreUser, Inv, TypeOK, CallsFit
<1>2. UNCHANGED <<fixed, tokens, keys, blobs, known, drawn, leaked, restarted, busVars>>
  BY DEF StoreUser
<1>3. Fails \/ UNCHANGED faults
  BY DEF StoreUser
<1>4. faults' \in 0..MaxFaults /\ Grounded'
  BY <1>2, <1>3, FailsIsTyped DEF Inv, fixed
<1>5. CASE Fails /\ Return(c) /\ UNCHANGED <<users, signed, twice>>
  <2>1. CallsFit' /\ calls' \in [Conn -> Call]
    BY <1>2, <1>5, ReturnFits
  <2> QED BY <1>2, <1>4, <1>5, <2>1 DEF Inv, TypeOK, BusTypeOK, fixed, busVars
<1>6. CASE /\ users' = [users EXCEPT ![calls[c].name] =
                [password |-> calls[c].password, key |-> Wrapped(calls[c].key), seal |-> instanceKey]]
           /\ signed' = signed \cup {calls[c].name}
           /\ twice' = IF calls[c].name \in signed THEN twice \cup {calls[c].name} ELSE twice
           /\ calls' = [calls EXCEPT ![c] =
                [Idle EXCEPT !.step = "mint", !.name = calls[c].name, !.key = calls[c].key]]
  <2> DEFINE q == [Idle EXCEPT !.step = "mint", !.name = calls[c].name, !.key = calls[c].key]
  <2>1. q \in Call
    BY <1>1, IdleIsTyped DEF Call, CallStep
  <2>2. q.step = "mint" /\ q.name = calls[c].name /\ q.key = calls[c].key /\ q.token = None /\ q.saw = None
    BY DEF Idle
  <2>3. calls' = [calls EXCEPT ![c] = q]
    BY <1>6
  <2> HIDE DEF q
  <2>4. /\ calls' \in [Conn -> Call]
        /\ calls'[c] = q /\ \A d \in Conn \ {c} : calls'[d] = calls[d]
    BY <2>1, <2>3, CallReplaced
  <2>5. CallsFit'
    BY <1>1, <1>2, <2>2, <2>4, NoneIsApart DEF Inv, CallsFit
  <2>6. users' \in [Name -> User \cup {None}]
    <3>1. [password |-> calls[c].password, key |-> Wrapped(calls[c].key), seal |-> instanceKey] \in User
      BY <1>1 DEF User, Wrapped, Inv, TypeOK
    <3> QED BY <1>1, <1>6, <3>1 DEF Inv, TypeOK
  <2>7. signed' \subseteq Name /\ twice' \subseteq Name
    BY <1>1, <1>6 DEF Inv, TypeOK
  <2> QED BY <1>2, <1>4, <2>4, <2>5, <2>6, <2>7 DEF Inv, TypeOK, BusTypeOK, fixed, busVars
<1> QED BY <1>5, <1>6 DEF StoreUser

LEMMA LoginStep ==
  ASSUME Inv, NEW c \in Conn, NEW n \in Name, NEW p \in Password, Login(c, n, p)
  PROVE  Inv'
<1> DEFINE q == [Idle EXCEPT !.step = "mint", !.name = n, !.key = users[n].key]
<1>1. users[n] \in User
  BY DEF Login, Readable, Inv, TypeOK
<1>2. q \in Call
  BY <1>1, IdleIsTyped DEF Call, CallStep, User
<1>3. q.step = "mint" /\ q.name = n /\ q.key \in DataKey /\ q.token = None /\ q.saw = None
  BY <1>1 DEF Idle, User
<1>4. calls' = [calls EXCEPT ![c] = q]
  BY DEF Login
<1> HIDE DEF q
<1>5. /\ calls' \in [Conn -> Call]
      /\ calls'[c] = q /\ \A d \in Conn \ {c} : calls'[d] = calls[d]
  BY <1>2, <1>4, CallReplaced
<1>6. UNCHANGED <<fixed, stores, known, drawn, faults, history, busVars>>
  BY DEF Login
<1>7. CallsFit'
  BY <1>3, <1>5, <1>6, NoneIsApart DEF Inv, CallsFit, stores
<1> QED BY <1>5, <1>6, <1>7 DEF Inv, TypeOK, BusTypeOK, Grounded, fixed, stores, history, busVars

LEMMA MintStep ==
  ASSUME Inv, NEW c \in Conn, Mint(c)
  PROVE  Inv'
<1>1. calls[c] \in Call /\ calls[c].step = "mint" /\ calls[c].name \in Name /\ calls[c].key \in DataKey
      /\ calls[c].saw = None
  BY DEF Mint, Inv, TypeOK, CallsFit
<1>2. UNCHANGED <<fixed, users, keys, blobs, known, drawn, history, busVars>>
  BY DEF Mint
<1>3. faults' \in 0..MaxFaults /\ Grounded'
  BY <1>2, FailsIsTyped DEF Inv, fixed, Mint
<1>4. CASE Fails /\ Return(c) /\ UNCHANGED tokens
  <2>1. CallsFit' /\ calls' \in [Conn -> Call]
    BY <1>2, <1>4, ReturnFits
  <2> QED BY <1>2, <1>3, <1>4, <2>1 DEF Inv, TypeOK, BusTypeOK, fixed, history, busVars
<1>5. ASSUME NEW t \in Token, t \notin known, \A d \in Conn : calls[d].token # t,
             tokens' = [tokens EXCEPT ![t] = [name |-> calls[c].name, live |-> TRUE]],
             calls' = [calls EXCEPT ![c].step = "cache", ![c].token = t]
      PROVE  Inv'
  <2> DEFINE q == [calls[c] EXCEPT !.step = "cache", !.token = t]
  <2>1. q \in Call
    BY <1>1 DEF Call, CallStep
  <2>2. q.step = "cache" /\ q.name = calls[c].name /\ q.key = calls[c].key /\ q.token = t /\ q.saw = None
    BY <1>1 DEF Call
  <2>3. calls' = [calls EXCEPT ![c] = q]
    BY <1>5 DEF Inv, TypeOK
  <2> HIDE DEF q
  <2>4. /\ calls' \in [Conn -> Call]
        /\ calls'[c] = q /\ \A d \in Conn \ {c} : calls'[d] = calls[d]
    BY <2>1, <2>3, CallReplaced
  <2>5. [name |-> calls[c].name, live |-> TRUE] \in TokenRecord
    BY <1>1 DEF TokenRecord
  <2>6. tokens' \in [Token -> TokenRecord \cup {None}] /\ tokens'[t] # None
        /\ \A u \in Token \ {t} : tokens'[u] = tokens[u]
    BY <1>5, <2>5, NoneIsApart DEF Inv, TypeOK
  <2>7. \A d \in Conn : calls[d].token \in Token => tokens'[calls[d].token] = tokens[calls[d].token]
    BY <1>5, <2>6
  <2>8. CallsFit'
    BY <1>1, <1>2, <1>5, <2>2, <2>4, <2>6, <2>7 DEF Inv, CallsFit
  <2> QED BY <1>2, <1>3, <2>4, <2>6, <2>8 DEF Inv, TypeOK, BusTypeOK, fixed, history, busVars
<1> QED BY <1>4, <1>5 DEF Mint

LEMMA CacheKeyStep ==
  ASSUME Inv, NEW c \in Conn, CacheKey(c)
  PROVE  Inv'
<1>1. calls[c] \in Call /\ calls[c].step = "cache" /\ calls[c].token \in Token /\ calls[c].key \in DataKey
  BY DEF CacheKey, Inv, TypeOK, CallsFit
<1>2. UNCHANGED <<fixed, users, tokens, blobs, drawn, history, busVars>> /\ Return(c)
  BY DEF CacheKey
<1>3. faults' \in 0..MaxFaults /\ Grounded'
  BY <1>2, FailsIsTyped DEF Inv, fixed, CacheKey
<1>4. known' \in {known, known \cup {calls[c].token}}
  BY DEF CacheKey, HandedOut
<1>5. keys' \in [Token -> KeyEntry \cup {None}]
  <2>1. [key |-> calls[c].key, seal |-> instanceKey] \in KeyEntry
    BY <1>1 DEF Inv, TypeOK, KeyEntry
  <2> QED BY <1>1, <2>1 DEF CacheKey, Inv, TypeOK
<1>6. calls' \in [Conn -> Call]
  BY <1>2, CallsAreTyped DEF Inv, TypeOK
<1>7. calls' = [calls EXCEPT ![c] = Idle]
  BY <1>2 DEF Return
<1>8. calls'[c] = Idle /\ \A d \in Conn \ {c} : calls'[d] = calls[d]
  BY <1>7 DEF Inv, TypeOK
<1>9. Idle.step = "idle" /\ Idle.token = None /\ Idle.saw = None
  BY DEF Idle
<1>10. CallsFit'
  <2>1. \A d \in Conn \ {c} : calls[d].step = "cache" =>
          calls[d].token # calls[c].token /\ calls[d].token # None
    BY <1>1, NoneIsApart DEF Inv, CallsFit
  <2> QED BY <1>1, <1>2, <1>4, <1>8, <1>9, <2>1 DEF Inv, CallsFit
<1> QED BY <1>1, <1>2, <1>3, <1>4, <1>5, <1>6, <1>10 DEF Inv, TypeOK, BusTypeOK, fixed, history, busVars

LEMMA ExpireStep ==
  ASSUME Inv, NEW t \in Token, Expire(t)
  PROVE  Inv'
<1>1. tokens[t] \in TokenRecord /\ tokens' = [tokens EXCEPT ![t].live = FALSE]
      /\ UNCHANGED <<fixed, users, keys, blobs, calls, known, drawn, faults, history, busVars>>
  BY DEF Expire, Inv, TypeOK
<1>2. [tokens[t] EXCEPT !.live = FALSE] \in TokenRecord /\ ~[tokens[t] EXCEPT !.live = FALSE].live
  BY <1>1 DEF TokenRecord
<1>3. tokens' = [tokens EXCEPT ![t] = [tokens[t] EXCEPT !.live = FALSE]]
  BY <1>1 DEF Inv, TypeOK
<1>4. /\ tokens' \in [Token -> TokenRecord \cup {None}]
      /\ tokens'[t] # None /\ ~tokens'[t].live
      /\ \A u \in Token \ {t} : tokens'[u] = tokens[u]
  BY <1>2, <1>3, NoneIsApart DEF Inv, TypeOK
<1>5. CallsFit'
  BY <1>1, <1>4 DEF Inv, CallsFit
<1> QED BY <1>1, <1>4, <1>5 DEF Inv, TypeOK, BusTypeOK, Grounded, fixed, history, busVars

LEMMA PresentStep ==
  ASSUME Inv, NEW c \in Conn, NEW t \in Token, Present(c, t)
  PROVE  Inv'
<1> DEFINE s == IF tokens[t].live THEN "authorize" ELSE "forgetToken"
           q == [Idle EXCEPT !.step = s, !.name = tokens[t].name, !.token = t]
<1>1. tokens[t] \in TokenRecord /\ t \in known
      /\ UNCHANGED <<fixed, stores, known, drawn, faults, history, busVars>>
  BY DEF Present, Inv, TypeOK
<1>2. s \in {"authorize", "forgetToken"} /\ (s = "forgetToken" => ~tokens[t].live)
  OBVIOUS
<1>3. calls' = [calls EXCEPT ![c] = q]
  BY DEF Present
<1> HIDE DEF s
<1>4. q \in Call
  BY <1>1, <1>2, IdleIsTyped DEF Call, CallStep, TokenRecord
<1>5. q.step = s /\ q.name \in Name /\ q.token = t /\ q.saw = None
  BY <1>1 DEF Idle, TokenRecord
<1> HIDE DEF q
<1>6. /\ calls' \in [Conn -> Call]
      /\ calls'[c] = q /\ \A d \in Conn \ {c} : calls'[d] = calls[d]
  BY <1>3, <1>4, CallReplaced
<1>7. CallsFit'
  BY <1>1, <1>2, <1>5, <1>6 DEF Inv, CallsFit, stores
<1> QED BY <1>1, <1>6, <1>7 DEF Inv, TypeOK, BusTypeOK, Grounded, fixed, stores, history, busVars

\* a call goes on with the token it has
LEMMA GoneOnFits ==
  ASSUME Inv, NEW c \in Conn, NEW q \in Call, calls' = [calls EXCEPT ![c] = q],
         calls[c].step \in {"forgetToken", "authorize", "handle"}, UNCHANGED known,
         q.step \in {"forgetKey", "handle", "stream"},
         q.step = "forgetKey" => tokens'[calls[c].token] = None \/ ~tokens'[calls[c].token].live,
         q.name = calls[c].name, q.token = calls[c].token, q.saw = calls[c].saw,
         \A u \in Token : tokens'[u] = tokens[u] \/ (tokens'[u] = None /\ u \in known)
  PROVE  CallsFit' /\ calls' \in [Conn -> Call]
<1>1. /\ calls' \in [Conn -> Call]
      /\ calls'[c] = q /\ \A d \in Conn \ {c} : calls'[d] = calls[d]
  BY CallReplaced
<1>2. \A d \in Conn \ {c} : calls[d].step = "cache" => calls[d].token # calls[c].token
  BY DEF Inv, CallsFit
<1> QED BY <1>1, <1>2 DEF Inv, CallsFit

LEMMA GotoIsReplacement ==
  ASSUME Inv, NEW c \in Conn, NEW s \in CallStep, Goto(c, s)
  PROVE  LET q == [calls[c] EXCEPT !.step = s]
         IN  /\ calls' = [calls EXCEPT ![c] = q] /\ q \in Call /\ q.step = s /\ q.name = calls[c].name
             /\ q.token = calls[c].token /\ q.saw = calls[c].saw
<1>1. calls[c] \in Call /\ calls \in [Conn -> Call]
  BY DEF Inv, TypeOK
<1> QED BY <1>1 DEF Goto, Call

LEMMA ForgetTokenStep ==
  ASSUME Inv, NEW c \in Conn, ForgetToken(c)
  PROVE  Inv'
<1>1. calls[c].step = "forgetToken" /\ calls[c].token \in Token /\ calls[c].token \in known
      /\ UNCHANGED <<fixed, users, keys, blobs, known, drawn, history, busVars>>
      /\ Goto(c, "forgetKey")
      /\ (tokens[calls[c].token] = None \/ ~tokens[calls[c].token].live)
  BY DEF ForgetToken, Inv, CallsFit
<1>2. faults' \in 0..MaxFaults /\ Grounded'
  BY <1>1, FailsIsTyped DEF Inv, fixed, ForgetToken
<1>3. tokens' \in [Token -> TokenRecord \cup {None}]
      /\ tokens' \in {tokens, [tokens EXCEPT ![calls[c].token] = None]}
  BY DEF ForgetToken, Inv, TypeOK
<1>4. /\ \A u \in Token : tokens'[u] = tokens[u] \/ (tokens'[u] = None /\ u \in known)
      /\ tokens'[calls[c].token] = None \/ ~tokens'[calls[c].token].live
  BY <1>1, <1>3 DEF Inv, TypeOK
<1>5. CallsFit' /\ calls' \in [Conn -> Call]
  <2> DEFINE q == [calls[c] EXCEPT !.step = "forgetKey"]
  <2>1. "forgetKey" \in CallStep
    BY DEF CallStep
  <2>2. /\ calls' = [calls EXCEPT ![c] = q] /\ q \in Call /\ q.step = "forgetKey"
        /\ q.name = calls[c].name /\ q.token = calls[c].token /\ q.saw = calls[c].saw
    BY <1>1, <2>1, GotoIsReplacement
  <2> HIDE DEF q
  <2> QED BY <1>1, <1>4, <2>2, GoneOnFits
<1> QED BY <1>1, <1>2, <1>3, <1>5 DEF Inv, TypeOK, BusTypeOK, fixed, history, busVars

LEMMA ForgetKeyStep ==
  ASSUME Inv, NEW c \in Conn, ForgetKey(c)
  PROVE  Inv'
<1>1. calls[c].token \in Token /\ Return(c)
      /\ UNCHANGED <<fixed, users, tokens, blobs, known, drawn, signed, twice, restarted, busVars>>
  BY DEF ForgetKey, Inv, CallsFit
<1>2. faults' \in 0..MaxFaults /\ Grounded'
  BY <1>1, FailsIsTyped DEF Inv, fixed, ForgetKey
<1>3. keys' \in [Token -> KeyEntry \cup {None}] /\ leaked' \subseteq Token
  BY <1>1 DEF ForgetKey, Forgotten, Inv, TypeOK
<1>4. CallsFit' /\ calls' \in [Conn -> Call]
  BY <1>1, ReturnFits
<1> QED BY <1>1, <1>2, <1>3, <1>4 DEF Inv, TypeOK, BusTypeOK, fixed, busVars

LEMMA CachedKeyIsTyped ==
  ASSUME Inv, NEW t \in Token
  PROVE  CachedKey(t) \in DataKey \cup {None}
BY DEF CachedKey, Inv, TypeOK, KeyEntry

LEMMA AuthorizeStep ==
  ASSUME Inv, NEW c \in Conn, Authorize(c)
  PROVE  Inv'
<1>1. calls[c] \in Call /\ calls[c].step = "authorize" /\ calls[c].token \in Token
      /\ UNCHANGED <<fixed, stores, known, drawn, history, busVars>>
      /\ (Fails \/ UNCHANGED faults)
  BY DEF Authorize, Inv, TypeOK, CallsFit
<1>p. PICK k \in {CachedKey(calls[c].token), None} :
        calls' = [calls EXCEPT ![c].step = "handle", ![c].key = k]
  BY DEF Authorize
<1> DEFINE q == [calls[c] EXCEPT !.step = "handle", !.key = k]
<1>2. k \in DataKey \cup {None}
  BY <1>p, <1>1, CachedKeyIsTyped
<1>3. calls' = [calls EXCEPT ![c] = q]
  BY <1>p DEF Inv, TypeOK
<1>f. faults' \in 0..MaxFaults /\ Grounded'
  BY <1>1, FailsIsTyped DEF Inv, fixed
<1>4. q \in Call
  BY <1>1, <1>2 DEF Call, CallStep
<1>5. q.step = "handle" /\ q.name = calls[c].name /\ q.token = calls[c].token /\ q.saw = calls[c].saw
  BY <1>1 DEF Call
<1> HIDE DEF q
<1>6. CallsFit' /\ calls' \in [Conn -> Call]
  BY <1>1, <1>3, <1>4, <1>5, GoneOnFits DEF stores
<1> QED BY <1>1, <1>f, <1>6 DEF Inv, TypeOK, BusTypeOK, fixed, stores, history, busVars

LEMMA HandlerStep ==
  ASSUME Inv, NEW c \in Conn, EditBlob(c) \/ Answer(c)
  PROVE  Inv'
<1>1. calls[c] \in Call /\ calls[c].step = "handle" /\ calls[c].name \in Name /\ Return(c)
      /\ UNCHANGED <<fixed, users, tokens, keys, known, drawn, faults, history, busVars>>
  BY DEF EditBlob, Answer, Inv, TypeOK, CallsFit, stores
<1>2. blobs' \in [Name -> DataKey \cup {None}]
  BY <1>1 DEF EditBlob, Answer, Inv, TypeOK, stores, Call
<1>3. CallsFit' /\ calls' \in [Conn -> Call]
  BY <1>1, ReturnFits
<1> QED BY <1>1, <1>2, <1>3 DEF Inv, TypeOK, BusTypeOK, Grounded, fixed, history, busVars

LEMMA OpenStreamStep ==
  ASSUME Inv, NEW c \in Conn, OpenStream(c)
  PROVE  Inv'
<1>1. calls[c].step = "handle" /\ calls[c].name \in Name /\ Register(c, calls[c].name)
      /\ Goto(c, "stream") /\ UNCHANGED <<fixed, stores, known, drawn, faults, history>>
  BY DEF OpenStream, Inv, CallsFit
<1>2. [open |-> TRUE, buffered |-> 0] \in Channel
  BY Bounds DEF Channel
<1>3. BusTypeOK'
  BY <1>1, <1>2 DEF Register, Inv, TypeOK, BusTypeOK
<1>4. CallsFit' /\ calls' \in [Conn -> Call]
  <2> DEFINE q == [calls[c] EXCEPT !.step = "stream"]
  <2>1. "stream" \in CallStep
    BY DEF CallStep
  <2>2. /\ calls' = [calls EXCEPT ![c] = q] /\ q \in Call /\ q.step = "stream"
        /\ q.name = calls[c].name /\ q.token = calls[c].token /\ q.saw = calls[c].saw
    BY <1>1, <2>1, GotoIsReplacement
  <2> HIDE DEF q
  <2> QED BY <1>1, <2>2, GoneOnFits DEF stores
<1> QED BY <1>1, <1>3, <1>4 DEF Inv, TypeOK, Grounded, fixed, stores, history

LEMMA CloseStreamStep ==
  ASSUME Inv, NEW c \in Conn, CloseStream(c)
  PROVE  Inv'
<1>1. Unsubscribe(c) /\ Return(c) /\ UNCHANGED <<fixed, stores, known, drawn, faults, history>>
  BY DEF CloseStream
<1>2. BusTypeOK'
  BY <1>1 DEF Unsubscribe, Unlisted, Inv, TypeOK, BusTypeOK
<1>3. CallsFit' /\ calls' \in [Conn -> Call]
  BY <1>1, ReturnFits DEF stores
<1> QED BY <1>1, <1>2, <1>3 DEF Inv, TypeOK, Grounded, fixed, stores, history

LEMMA OfferedIsTyped ==
  ASSUME NEW ch \in Channel
  PROVE  Offered(ch) \in Channel /\ Offered(ch).open = ch.open
<1>1. ch.buffered \in 0..Capacity /\ ch.open \in BOOLEAN /\ Capacity \in Nat
  BY Bounds DEF Channel
<1>2. CASE ch.buffered < Capacity
  <2>1. Offered(ch) = [ch EXCEPT !.buffered = ch.buffered + 1]
    BY <1>2 DEF Offered, Channel
  <2>2. ch.buffered + 1 \in 0..Capacity
    BY <1>1, <1>2
  <2> QED BY <2>1, <2>2 DEF Channel
<1>3. CASE ~(ch.buffered < Capacity)
  <2>1. Offered(ch) = ch
    BY <1>3 DEF Offered, Channel
  <2> QED BY <2>1
<1> QED BY <1>2, <1>3

(* Subscriptions, channels and streams: an entry of the table is an open     *)
(* channel, a channel is read by a stream, and a stream has its channel.     *)
Streams ==
  \A c \in Conn :
    /\ registered[c] # None <=> (channel[c] # None /\ channel[c].open)
    /\ registered[c] # None => calls[c].name = registered[c]
    /\ channel[c] # None <=> calls[c].step = "stream"

LEMMA BusStepStep ==
  ASSUME Inv, Streams, BusStep
  PROVE  Inv'
<1>1. UNCHANGED authVars
  BY DEF BusStep
<1>2. BusTypeOK'
  <2>0. Capacity \in Nat \ {0}
    BY Bounds
  <2>1. ASSUME NEW S \in SUBSET Name, Publish(S) PROVE BusTypeOK'
    <3>1. ASSUME NEW c \in Conn, registered[c] \in S PROVE Offered(channel[c]) \in Channel
      <4>1. channel[c] \in Channel
        BY <3>1, NoneIsApart DEF Streams, Inv, TypeOK, BusTypeOK
      <4> QED BY <2>0, <4>1, OfferedIsTyped
    <3> QED BY <2>1, <3>1 DEF Publish, Inv, TypeOK, BusTypeOK
  <2>2. ASSUME NEW c \in Conn, Send(c) PROVE BusTypeOK'
    <3>1. channel[c] \in Channel /\ channel[c].buffered > 0
      BY <2>2 DEF Send, Inv, TypeOK, BusTypeOK
    <3>2. [channel[c] EXCEPT !.buffered = @ - 1] \in Channel
      BY <2>0, <3>1 DEF Channel
    <3>3. channel' = [channel EXCEPT ![c] = [channel[c] EXCEPT !.buffered = @ - 1]]
      BY <2>2 DEF Send, Inv, TypeOK, BusTypeOK
    <3> QED BY <2>2, <3>2, <3>3 DEF Send, Inv, TypeOK, BusTypeOK
  <2>3. ASSUME NEW c \in Conn, HangUp(c) PROVE BusTypeOK'
    BY <2>3 DEF HangUp, Inv, TypeOK, BusTypeOK
  <2>4. CASE Close
    <3>1. \A c \in Conn : registered[c] # None => [channel[c] EXCEPT !.open = FALSE] \in Channel
      BY DEF Streams, Inv, TypeOK, BusTypeOK, Channel
    <3> QED BY <2>4, <3>1 DEF Close, Unlisted, Inv, TypeOK, BusTypeOK
  <2> QED BY <2>1, <2>2, <2>3, <2>4 DEF BusStep
<1>3. CallsFit' /\ Grounded'
  BY <1>1 DEF authVars, Inv, CallsFit, Grounded
<1> QED BY <1>1, <1>2, <1>3 DEF authVars, Inv, TypeOK

LEMMA RestartStep ==
  ASSUME Inv, Restart
  PROVE  Inv'
<1>1. faults \in Nat /\ faults' = faults + 1 /\ faults < MaxFaults /\ instanceKey \in Nat /\ instanceKey <= faults
  BY Bounds DEF Restart, Fails, Inv, TypeOK, Grounded
<1>2. instanceKey' \in {instanceKey, instanceKey + 1}
  BY DEF Restart
<1>3. faults' \in 0..MaxFaults /\ instanceKey' \in InstanceKey /\ Grounded'
  BY <1>1, <1>2, Bounds DEF InstanceKey, Grounded
<1>4. calls' = [c \in Conn |-> Idle] /\ UNCHANGED <<config, known, drawn, signed, twice>>
  BY DEF Restart
<1>5. calls' \in [Conn -> Call] /\ CallsFit'
  BY <1>4, IdleIsTyped DEF CallsFit, Idle
<1>6. users' \in [Name -> User \cup {None}] /\ blobs' \in [Name -> DataKey \cup {None}]
      /\ tokens' \in [Token -> TokenRecord \cup {None}] /\ keys' \in [Token -> KeyEntry \cup {None}]
  BY DEF Restart, Inv, TypeOK
<1>7. leaked' \subseteq Token /\ restarted' \subseteq Token /\ BusTypeOK'
  BY DEF Restart, Inv, TypeOK, BusTypeOK
<1> QED BY <1>3, <1>4, <1>5, <1>6, <1>7 DEF Inv, TypeOK

LEMMA InvStep == Inv /\ Streams /\ [Next]_vars => Inv'
<1> SUFFICES ASSUME Inv, Streams, [Next]_vars PROVE Inv'
  OBVIOUS
<1>1. ASSUME NEW c \in Conn, CallStepOf(c) PROVE Inv'
  <2>1. ASSUME NEW n \in Name, NEW p \in Password, SignUp(c, n, p) \/ Login(c, n, p) PROVE Inv'
    BY <2>1, SignUpStep, LoginStep
  <2>2. CASE StoreUser(c) \/ Mint(c) \/ CacheKey(c)
    BY <2>2, StoreUserStep, MintStep, CacheKeyStep
  <2>3. ASSUME NEW t \in Token, Present(c, t) PROVE Inv'
    BY <2>3, PresentStep
  <2>4. CASE ForgetToken(c) \/ ForgetKey(c) \/ Authorize(c)
    BY <2>4, ForgetTokenStep, ForgetKeyStep, AuthorizeStep
  <2>5. CASE EditBlob(c) \/ Answer(c) \/ OpenStream(c) \/ CloseStream(c)
    BY <2>5, HandlerStep, OpenStreamStep, CloseStreamStep
  <2> QED BY <1>1, <2>1, <2>2, <2>3, <2>4, <2>5 DEF CallStepOf
<1>2. ASSUME NEW t \in Token, Expire(t) PROVE Inv'
  BY <1>2, ExpireStep
<1>3. CASE BusStep
  BY <1>3, BusStepStep
<1>4. CASE Restart
  BY <1>4, RestartStep
<1>5. CASE UNCHANGED vars
  BY <1>5 DEF vars, authVars, busVars, Inv, TypeOK, BusTypeOK, Grounded, CallsFit
<1> QED BY <1>1, <1>2, <1>3, <1>4, <1>5 DEF Next

LEMMA StreamsInit == Init => Streams
<1> SUFFICES ASSUME Init, NEW c \in Conn
             PROVE  registered[c] = None /\ channel[c] = None /\ calls[c].step = "idle"
  BY DEF Streams
<1> QED BY DEF Init, BusInit, Idle

\* a step of calls that are no streams before or after it
LEMMA CallsOnly ==
  ASSUME Inv, Streams, UNCHANGED busVars, calls' \in [Conn -> Call],
         \A d \in Conn : calls'[d] = calls[d] \/ {calls[d].step, calls'[d].step} \cap {"stream"} = {}
  PROVE  Streams'
BY DEF Streams, busVars

LEMMA StreamsStep == Inv /\ Streams /\ [Next]_vars => Streams'
<1> SUFFICES ASSUME Inv, Streams, [Next]_vars PROVE Streams'
  OBVIOUS
<1>0. Inv' /\ calls \in [Conn -> Call] /\ calls' \in [Conn -> Call]
  BY InvStep DEF Inv, TypeOK
<1>1. ASSUME NEW c \in Conn, CallStepOf(c) PROVE Streams'
  <2>1. ASSUME NEW n \in Name, NEW p \in Password, SignUp(c, n, p) PROVE Streams'
    <3>1. UNCHANGED busVars /\ calls[c].step = "idle"
      BY <2>1 DEF SignUp
    <3>2. PICK saw : calls' = [calls EXCEPT ![c] =
            [Idle EXCEPT !.step = "put", !.name = n, !.password = p, !.key = drawn + 1, !.saw = saw]]
      BY <2>1 DEF SignUp
    <3>3. calls'[c].step = "put" /\ \A d \in Conn \ {c} : calls'[d] = calls[d]
      BY <1>0, <3>2 DEF Idle
    <3> QED BY <1>0, <3>1, <3>3, CallsOnly
  <2>2. ASSUME NEW n \in Name, NEW p \in Password, Login(c, n, p) PROVE Streams'
    <3>1. UNCHANGED busVars /\ calls[c].step = "idle"
      BY <2>2 DEF Login
    <3>2. calls'[c].step = "mint" /\ \A d \in Conn \ {c} : calls'[d] = calls[d]
      BY <1>0, <2>2 DEF Login, Idle
    <3> QED BY <1>0, <3>1, <3>2, CallsOnly
  <2>3. CASE StoreUser(c)
    <3>1. UNCHANGED busVars /\ calls[c].step = "put"
      BY <2>3 DEF StoreUser
    <3>2. calls'[c].step \in {"mint", "idle"} /\ \A d \in Conn \ {c} : calls'[d] = calls[d]
      <4>1. CASE Return(c)
        BY <1>0, <4>1 DEF Return, Idle
      <4>2. CASE calls' = [calls EXCEPT ![c] =
                   [Idle EXCEPT !.step = "mint", !.name = calls[c].name, !.key = calls[c].key]]
        BY <1>0, <4>2 DEF Idle
      <4> QED BY <2>3, <4>1, <4>2 DEF StoreUser
    <3> QED BY <1>0, <3>1, <3>2, CallsOnly
  <2>4. CASE Mint(c)
    <3>1. UNCHANGED busVars /\ calls[c].step = "mint"
      BY <2>4 DEF Mint
    <3>2. calls'[c].step \in {"cache", "idle"} /\ \A d \in Conn \ {c} : calls'[d] = calls[d]
      BY <1>0, <2>4 DEF Mint, Return, Idle, Call
    <3> QED BY <1>0, <3>1, <3>2, CallsOnly
  <2>5. CASE CacheKey(c) \/ ForgetKey(c) \/ EditBlob(c) \/ Answer(c)
    <3>1. UNCHANGED busVars /\ calls[c].step \in {"cache", "forgetKey", "handle"} /\ Return(c)
      BY <2>5 DEF CacheKey, ForgetKey, EditBlob, Answer
    <3>2. calls'[c].step = "idle" /\ \A d \in Conn \ {c} : calls'[d] = calls[d]
      BY <1>0, <3>1 DEF Return, Idle
    <3> QED BY <1>0, <3>1, <3>2, CallsOnly
  <2>6. ASSUME NEW t \in Token, Present(c, t) PROVE Streams'
    <3>1. UNCHANGED busVars /\ calls[c].step = "idle"
      BY <2>6 DEF Present
    <3>2. calls'[c].step \in {"authorize", "forgetToken"} /\ \A d \in Conn \ {c} : calls'[d] = calls[d]
      BY <1>0, <2>6 DEF Present, Idle
    <3> QED BY <1>0, <3>1, <3>2, CallsOnly
  <2>7. CASE ForgetToken(c) \/ Authorize(c)
    <3>1. UNCHANGED busVars /\ calls[c].step \in {"forgetToken", "authorize"}
      BY <2>7 DEF ForgetToken, Authorize
    <3>2. calls'[c].step \in {"forgetKey", "handle"} /\ \A d \in Conn \ {c} : calls'[d] = calls[d]
      BY <1>0, <2>7 DEF ForgetToken, Authorize, Goto, Call
    <3> QED BY <1>0, <3>1, <3>2, CallsOnly
  <2>8. CASE OpenStream(c)
    <3>1. /\ registered' = [registered EXCEPT ![c] = calls[c].name]
          /\ channel' = [channel EXCEPT ![c] = [open |-> TRUE, buffered |-> 0]]
          /\ calls' = [calls EXCEPT ![c].step = "stream"]
          /\ calls[c].name \in Name /\ calls[c].step = "handle"
      BY <2>8 DEF OpenStream, Register, Goto, Inv, CallsFit
    <3>2. [open |-> TRUE, buffered |-> 0] \in Channel
      BY Bounds DEF Channel
    <3>3. calls'[c].step = "stream" /\ calls'[c].name = calls[c].name
          /\ \A d \in Conn \ {c} : calls'[d] = calls[d]
      BY <1>0, <3>1 DEF Call
    <3> QED BY <3>1, <3>2, <3>3, NoneIsApart DEF Streams, Inv, TypeOK, BusTypeOK
  <2>9. CASE CloseStream(c)
    <3>1. /\ registered' = [registered EXCEPT ![c] = None]
          /\ channel' = [channel EXCEPT ![c] = None]
          /\ calls' = [calls EXCEPT ![c] = Idle]
      BY <2>9 DEF CloseStream, Unsubscribe, Unlisted, Return
    <3>2. calls'[c].step = "idle" /\ \A d \in Conn \ {c} : calls'[d] = calls[d]
      BY <1>0, <3>1 DEF Idle
    <3> QED BY <3>1, <3>2 DEF Streams, Inv, TypeOK, BusTypeOK
  <2> QED BY <1>1, <2>1, <2>2, <2>3, <2>4, <2>5, <2>6, <2>7, <2>8, <2>9 DEF CallStepOf
<1>2. ASSUME NEW t \in Token, Expire(t) PROVE Streams'
  BY <1>2 DEF Expire, Streams, busVars
<1>3. CASE BusStep
  <2>1. UNCHANGED calls
    BY <1>3 DEF BusStep, authVars
  <2>2. ASSUME NEW S \in SUBSET Name, Publish(S) PROVE Streams'
    <3>1. ASSUME NEW c \in Conn, registered[c] \in S
          PROVE  channel'[c] # None /\ channel'[c].open = channel[c].open /\ channel[c] # None
      <4>1. channel[c] \in Channel /\ channel[c] # None
        BY <3>1, NoneIsApart DEF Streams, Inv, TypeOK, BusTypeOK
      <4>2. channel'[c] = Offered(channel[c])
        BY <2>2, <3>1 DEF Publish
      <4> QED BY <4>1, <4>2, OfferedIsTyped, NoneIsApart
    <3>2. \A c \in Conn : registered[c] \notin S => channel'[c] = channel[c]
      BY <2>2 DEF Publish
    <3> QED BY <2>1, <2>2, <3>1, <3>2 DEF Publish, Streams
  <2>3. ASSUME NEW c \in Conn, Send(c) PROVE Streams'
    <3>1. channel[c] \in Channel /\ channel[c] # None /\ registered' = registered
      BY <2>3 DEF Send, Inv, TypeOK, BusTypeOK
    <3>2. channel'[c] \in Channel /\ channel'[c].open = channel[c].open
          /\ \A d \in Conn \ {c} : channel'[d] = channel[d]
      <4>1. channel' = [channel EXCEPT ![c] = [channel[c] EXCEPT !.buffered = @ - 1]]
        BY <2>3 DEF Send, Inv, TypeOK, BusTypeOK
      <4>2. [channel[c] EXCEPT !.buffered = @ - 1] \in Channel
        BY <2>3, <3>1, Bounds DEF Send, Channel
      <4>3. [channel[c] EXCEPT !.buffered = @ - 1].open = channel[c].open
        BY <3>1 DEF Channel
      <4> QED BY <4>1, <4>2, <4>3 DEF Inv, TypeOK, BusTypeOK
    <3> QED BY <2>1, <3>1, <3>2, NoneIsApart DEF Streams
  <2>4. ASSUME NEW c \in Conn, HangUp(c) PROVE Streams'
    BY <2>1, <2>4 DEF HangUp, Streams
  <2>5. CASE Close
    <3>1. ASSUME NEW c \in Conn, registered[c] # None
          PROVE  channel'[c] # None /\ ~channel'[c].open /\ channel[c] # None /\ registered'[c] = None
      <4>1. channel[c] \in Channel /\ channel[c] # None
        BY <3>1 DEF Streams, Inv, TypeOK, BusTypeOK
      <4>2. channel'[c] = [channel[c] EXCEPT !.open = FALSE] /\ registered'[c] = None
        BY <2>5, <3>1 DEF Close, Unlisted
      <4>3. [channel[c] EXCEPT !.open = FALSE] \in Channel /\ ~[channel[c] EXCEPT !.open = FALSE].open
        BY <4>1 DEF Channel
      <4> QED BY <4>1, <4>2, <4>3, NoneIsApart
    <3>2. \A c \in Conn : registered[c] = None => channel'[c] = channel[c] /\ registered'[c] = None
      BY <2>5 DEF Close
    <3> QED BY <2>1, <3>1, <3>2 DEF Streams
  <2> QED BY <1>3, <2>2, <2>3, <2>4, <2>5 DEF BusStep
<1>4. CASE Restart
  BY <1>4 DEF Restart, Streams, Idle
<1>5. CASE UNCHANGED vars
  BY <1>5 DEF vars, authVars, busVars, Streams
<1> QED BY <1>1, <1>2, <1>3, <1>4, <1>5 DEF Next

(* Every variable keeps its type: what each call has in hand fits its step,  *)
(* and instance keys are as many as restarts.                                *)
THEOREM TypeCorrect == Spec => []TypeOK
<1>1. Inv => TypeOK
  BY DEF Inv
<1> QED BY <1>1, TypeInit, StreamsInit, InvStep, StreamsStep, PTL DEF Spec

(* Publish never sends on a closed channel, and never to a stream of another *)
(* user than the one it entitled (bus.go Publish, Close, Unsubscribe).       *)
THEOREM StreamsAgreeHolds == Spec => []StreamsAgree
<1>1. Streams => StreamsAgree
  BY DEF Streams, StreamsAgree
<1> QED BY <1>1, TypeInit, StreamsInit, InvStep, StreamsStep, PTL DEF Spec

-----------------------------------------------------------------------------
(* What a step does to the tokens, their keys and the calls that hold them.  *)

\* the steps that touch neither the tokens nor their keys
LEMMA QuietSteps ==
  ASSUME Inv, NEW c \in Conn, CallStepOf(c), ~Mint(c), ~CacheKey(c), ~ForgetToken(c), ~ForgetKey(c)
  PROVE  /\ UNCHANGED <<fixed, tokens, keys, known, leaked, restarted>>
         /\ calls[c].step \notin {"forgetKey", "forgetToken"}
         /\ \A d \in Conn \ {c} : calls'[d] = calls[d]
<1>0. calls \in [Conn -> Call]
  BY DEF Inv, TypeOK
<1>1. ASSUME NEW n \in Name, NEW p \in Password, SignUp(c, n, p) \/ Login(c, n, p)
      PROVE  /\ UNCHANGED <<fixed, tokens, keys, known, leaked, restarted>>
             /\ calls[c].step \notin {"forgetKey", "forgetToken"}
             /\ \A d \in Conn \ {c} : calls'[d] = calls[d]
  BY <1>0, <1>1 DEF SignUp, Login, stores, history
<1>2. ASSUME NEW t \in Token, Present(c, t)
      PROVE  /\ UNCHANGED <<fixed, tokens, keys, known, leaked, restarted>>
             /\ calls[c].step \notin {"forgetKey", "forgetToken"}
             /\ \A d \in Conn \ {c} : calls'[d] = calls[d]
  BY <1>0, <1>2 DEF Present, stores, history
<1>3. CASE StoreUser(c)
  BY <1>0, <1>3 DEF StoreUser, Return
<1>4. CASE Authorize(c) \/ EditBlob(c) \/ Answer(c)
  BY <1>0, <1>4 DEF Authorize, EditBlob, Answer, Return, stores, history
<1>5. CASE OpenStream(c) \/ CloseStream(c)
  BY <1>0, <1>5 DEF OpenStream, CloseStream, Goto, Return, stores, history
<1> QED BY <1>1, <1>2, <1>3, <1>4, <1>5 DEF CallStepOf

LEMMA OrphanStep == Inv /\ Streams /\ NoOrphanKey /\ [Next]_vars => NoOrphanKey'
<1> SUFFICES ASSUME Inv, NoOrphanKey, [Next]_vars PROVE NoOrphanKey'
  OBVIOUS
<1>0. calls \in [Conn -> Call] /\ tokens \in [Token -> TokenRecord \cup {None}]
      /\ keys \in [Token -> KeyEntry \cup {None}]
  BY DEF Inv, TypeOK
<1>1. ASSUME NEW c \in Conn, CallStepOf(c) PROVE NoOrphanKey'
  <2>1. CASE Mint(c)
    <3>1. calls[c].step = "mint" /\ UNCHANGED <<keys, leaked>> /\ \A d \in Conn \ {c} : calls'[d] = calls[d]
      BY <1>0, <2>1 DEF Mint, Return, history
    <3>2. \A t \in Token : tokens'[t] = None => tokens[t] = None
      <4>1. [name |-> calls[c].name, live |-> TRUE] # None
        <5>1. calls[c].name \in Name
          BY <3>1 DEF Inv, CallsFit
        <5>2. [name |-> calls[c].name, live |-> TRUE] \in TokenRecord
          BY <5>1 DEF TokenRecord
        <5> QED BY <5>2, NoneIsApart
      <4> QED BY <1>0, <2>1, <4>1 DEF Mint
    <3> QED BY <3>1, <3>2 DEF NoOrphanKey
  <2>2. CASE CacheKey(c)
    <3>1. calls[c].step = "cache" /\ tokens[calls[c].token] # None /\ UNCHANGED <<tokens, leaked>>
          /\ \A d \in Conn \ {c} : calls'[d] = calls[d]
      BY <1>0, <2>2 DEF CacheKey, Return, history, Inv, CallsFit
    <3>2. \A t \in Token \ {calls[c].token} : keys'[t] = keys[t]
      BY <1>0, <2>2 DEF CacheKey
    <3> QED BY <3>1, <3>2 DEF NoOrphanKey
  <2>3. CASE ForgetToken(c)
    <3>1. calls[c].step = "forgetToken" /\ calls[c].token \in Token /\ UNCHANGED <<keys, leaked>>
          /\ calls'[c].step = "forgetKey" /\ calls'[c].token = calls[c].token
          /\ \A d \in Conn \ {c} : calls'[d] = calls[d]
      BY <1>0, <2>3 DEF ForgetToken, Goto, Call, history, Inv, CallsFit
    <3>2. \A t \in Token \ {calls[c].token} : tokens'[t] = tokens[t]
      BY <1>0, <2>3 DEF ForgetToken
    <3>3. ASSUME NEW t \in Token, keys'[t] # None, tokens'[t] = None
          PROVE  t \in leaked' \/ \E d \in Conn : calls'[d].step = "forgetKey" /\ calls'[d].token = t
      <4>1. CASE t = calls[c].token
        <5>1. calls'[c].step = "forgetKey" /\ calls'[c].token = t
          BY <3>1, <4>1
        <5> QED BY <5>1
      <4>2. CASE t # calls[c].token
        <5>1. t \in leaked \/ \E d \in Conn : calls[d].step = "forgetKey" /\ calls[d].token = t
          BY <3>1, <3>2, <3>3, <4>2 DEF NoOrphanKey
        <5>2. ASSUME NEW d \in Conn, calls[d].step = "forgetKey", calls[d].token = t
              PROVE  calls'[d].step = "forgetKey" /\ calls'[d].token = t
          BY <3>1, <5>2
        <5> QED BY <3>1, <5>1, <5>2
      <4> QED BY <4>1, <4>2
    <3> QED BY <3>3 DEF NoOrphanKey
  <2>4. CASE ForgetKey(c)
    <3>1. calls[c].step = "forgetKey" /\ calls[c].token \in Token /\ UNCHANGED tokens
          /\ \A d \in Conn \ {c} : calls'[d] = calls[d]
      BY <1>0, <2>4 DEF ForgetKey, Return, Inv, CallsFit
    <3>2. /\ \A t \in Token \ {calls[c].token} : keys'[t] = keys[t] /\ (t \in leaked => t \in leaked')
          /\ keys'[calls[c].token] = None \/ calls[c].token \in leaked'
      BY <1>0, <2>4, <3>1 DEF ForgetKey, Forgotten
    <3>3. leaked \subseteq leaked'
      BY <2>4 DEF ForgetKey
    <3> QED BY <3>1, <3>2, <3>3 DEF NoOrphanKey
  <2>5. CASE ~Mint(c) /\ ~CacheKey(c) /\ ~ForgetToken(c) /\ ~ForgetKey(c)
    BY <1>1, <2>5, QuietSteps DEF NoOrphanKey
  <2> QED BY <2>1, <2>2, <2>3, <2>4, <2>5
<1>2. ASSUME NEW t \in Token, Expire(t) PROVE NoOrphanKey'
  <2>1. \A u \in Token : tokens'[u] = None => tokens[u] = None
    <3>1. tokens[t] \in TokenRecord /\ tokens' = [tokens EXCEPT ![t] = [tokens[t] EXCEPT !.live = FALSE]]
      BY <1>0, <1>2 DEF Expire
    <3>2. [tokens[t] EXCEPT !.live = FALSE] \in TokenRecord
      BY <3>1 DEF TokenRecord
    <3> QED BY <1>0, <3>1, <3>2, NoneIsApart
  <2> QED BY <1>2, <2>1 DEF Expire, NoOrphanKey, history
<1>3. CASE BusStep
  BY <1>3 DEF BusStep, authVars, NoOrphanKey
<1>4. CASE Restart
  <2>1. ASSUME NEW t \in Token, keys'[t] # None, tokens'[t] = None
        PROVE  t \in leaked'
    <3>1. UNCHANGED <<keys, tokens>>
      BY <1>4, <2>1 DEF Restart
    <3>2. t \in leaked \/ \E c \in Conn : calls[c].step = "forgetKey" /\ calls[c].token = t
      BY <2>1, <3>1 DEF NoOrphanKey
    <3> QED BY <1>4, <3>2 DEF Restart
  <2> QED BY <2>1 DEF NoOrphanKey
<1>5. CASE UNCHANGED vars
  BY <1>5 DEF vars, authVars, NoOrphanKey
<1> QED BY <1>1, <1>2, <1>3, <1>4, <1>5 DEF Next

(* A data key stays cached without its token only while a validation is      *)
(* between its two deletes, or after the second failed (session.go Validate).*)
THEOREM NoOrphanKeyHolds == Spec => []NoOrphanKey
<1>1. Init => NoOrphanKey
  BY DEF Init, NoOrphanKey
<1> QED BY <1>1, TypeInit, StreamsInit, InvStep, StreamsStep, OrphanStep, PTL DEF Spec

-----------------------------------------------------------------------------
LEMMA CachedKeyKept ==
  ASSUME NEW t \in Token, keys'[t] = keys[t], UNCHANGED fixed
  PROVE  CachedKey(t)' = CachedKey(t)
BY DEF CachedKey, fixed

LEMMA SessionStep == Inv /\ Streams /\ SessionHasKey /\ [Next]_vars => SessionHasKey'
<1> SUFFICES ASSUME Inv, SessionHasKey, [Next]_vars PROVE SessionHasKey'
  OBVIOUS
<1>0. calls \in [Conn -> Call] /\ tokens \in [Token -> TokenRecord \cup {None}]
      /\ keys \in [Token -> KeyEntry \cup {None}] /\ known \subseteq Token
  BY DEF Inv, TypeOK
\* enough: a live token that is known was live and known before, with the same key
<1>k. ASSUME NEW t \in Token, t \in known \ restarted, keys'[t] = keys[t], UNCHANGED fixed,
             tokens[t] # None, tokens[t].live
      PROVE  CachedKey(t)' # None
  BY <1>k, CachedKeyKept DEF SessionHasKey
<1>1. ASSUME NEW c \in Conn, CallStepOf(c) PROVE SessionHasKey'
  <2>1. CASE Mint(c)
    <3>1. UNCHANGED <<fixed, keys, known, restarted>> /\ \A t \in known : tokens'[t] = tokens[t]
      BY <1>0, <2>1 DEF Mint, history
    <3> QED BY <1>0, <1>k, <3>1 DEF SessionHasKey
  <2>2. CASE CacheKey(c)
    <3>1. calls[c].step = "cache" /\ calls[c].token \in Token /\ calls[c].token \notin known
          /\ UNCHANGED <<fixed, tokens, restarted>> /\ calls[c].key \in DataKey
      BY <2>2 DEF CacheKey, history, Inv, CallsFit
    <3>2. \A t \in Token \ {calls[c].token} : keys'[t] = keys[t]
      BY <1>0, <2>2 DEF CacheKey
    <3>3. ASSUME NEW t \in Token, t = calls[c].token, t \in known' PROVE CachedKey(t)' # None
      <4>1. keys'[t] = [key |-> calls[c].key, seal |-> instanceKey]
        BY <1>0, <2>2, <3>1, <3>3 DEF CacheKey, HandedOut
      <4>2. [key |-> calls[c].key, seal |-> instanceKey] \in KeyEntry
        BY <3>1 DEF KeyEntry, Inv, TypeOK
      <4>3. keys'[t] # None /\ keys'[t].seal = instanceKey' /\ keys'[t].key = calls[c].key
        BY <3>1, <4>1, <4>2, NoneIsApart DEF fixed
      <4>4. CachedKey(t)' = calls[c].key
        BY <4>3 DEF CachedKey
      <4> QED BY <3>1, <4>4, NoneIsApart
    <3>4. known' \subseteq known \cup {calls[c].token}
      BY <2>2 DEF CacheKey, HandedOut
    <3> QED BY <1>0, <1>k, <3>1, <3>2, <3>3, <3>4 DEF SessionHasKey
  <2>3. CASE ForgetToken(c)
    <3>1. UNCHANGED <<fixed, keys, known, restarted>> /\ \A t \in Token : tokens'[t] \in {tokens[t], None}
      BY <1>0, <2>3 DEF ForgetToken, history
    <3> QED BY <1>0, <1>k, <3>1 DEF SessionHasKey
  <2>4. CASE ForgetKey(c)
    <3>1. calls[c].step = "forgetKey" /\ calls[c].token \in Token /\ UNCHANGED <<fixed, tokens, known, restarted>>
          /\ (tokens[calls[c].token] = None \/ ~tokens[calls[c].token].live)
      BY <2>4 DEF ForgetKey, Inv, CallsFit
    <3>2. \A t \in Token \ {calls[c].token} : keys'[t] = keys[t]
      BY <1>0, <2>4 DEF ForgetKey
    <3> QED BY <1>0, <1>k, <3>1, <3>2 DEF SessionHasKey
  <2>5. CASE ~Mint(c) /\ ~CacheKey(c) /\ ~ForgetToken(c) /\ ~ForgetKey(c)
    <3>1. UNCHANGED <<fixed, tokens, keys, known, restarted>>
      BY <1>1, <2>5, QuietSteps
    <3> QED BY <1>0, <1>k, <3>1 DEF SessionHasKey
  <2> QED BY <2>1, <2>2, <2>3, <2>4, <2>5
<1>2. ASSUME NEW t \in Token, Expire(t) PROVE SessionHasKey'
  <2>1. tokens[t] \in TokenRecord /\ tokens' = [tokens EXCEPT ![t] = [tokens[t] EXCEPT !.live = FALSE]]
    BY <1>0, <1>2 DEF Expire
  <2>2. \A u \in Token : tokens'[u] # None /\ tokens'[u].live => tokens'[u] = tokens[u]
    BY <1>0, <2>1 DEF TokenRecord
  <2> QED BY <1>0, <1>2, <1>k, <2>2 DEF Expire, SessionHasKey, history
<1>3. CASE BusStep
  BY <1>0, <1>3, <1>k DEF BusStep, authVars, SessionHasKey, fixed
<1>4. CASE Restart
  <2>1. ASSUME NEW t \in known' \ restarted', tokens'[t] # None, tokens'[t].live
        PROVE  CachedKey(t)' # None
    <3>1. tokens' = tokens /\ t \in Token /\ t \in known \ restarted
      BY <1>0, <1>4, <2>1 DEF Restart
    <3>2. SurvivesRestart
      BY <1>4, <2>1, <3>1 DEF Restart
    <3>3. keys' = keys /\ UNCHANGED fixed
      BY <1>4, <3>2 DEF Restart, SurvivesRestart, fixed
    <3> QED BY <1>k, <2>1, <3>1, <3>3
  <2> QED BY <2>1 DEF SessionHasKey
<1>5. CASE UNCHANGED vars
  BY <1>0, <1>5, <1>k DEF vars, authVars, SessionHasKey, fixed
<1> QED BY <1>1, <1>2, <1>3, <1>4, <1>5 DEF Next

(* A client that was given a token has its data key until the token expires  *)
(* or the instance restarts (mintSession, session.go Validate).              *)
THEOREM SessionHasKeyHolds == Spec => []SessionHasKey
<1>1. Init => SessionHasKey
  BY DEF Init, SessionHasKey
<1> QED BY <1>1, TypeInit, StreamsInit, InvStep, StreamsStep, SessionStep, PTL DEF Spec

-----------------------------------------------------------------------------
\* a lookup that found the record is refused, so no sign-up goes on from one
LEMMA ReplacedStep ==
  ASSUME Inv, [Next]_vars, NEW n \in Name, users[n] # None, users'[n] \notin {users[n], None}
  PROVE  \E c \in Conn : calls[c].step = "put" /\ calls[c].name = n /\ calls[c].saw # users[n]
<1>1. ASSUME NEW c \in Conn, StoreUser(c)
      PROVE  calls[c].step = "put" /\ calls[c].name = n /\ calls[c].saw # users[n]
  <2>1. calls[c].step = "put" /\ calls[c].saw = None
    BY <1>1 DEF StoreUser, Inv, CallsFit
  <2>2. calls[c].name = n
    BY <1>1 DEF StoreUser, Inv, TypeOK
  <2> QED BY <2>1, <2>2
<1>2. ASSUME NEW c \in Conn, CallStepOf(c), ~StoreUser(c) PROVE UNCHANGED users
  BY <1>2 DEF CallStepOf, SignUp, Login, Mint, CacheKey, Present, ForgetToken, ForgetKey, Authorize,
              EditBlob, Answer, OpenStream, CloseStream, stores
<1>3. ASSUME NEW t \in Token, Expire(t) PROVE UNCHANGED users
  BY <1>3 DEF Expire
<1>4. BusStep => UNCHANGED users
  BY DEF BusStep, authVars
<1>5. ~Restart
  BY DEF Restart
<1>6. ~UNCHANGED vars
  BY DEF vars, authVars
<1> QED BY <1>1, <1>2, <1>3, <1>4, <1>5, <1>6 DEF Next

(* A record of a user is replaced only by a sign-up that did not see it      *)
(* (auth.go SignUp).                                                         *)
THEOREM NoRecordSeenIsReplacedHolds == Spec => NoRecordSeenIsReplaced
<1>1. Inv /\ [Next]_vars =>
        [\A n \in Name :
           users[n] # None /\ users'[n] \notin {users[n], None} =>
             \E c \in Conn : calls[c].step = "put" /\ calls[c].name = n /\ calls[c].saw # users[n]]_vars
  BY ReplacedStep
<1> QED BY <1>1, TypeInit, StreamsInit, InvStep, StreamsStep, PTL DEF Spec, NoRecordSeenIsReplaced

-----------------------------------------------------------------------------
(* What tells the data key of a user: its record, a call that was given the  *)
(* key, a cached entry of one of its tokens, and its blob.                   *)
CallTells(c, n, k) ==
  /\ calls[c].name = n
  /\ \/ calls[c].step \in {"mint", "cache", "handle"} /\ calls[c].key = k
     \/ calls[c].step = "authorize" /\ keys[calls[c].token] # None /\ keys[calls[c].token].key = k

TokenTells(t, n, k) ==
  tokens[t] # None /\ tokens[t].name = n /\ keys[t] # None /\ keys[t].key = k

Tells(n, k) ==
  \/ users[n] # None /\ users[n].key = k
  \/ blobs[n] = k
  \/ \E c \in Conn : CallTells(c, n, k)
  \/ \E t \in Token : TokenTells(t, n, k)

\* a user that was signed up once has one data key, one that never was has none
OneKey ==
  \A n \in Name \ twice :
    /\ \A j, k \in DataKey : Tells(n, j) /\ Tells(n, k) => j = k
    /\ n \notin signed => \A k \in DataKey : ~Tells(n, k)

LEMMA OneKeyIsAgreement == Inv /\ OneKey => KeysAgree
<1> SUFFICES ASSUME Inv, OneKey, NEW n \in Name \ twice
             PROVE  /\ users[n] # None =>
                         \A t \in Token : tokens[t] # None /\ tokens[t].name = n /\ keys[t] # None =>
                           keys[t].key = users[n].key
                    /\ \A c \in Conn : calls[c].step = "handle" /\ calls[c].name = n /\ calls[c].key # None =>
                         Opens(n, calls[c].key)
  BY DEF KeysAgree
<1>1. ASSUME users[n] # None, NEW t \in Token, tokens[t] # None, tokens[t].name = n, keys[t] # None
      PROVE  keys[t].key = users[n].key
  <2>1. users[n].key \in DataKey /\ keys[t].key \in DataKey
    BY <1>1 DEF Inv, TypeOK, User, KeyEntry
  <2>2. Tells(n, users[n].key) /\ Tells(n, keys[t].key)
    BY <1>1 DEF Tells, TokenTells
  <2> QED BY <2>1, <2>2 DEF OneKey
<1>2. ASSUME NEW c \in Conn, calls[c].step = "handle", calls[c].name = n, calls[c].key # None, blobs[n] # None
      PROVE  blobs[n] = calls[c].key
  <2>1. blobs[n] \in DataKey /\ calls[c].key \in DataKey
    BY <1>2 DEF Inv, TypeOK, Call
  <2>2. Tells(n, blobs[n]) /\ Tells(n, calls[c].key)
    BY <1>2 DEF Tells, CallTells
  <2> QED BY <2>1, <2>2 DEF OneKey
<1> QED BY <1>1, <1>2 DEF Opens

\* enough: nothing tells a key that was not told before
LEMMA NothingNewTold ==
  ASSUME OneKey, UNCHANGED <<signed, twice>>,
         \A n \in Name \ twice, k \in DataKey : Tells(n, k)' => Tells(n, k)
  PROVE  OneKey'
BY DEF OneKey

LEMMA OneKeyStep == Inv /\ Streams /\ OneKey /\ [Next]_vars => OneKey'
<1> SUFFICES ASSUME Inv, OneKey, [Next]_vars PROVE OneKey'
  OBVIOUS
<1>0. /\ calls \in [Conn -> Call] /\ tokens \in [Token -> TokenRecord \cup {None}]
      /\ keys \in [Token -> KeyEntry \cup {None}] /\ users \in [Name -> User \cup {None}]
      /\ blobs \in [Name -> DataKey \cup {None}]
  BY DEF Inv, TypeOK
\* a step of one call that touches no store: only that call may tell something new
<1>c. ASSUME NEW c \in Conn, UNCHANGED <<users, blobs, tokens, keys, signed, twice>>,
             \A d \in Conn \ {c} : calls'[d] = calls[d],
             \A n \in Name, k \in DataKey : CallTells(c, n, k)' => Tells(n, k)
      PROVE  OneKey'
  <2>1. ASSUME NEW n \in Name \ twice, NEW k \in DataKey, Tells(n, k)' PROVE Tells(n, k)
    <3>1. \A d \in Conn \ {c} : CallTells(d, n, k)' => CallTells(d, n, k)
      BY <1>c DEF CallTells
    <3>2. \A t \in Token : TokenTells(t, n, k)' => TokenTells(t, n, k)
      BY <1>c DEF TokenTells
    <3> QED BY <1>c, <2>1, <3>1, <3>2 DEF Tells
  <2> QED BY <1>c, <2>1, NothingNewTold
<1>1. ASSUME NEW c \in Conn, CallStepOf(c) PROVE OneKey'
  <2>1. ASSUME NEW n \in Name, NEW p \in Password, SignUp(c, n, p) PROVE OneKey'
    <3>1. UNCHANGED <<users, blobs, tokens, keys, signed, twice>>
      BY <2>1 DEF SignUp, stores, history
    <3>2. PICK saw : calls' = [calls EXCEPT ![c] =
            [Idle EXCEPT !.step = "put", !.name = n, !.password = p, !.key = drawn + 1, !.saw = saw]]
      BY <2>1 DEF SignUp
    <3>3. calls'[c].step = "put" /\ \A d \in Conn \ {c} : calls'[d] = calls[d]
      BY <1>0, <3>2 DEF Idle
    <3> QED BY <1>c, <3>1, <3>3 DEF CallTells
  <2>2. ASSUME NEW n \in Name, NEW p \in Password, Login(c, n, p) PROVE OneKey'
    <3>1. UNCHANGED <<users, blobs, tokens, keys, signed, twice>> /\ users[n] # None
      BY <2>2 DEF Login, Readable, stores, history
    <3>2. /\ calls'[c].step = "mint" /\ calls'[c].name = n /\ calls'[c].key = users[n].key
          /\ \A d \in Conn \ {c} : calls'[d] = calls[d]
      BY <1>0, <2>2 DEF Login, Idle
    <3>3. \A m \in Name, k \in DataKey : CallTells(c, m, k)' => Tells(m, k)
      BY <3>1, <3>2 DEF CallTells, Tells
    <3> QED BY <1>c, <3>1, <3>2, <3>3
  <2>3. CASE StoreUser(c)
    <3> DEFINE n == calls[c].name
               rec == [password |-> calls[c].password, key |-> Wrapped(calls[c].key), seal |-> instanceKey]
    <3>1. calls[c].step = "put" /\ n \in Name /\ calls[c].key \in DataKey
          /\ UNCHANGED <<tokens, keys, blobs>>
      BY <2>3 DEF StoreUser, Inv, CallsFit
    <3> HIDE DEF n
    <3>2. CASE Return(c) /\ UNCHANGED <<users, signed, twice>>
      <4>1. calls'[c].step = "idle" /\ \A d \in Conn \ {c} : calls'[d] = calls[d]
        BY <1>0, <3>2 DEF Return, Idle
      <4> QED BY <1>c, <3>1, <3>2, <4>1 DEF CallTells
    <3>3. CASE /\ users' = [users EXCEPT ![n] = rec]
               /\ signed' = signed \cup {n}
               /\ twice' = IF n \in signed THEN twice \cup {n} ELSE twice
               /\ calls' = [calls EXCEPT ![c] = [Idle EXCEPT !.step = "mint", !.name = n, !.key = calls[c].key]]
      <4>1. rec.key = calls[c].key
        BY DEF Wrapped
      <4> HIDE DEF rec
      <4>2. /\ calls'[c].step = "mint" /\ calls'[c].name = n /\ calls'[c].key = calls[c].key
            /\ \A d \in Conn \ {c} : calls'[d] = calls[d]
        BY <1>0, <3>3 DEF Idle
      <4>3. users'[n] = rec /\ \A m \in Name \ {n} : users'[m] = users[m]
        BY <1>0, <3>1, <3>3
      <4>4. \A m \in Name, k \in DataKey, d \in Conn \ {c} : CallTells(d, m, k)' => CallTells(d, m, k)
        BY <3>1, <4>2 DEF CallTells
      <4>5. \A m \in Name, k \in DataKey, t \in Token : TokenTells(t, m, k)' => TokenTells(t, m, k)
        BY <3>1 DEF TokenTells
      <4>6. \A m \in Name, k \in DataKey : Tells(m, k)' => Tells(m, k) \/ (m = n /\ k = calls[c].key)
        BY <3>1, <4>1, <4>2, <4>3, <4>4, <4>5 DEF Tells, CallTells
      <4>7. n \notin Name \ twice' \/ (n \notin signed /\ n \notin twice)
        BY <3>3
      <4> QED BY <3>1, <3>3, <4>6, <4>7 DEF OneKey
    <3> QED BY <2>3, <3>2, <3>3 DEF StoreUser, n
  <2>4. CASE Mint(c)
    <3>1. UNCHANGED <<users, blobs, keys, signed, twice>> /\ calls[c].step = "mint"
      BY <2>4 DEF Mint, history
    <3>2. \A t \in Token : keys[t] # None => tokens'[t] = tokens[t]
      BY <1>0, <2>4 DEF Mint
    <3>3. /\ \/ calls'[c].step = "cache" /\ calls'[c].name = calls[c].name /\ calls'[c].key = calls[c].key
             \/ calls'[c].step = "idle"
          /\ \A d \in Conn \ {c} : calls'[d] = calls[d]
      BY <1>0, <2>4 DEF Mint, Return, Idle, Call
    <3>4. \A n \in Name, k \in DataKey, d \in Conn : CallTells(d, n, k)' => CallTells(d, n, k)
      BY <3>1, <3>3 DEF CallTells
    <3>5. \A n \in Name, k \in DataKey, t \in Token : TokenTells(t, n, k)' => TokenTells(t, n, k)
      BY <3>1, <3>2 DEF TokenTells
    <3> QED BY <3>1, <3>4, <3>5, NothingNewTold DEF Tells
  <2>5. CASE CacheKey(c)
    <3>1. UNCHANGED <<users, blobs, tokens, signed, twice>> /\ calls[c].step = "cache" /\ Return(c)
          /\ calls[c].token \notin known /\ tokens[calls[c].token].name = calls[c].name
      BY <2>5 DEF CacheKey, history, Inv, CallsFit
    <3>2. calls'[c].step = "idle" /\ \A d \in Conn \ {c} : calls'[d] = calls[d]
      BY <1>0, <3>1 DEF Return, Idle
    <3>3. \A t \in Token : keys'[t] = keys[t] \/
            (t = calls[c].token /\ keys'[t] = [key |-> calls[c].key, seal |-> instanceKey])
      BY <1>0, <2>5 DEF CacheKey
    <3>4. ASSUME NEW n \in Name, NEW k \in DataKey, NEW d \in Conn, CallTells(d, n, k)'
          PROVE  CallTells(d, n, k)
      <4>1. d # c /\ calls'[d] = calls[d]
        BY <3>2, <3>4 DEF CallTells
      <4>2. calls[d].step = "authorize" => calls[d].token \in Token /\ calls[d].token # calls[c].token
        BY <3>1 DEF Inv, CallsFit
      <4> QED BY <3>3, <3>4, <4>1, <4>2 DEF CallTells
    <3>5. ASSUME NEW n \in Name, NEW k \in DataKey, NEW t \in Token, TokenTells(t, n, k)'
          PROVE  TokenTells(t, n, k) \/ CallTells(c, n, k)
      BY <3>1, <3>3, <3>5 DEF TokenTells, CallTells
    <3> QED BY <3>1, <3>4, <3>5, NothingNewTold DEF Tells
  <2>6. ASSUME NEW t \in Token, Present(c, t) PROVE OneKey'
    <3>1. UNCHANGED <<users, blobs, tokens, keys, signed, twice>> /\ tokens[t] # None
      BY <2>6 DEF Present, stores, history
    <3>2. /\ calls'[c].step \in {"authorize", "forgetToken"} /\ calls'[c].name = tokens[t].name
          /\ calls'[c].token = t
          /\ \A d \in Conn \ {c} : calls'[d] = calls[d]
      BY <1>0, <2>6 DEF Present, Idle
    <3>3. \A m \in Name, k \in DataKey : CallTells(c, m, k)' => Tells(m, k)
      BY <3>1, <3>2 DEF CallTells, TokenTells, Tells
    <3> QED BY <1>c, <3>1, <3>2, <3>3
  <2>7. CASE ForgetToken(c)
    <3>1. UNCHANGED <<users, blobs, keys, signed, twice>>
      BY <2>7 DEF ForgetToken, history
    <3>2. calls'[c].step = "forgetKey" /\ \A d \in Conn \ {c} : calls'[d] = calls[d]
      BY <1>0, <2>7 DEF ForgetToken, Goto, Call
    <3>3. \A t \in Token : tokens'[t] = tokens[t] \/ tokens'[t] = None
      BY <1>0, <2>7 DEF ForgetToken
    <3>4. \A n \in Name, k \in DataKey, d \in Conn : CallTells(d, n, k)' => CallTells(d, n, k)
      BY <3>1, <3>2 DEF CallTells
    <3>5. \A n \in Name, k \in DataKey, t \in Token : TokenTells(t, n, k)' => TokenTells(t, n, k)
      BY <3>1, <3>3 DEF TokenTells
    <3> QED BY <3>1, <3>4, <3>5, NothingNewTold DEF Tells
  <2>8. CASE ForgetKey(c)
    <3>1. UNCHANGED <<users, blobs, tokens, signed, twice>> /\ Return(c)
      BY <2>8 DEF ForgetKey
    <3>2. calls'[c].step = "idle" /\ \A d \in Conn \ {c} : calls'[d] = calls[d]
      BY <1>0, <3>1 DEF Return, Idle
    <3>3. \A t \in Token : keys'[t] = keys[t] \/ keys'[t] = None
      BY <1>0, <2>8 DEF ForgetKey, Forgotten
    <3>4. ASSUME NEW n \in Name, NEW k \in DataKey, NEW d \in Conn, CallTells(d, n, k)'
          PROVE  CallTells(d, n, k)
      <4>1. d # c /\ calls'[d] = calls[d]
        BY <3>2, <3>4 DEF CallTells
      <4>2. calls[d].step = "authorize" => calls[d].token \in Token
        BY DEF Inv, CallsFit
      <4> QED BY <3>3, <3>4, <4>1, <4>2 DEF CallTells
    <3>5. \A n \in Name, k \in DataKey, t \in Token : TokenTells(t, n, k)' => TokenTells(t, n, k)
      BY <3>1, <3>3 DEF TokenTells
    <3> QED BY <3>1, <3>4, <3>5, NothingNewTold DEF Tells
  <2>9. CASE Authorize(c)
    <3>0. PICK key \in {CachedKey(calls[c].token), None} :
            calls' = [calls EXCEPT ![c].step = "handle", ![c].key = key]
      BY <2>9 DEF Authorize
    <3>1. UNCHANGED <<users, blobs, tokens, keys, signed, twice>> /\ calls[c].step = "authorize"
      BY <2>9 DEF Authorize, stores, history
    <3>2. /\ calls'[c].step = "handle" /\ calls'[c].name = calls[c].name /\ calls'[c].key = key
          /\ \A d \in Conn \ {c} : calls'[d] = calls[d]
      BY <1>0, <3>0 DEF Call
    <3>3. key # None => keys[calls[c].token] # None /\ key = keys[calls[c].token].key
      BY <3>0 DEF CachedKey
    <3>4. ASSUME NEW m \in Name, NEW k \in DataKey, CallTells(c, m, k)' PROVE Tells(m, k)
      <4>1. calls[c].name = m /\ key = k /\ k # None
        BY <3>2, <3>4, NoneIsApart DEF CallTells
      <4>2. CallTells(c, m, k)
        BY <3>1, <3>3, <4>1 DEF CallTells
      <4> QED BY <4>2 DEF Tells
    <3> QED BY <1>c, <3>1, <3>2, <3>4
  <2>10. CASE EditBlob(c)
    <3>1. UNCHANGED <<users, tokens, keys, signed, twice>> /\ Return(c) /\ calls[c].step = "handle"
      BY <2>10 DEF EditBlob, history
    <3>2. calls'[c].step = "idle" /\ \A d \in Conn \ {c} : calls'[d] = calls[d]
      BY <1>0, <3>1 DEF Return, Idle
    <3>3. \A n \in Name : blobs'[n] \in {blobs[n], None} \/ (n = calls[c].name /\ blobs'[n] = calls[c].key)
      BY <1>0, <2>10 DEF EditBlob
    <3>4. \A n \in Name, k \in DataKey, d \in Conn : CallTells(d, n, k)' => CallTells(d, n, k)
      BY <3>1, <3>2 DEF CallTells
    <3>5. \A n \in Name, k \in DataKey, t \in Token : TokenTells(t, n, k)' => TokenTells(t, n, k)
      BY <3>1 DEF TokenTells
    <3>6. \A n \in Name, k \in DataKey : blobs'[n] = k => blobs[n] = k \/ CallTells(c, n, k)
      BY <3>1, <3>3, NoneIsApart DEF CallTells
    <3> QED BY <3>1, <3>4, <3>5, <3>6, NothingNewTold DEF Tells
  <2>11. CASE Answer(c) \/ OpenStream(c) \/ CloseStream(c)
    <3>1. UNCHANGED <<users, blobs, tokens, keys, signed, twice>>
      BY <2>11 DEF Answer, OpenStream, CloseStream, stores, history
    <3>2. calls'[c].step \in {"idle", "stream"} /\ \A d \in Conn \ {c} : calls'[d] = calls[d]
      BY <1>0, <2>11 DEF Answer, OpenStream, CloseStream, Return, Goto, Idle, Call
    <3> QED BY <1>c, <3>1, <3>2 DEF CallTells
  <2> QED BY <1>1, <2>1, <2>2, <2>3, <2>4, <2>5, <2>6, <2>7, <2>8, <2>9, <2>10, <2>11 DEF CallStepOf
<1>2. ASSUME NEW t \in Token, Expire(t) PROVE OneKey'
  <2>1. tokens[t] \in TokenRecord /\ tokens' = [tokens EXCEPT ![t] = [tokens[t] EXCEPT !.live = FALSE]]
        /\ tokens[t] # None /\ UNCHANGED <<users, blobs, keys, calls, signed, twice>>
    BY <1>0, <1>2 DEF Expire, history
  <2>2. \A u \in Token : tokens'[u] = tokens[u] \/ (tokens[u] # None /\ tokens'[u].name = tokens[u].name)
    BY <1>0, <2>1 DEF TokenRecord
  <2>3. \A n \in Name, k \in DataKey, d \in Conn : CallTells(d, n, k)' => CallTells(d, n, k)
    BY <2>1 DEF CallTells
  <2>4. \A n \in Name, k \in DataKey, u \in Token : TokenTells(u, n, k)' => TokenTells(u, n, k)
    BY <2>1, <2>2 DEF TokenTells
  <2> QED BY <2>1, <2>3, <2>4, NothingNewTold DEF Tells
<1>3. CASE BusStep \/ UNCHANGED vars
  <2>1. UNCHANGED authVars
    BY <1>3 DEF BusStep, vars
  <2> QED BY <2>1, NothingNewTold DEF authVars, Tells, CallTells, TokenTells
<1>4. CASE Restart
  <2>1. /\ users' \in {users, [n \in Name |-> None]} /\ blobs' \in {blobs, [n \in Name |-> None]}
        /\ tokens' \in {tokens, [t \in Token |-> None]} /\ keys' \in {keys, [t \in Token |-> None]}
        /\ calls' = [c \in Conn |-> Idle] /\ UNCHANGED <<signed, twice>>
    BY <1>4 DEF Restart
  <2>2. \A n \in Name, k \in DataKey, d \in Conn : ~CallTells(d, n, k)'
    BY <2>1 DEF CallTells, Idle
  <2>3. \A n \in Name, k \in DataKey, t \in Token : TokenTells(t, n, k)' => TokenTells(t, n, k)
    BY <2>1 DEF TokenTells
  <2>4. \A n \in Name, k \in DataKey : blobs'[n] = k => blobs[n] = k
    BY <2>1, NoneIsApart
  <2>5. \A n \in Name : users'[n] # None => users'[n] = users[n]
    BY <2>1
  <2> QED BY <2>1, <2>2, <2>3, <2>4, <2>5, NothingNewTold DEF Tells
<1> QED BY <1>1, <1>2, <1>3, <1>4 DEF Next

(* Unless a name was signed up twice, the key in its record, the keys its    *)
(* sessions cache and the key its blob is encrypted with are one, across     *)
(* logins, expiries, failures and restarts (auth.go, session.go).            *)
THEOREM KeysAgreeHolds == Spec => []KeysAgree
<1>1. Init => OneKey
  <2> SUFFICES ASSUME Init, NEW n \in Name, NEW k \in DataKey PROVE ~Tells(n, k)
    BY DEF OneKey, Init
  <2>1. /\ users[n] = None /\ blobs[n] = None
        /\ \A c \in Conn : calls[c].step = "idle"
        /\ \A t \in Token : tokens[t] = None
    BY DEF Init, Idle
  <2> QED BY <2>1, NoneIsApart DEF Tells, CallTells, TokenTells
<1> QED BY <1>1, TypeInit, StreamsInit, InvStep, StreamsStep, OneKeyStep, OneKeyIsAgreement, PTL DEF Spec
=============================================================================
