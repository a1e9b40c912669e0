------------------------ MODULE AccountSharingProofs ------------------------
(* Theorems about account sharing, for every set of accounts, users, calls *)
(* and deliveries, every number of faults and restarts.                    *)
EXTENDS AccountSharing, TLAPS

USE DEF stores, live, history

-----------------------------------------------------------------------------
(* What a call has in hand at each of its stages *)

Shape(k) ==
  /\ k.stage \in {"saving", "adding", "attaching"} => k.op = "link" /\ k.rec \in Record
  /\ k.stage = "getting" => k.op = "remove" \/ k.req \in Request
  /\ k.stage \in {"reading", "writing"} => k.todo # {}
  /\ k.stage \in {"reading", "writing", "rereading", "swapping", "revoking", "capping"} =>
       k.req \in Request /\ k.old \in Record
  /\ k.stage \in {"writing", "swapping", "revoking", "capping"} => k.rec \in Record
  /\ ~k.undo => \A f \in k.todo : k.req[f] # Unset

Shaped == \A c \in Call : call[c] # Nothing => Shape(call[c])

(* A link in progress wires an account no reach exists for *)

Linking(c) == call[c] # Nothing /\ call[c].stage \in {"saving", "adding", "attaching"}
Untouched(a) == record[a] = Nothing /\ \A c \in Call : call[c] # Nothing => call[c].account # a

FreshLinks ==
  /\ \A a \in Account : Untouched(a) => reach[a] = Nothing
  /\ \A c \in Call : Linking(c) => reach[call[c].account] = Nothing
  /\ \A c, d \in Call : (/\ call[c] # Nothing /\ call[c].op = "link"
                         /\ call[d] # Nothing /\ call[d].op = "link"
                         /\ call[c].account = call[d].account) => c = d

(* The revocation a session without access waits for is that of the call   *)
(* whose sharing the reach now has: any other might spare it               *)

Takes(c, a) ==
  /\ call[c] # Nothing /\ call[c].account = a
  /\ \/ call[c].stage = "ending"
     \/ call[c].stage = "revoking" /\ call[c].rec.sharing = reach[a]

Goes(s) == start[s] # Nothing /\ start[s].stage = "active"

Follows ==
  \A s \in Start \ late : Goes(s) =>
    \/ Reaches(start[s].user, start[s].account)
    \/ \E c \in Call : Takes(c, start[s].account)

IInv == TypeOK /\ Shaped /\ FreshLinks /\ Follows

-----------------------------------------------------------------------------
(* Type correctness, with what a call has in hand *)

Typed == TypeOK /\ Shaped

LEMMA FieldSet ==
  ASSUME NEW r \in Record, NEW f \in Field, NEW v,
         f = "sharing" => v \in Sharing, f = "cap" => v \in Caps, f = "policy" => v \in Policy
  PROVE  [r EXCEPT ![f] = v] \in Record
<1>1. CASE f = "sharing"
  BY <1>1 DEF Record
<1>2. CASE f = "cap"
  BY <1>2 DEF Record
<1>3. CASE f = "policy"
  BY <1>3 DEF Record
<1>. QED  BY <1>1, <1>2, <1>3 DEF Field

LEMMA FieldOfRecord ==
  ASSUME NEW r \in Record, NEW f \in Field
  PROVE  /\ f = "sharing" => r[f] \in Sharing
         /\ f = "cap" => r[f] \in Caps
         /\ f = "policy" => r[f] \in Policy
BY DEF Record, Field

LEMMA FieldOfRequest ==
  ASSUME NEW r \in Request, NEW f \in Field, r[f] # Unset
  PROVE  /\ f = "sharing" => r[f] \in Sharing
         /\ f = "cap" => r[f] \in Caps
         /\ f = "policy" => r[f] \in Policy
BY DEF Request, Field

LEMMA FirstIsIn ==
  ASSUME NEW todo \in SUBSET Field, todo # {}
  PROVE  First(todo) \in todo /\ First(todo) \in Field
BY DEF First, Field

(* A step that leaves a well-shaped call behind keeps the calls typed      *)
LEMMA CallSet ==
  ASSUME Typed, NEW c \in Call, NEW k \in CallState, Shape(k),
         call' = [call EXCEPT ![c] = k]
  PROVE  call' \in [Call -> CallState \cup {Nothing}] /\ Shaped'
<1>1. call \in [Call -> CallState \cup {Nothing}]
  BY DEF Typed, TypeOK
<1>2. call' \in [Call -> CallState \cup {Nothing}]
  BY <1>1
<1>3. ASSUME NEW d \in Call, call'[d] # Nothing PROVE Shape(call'[d])
  <2>1. CASE d = c
    BY <1>1, <2>1
  <2>2. CASE d # c
    BY <1>1, <1>3, <2>2 DEF Typed, Shaped
  <2>. QED  BY <2>1, <2>2
<1>. QED  BY <1>2, <1>3 DEF Shaped, Shape

LEMMA LeftShape ==
  ASSUME NEW k \in CallState, NEW stage \in Stage,
         stage \in {"done", "failed", "lost"} \/ Shape([k EXCEPT !.stage = stage])
  PROVE  Left(k, stage) \in CallState /\ Shape(Left(k, stage))
<1>1. CASE stage \in {"done", "failed", "lost"}
  BY <1>1 DEF Left, Shape, CallState
<1>2. CASE stage \notin {"done", "failed", "lost"}
  BY <1>2 DEF Left, CallState
<1>. QED  BY <1>1, <1>2

LEMMA ProceedShape ==
  ASSUME NEW k \in CallState, k.req \in Request, k.old \in Record,
         ~k.undo => \A f \in k.todo : k.req[f] # Unset
  PROVE  Proceed(k) \in CallState /\ Shape(Proceed(k))
<1>1. CASE k.todo # {}
  <2>1. Shape([k EXCEPT !.stage = "reading"])
    BY <1>1 DEF Shape, CallState
  <2>. QED  BY <1>1, <2>1, LeftShape DEF Proceed, Stage
<1>2. CASE k.todo = {} /\ k.undo
  BY <1>2, LeftShape DEF Proceed, Stage
<1>3. CASE k.todo = {} /\ ~k.undo
  <2>1. Shape([k EXCEPT !.stage = "rereading"])
    BY <1>3 DEF Shape, CallState
  <2>. QED  BY <1>3, <2>1, LeftShape DEF Proceed, Stage
<1>. QED  BY <1>1, <1>2, <1>3

LEMMA AbandonShape ==
  ASSUME Typed, NEW c \in Call, call[c] \in CallState,
         call[c].req \in Request, call[c].old \in Record,
         NEW failed \in {"sharing", "cap", "policy", "swap"}, Abandon(c, failed)
  PROVE  call' \in [Call -> CallState \cup {Nothing}] /\ Shaped'
<1> DEFINE todo == IF call[c].undo THEN call[c].todo \ {failed} ELSE UndoOf(failed)
           k == [call[c] EXCEPT !.undo = TRUE, !.todo = todo]
<1>1. UndoOf(failed) \in SUBSET Field
  BY DEF UndoOf, Field
<1>2. todo \in SUBSET Field
  BY <1>1 DEF CallState
<1> HIDE DEF todo
<1>3. k \in CallState /\ k.req = call[c].req /\ k.old = call[c].old /\ k.undo
  BY <1>2 DEF CallState
<1>4. call' = [call EXCEPT ![c] = Proceed(k)]
  BY DEF Abandon, todo
<1> HIDE DEF k
<1>5. Proceed(k) \in CallState /\ Shape(Proceed(k))
  BY <1>3, ProceedShape
<1>. QED  BY <1>4, <1>5, CallSet

LEMMA GoToShape ==
  ASSUME Typed, NEW c \in Call, call[c] # Nothing, NEW stage \in Stage, GoTo(c, stage),
         stage \in {"done", "failed", "lost"} \/ Shape([call[c] EXCEPT !.stage = stage])
  PROVE  call' \in [Call -> CallState \cup {Nothing}] /\ Shaped'
<1>1. call[c] \in CallState
  BY DEF Typed, TypeOK
<1>2. Left(call[c], stage) \in CallState /\ Shape(Left(call[c], stage))
  BY <1>1, LeftShape
<1>3. call' = [call EXCEPT ![c] = Left(call[c], stage)]
  BY DEF GoTo
<1>. QED  BY <1>2, <1>3, CallSet

LEMMA TypedInit == Init => Typed
<1> SUFFICES ASSUME Init PROVE Typed
  OBVIOUS
<1>1. record \in [Account -> Record \cup {Nothing}]
  BY ConstantsAssumption DEF Init, Record, Policy
<1>2. reach \in [Account -> Sharing \cup {Nothing}]
  BY <1>1 DEF Init, Record
<1>3. call \in [Call -> CallState \cup {Nothing}] /\ Shaped
  BY DEF Init, Shaped
<1>. QED  BY <1>1, <1>2, <1>3, ConstantsAssumption DEF Init, Typed, TypeOK

LEMMA BeginTyped ==
  ASSUME Typed, NEW c \in Call, NEW op \in {"link", "update", "remove"}, NEW a \in Account,
         NEW stage \in Stage, NEW req \in Request \cup {Nothing},
         NEW rec \in Record \cup {Nothing},
         \/ op = "link" /\ stage = "saving" /\ rec \in Record
         \/ op = "update" /\ stage = "getting" /\ req \in Request
         \/ op = "remove" /\ stage = "getting",
         Begin(c, op, a, stage, req, rec)
  PROVE  Typed'
<1> DEFINE k == [op |-> op, stage |-> stage, account |-> a, req |-> req, old |-> Nothing,
                 rec |-> rec, todo |-> {}, undo |-> FALSE]
<1>1. k \in CallState /\ Shape(k)
  BY DEF CallState, Shape
<1>2. call' = [call EXCEPT ![c] = k]
  BY DEF Begin
<1> HIDE DEF k
<1>3. call' \in [Call -> CallState \cup {Nothing}] /\ Shaped'
  BY <1>1, <1>2, CallSet
<1>. QED  BY <1>3 DEF Begin, Typed, TypeOK

LEMMA LinkTyped ==
  ASSUME Typed, NEW c \in Call, Save(c) \/ Add(c) \/ Attach(c) \/ Unrecord(c) \/ Unvault(c)
  PROVE  Typed'
<1>1. call[c] \in CallState /\ Shape(call[c])
  BY DEF Typed, TypeOK, Shaped, Save, Add, Attach, Unrecord, Unvault, At
<1>2. call[c] # Nothing
  BY DEF Save, Add, Attach, Unrecord, Unvault, At
<1>3. faults' \in 0..MaxFaults
  BY ConstantsAssumption
     DEF Save, Add, Attach, Unrecord, Unvault, Works, Fails, Typed, TypeOK
<1>4. ASSUME NEW stage \in {"unrecording", "unvaulting", "unreaching", "failed", "done"},
             GoTo(c, stage)
      PROVE  call' \in [Call -> CallState \cup {Nothing}] /\ Shaped'
  <2>1. stage \in Stage
    BY DEF Stage
  <2>2. Shape([call[c] EXCEPT !.stage = stage])
    BY <1>1 DEF Shape, CallState
  <2>. QED  BY <1>2, <1>4, <2>1, <2>2, GoToShape
<1>5. CASE Save(c)
  <2>1. ASSUME GoTo(c, "adding")
        PROVE  call' \in [Call -> CallState \cup {Nothing}] /\ Shaped'
    <3>1. Shape([call[c] EXCEPT !.stage = "adding"])
      BY <1>1, <1>5 DEF Shape, CallState, Save, At
    <3>. QED  BY <1>2, <2>1, <3>1, GoToShape DEF Stage
  <2>2. call' \in [Call -> CallState \cup {Nothing}] /\ Shaped'
    BY <1>4, <1>5, <2>1 DEF Save
  <2>. QED  BY <1>1, <1>3, <1>5, <2>2 DEF Save, Typed, TypeOK, CallState
<1>6. CASE Add(c)
  <2>1. ASSUME GoTo(c, "attaching")
        PROVE  call' \in [Call -> CallState \cup {Nothing}] /\ Shaped'
    <3>1. Shape([call[c] EXCEPT !.stage = "attaching"])
      BY <1>1, <1>6 DEF Shape, CallState, Add, At
    <3>. QED  BY <1>2, <2>1, <3>1, GoToShape DEF Stage
  <2>2. call' \in [Call -> CallState \cup {Nothing}] /\ Shaped'
    BY <1>4, <1>6, <2>1 DEF Add
  <2>3. call[c].rec \in Record
    BY <1>1, <1>6 DEF Shape, Add, At
  <2>4. record' \in [Account -> Record \cup {Nothing}]
    BY <1>6, <2>3 DEF Add, Typed, TypeOK
  <2>. QED  BY <1>3, <1>6, <2>2, <2>4 DEF Add, Typed, TypeOK
<1>7. CASE Attach(c)
  <2>1. call' \in [Call -> CallState \cup {Nothing}] /\ Shaped'
    BY <1>4, <1>7 DEF Attach
  <2>2. call[c].rec.sharing \in Sharing
    BY <1>1, <1>7 DEF Shape, Attach, At, Record
  <2>3. reach' \in [Account -> Sharing \cup {Nothing}] /\ slot' \subseteq Account
    BY <1>1, <1>7, <2>2 DEF Attach, Typed, TypeOK, CallState
  <2>. QED  BY <1>3, <1>7, <2>1, <2>3 DEF Attach, Typed, TypeOK
<1>8. CASE Unrecord(c)
  <2>1. call' \in [Call -> CallState \cup {Nothing}] /\ Shaped'
    BY <1>4, <1>8 DEF Unrecord
  <2>2. record' \in [Account -> Record \cup {Nothing}]
    BY <1>8 DEF Unrecord, Typed, TypeOK
  <2>. QED  BY <1>3, <1>8, <2>1, <2>2 DEF Unrecord, Typed, TypeOK
<1>9. CASE Unvault(c)
  <2>1. call' \in [Call -> CallState \cup {Nothing}] /\ Shaped'
    BY <1>4, <1>9 DEF Unvault
  <2>. QED  BY <1>3, <1>9, <2>1 DEF Unvault, Typed, TypeOK
<1>. QED  BY <1>5, <1>6, <1>7, <1>8, <1>9

LEMMA RemoveTyped ==
  ASSUME Typed, NEW c \in Call, Unreach(c) \/ EndAll(c)
  PROVE  Typed'
<1>1. call[c] \in CallState /\ Shape(call[c]) /\ call[c] # Nothing
  BY DEF Typed, TypeOK, Shaped, Unreach, EndAll, At
<1>2. CASE Unreach(c)
  <2>1. Shape([call[c] EXCEPT !.stage = "ending"])
    BY <1>1 DEF Shape, CallState
  <2>2. call' \in [Call -> CallState \cup {Nothing}] /\ Shaped'
    BY <1>1, <1>2, <2>1, GoToShape DEF Unreach, Stage
  <2>3. reach' \in [Account -> Sharing \cup {Nothing}] /\ slot' \subseteq Account
    BY <1>2 DEF Unreach, Typed, TypeOK
  <2>. QED  BY <1>2, <2>2, <2>3 DEF Unreach, Typed, TypeOK
<1>3. CASE EndAll(c)
  <2>1. call' \in [Call -> CallState \cup {Nothing}] /\ Shaped'
    BY <1>1, <1>3, GoToShape DEF EndAll, Stage
  <2>2. start' \in [Start -> [stage: {"checked", "active", "ended"}, user: User,
                             account: Account] \cup {Nothing}]
    BY <1>3 DEF EndAll, Ended, ActiveOn, Typed, TypeOK
  <2>. QED  BY <1>3, <2>1, <2>2 DEF EndAll, Typed, TypeOK
<1>. QED  BY <1>2, <1>3

LEMMA GetTyped ==
  ASSUME Typed, NEW c \in Call, Get(c)
  PROVE  Typed'
<1>1. call[c] \in CallState /\ Shape(call[c]) /\ call[c] # Nothing /\ call[c].stage = "getting"
  BY DEF Typed, TypeOK, Shaped, Get, At
<1>2. CASE record[call[c].account] = Nothing
  BY <1>1, <1>2, GoToShape DEF Get, Stage, Typed, TypeOK
<1>3. CASE record[call[c].account] # Nothing /\ call[c].op = "remove"
  <2>1. Shape([call[c] EXCEPT !.stage = "unrecording"])
    BY <1>1 DEF Shape, CallState
  <2>. QED  BY <1>1, <1>3, <2>1, GoToShape DEF Get, Stage, Typed, TypeOK
<1>4. CASE record[call[c].account] # Nothing /\ call[c].op # "remove"
  <2> DEFINE k == [call[c] EXCEPT !.old = record[call[c].account],
                                  !.todo = Plan(call[c].req)]
  <2>1. record[call[c].account] \in Record
    BY <1>1, <1>4 DEF Typed, TypeOK, CallState
  <2>2. call[c].req \in Request
    BY <1>1, <1>4 DEF Shape
  <2>3. Plan(call[c].req) \in SUBSET Field
        /\ \A f \in Plan(call[c].req) : call[c].req[f] # Unset
    BY DEF Plan
  <2>4. k \in CallState /\ k.req = call[c].req /\ k.old = record[call[c].account]
        /\ k.todo = Plan(call[c].req)
    BY <1>1, <2>1, <2>3 DEF CallState
  <2>5. call' = [call EXCEPT ![c] = Proceed(k)]
    BY <1>4 DEF Get
  <2> HIDE DEF k
  <2>6. Proceed(k) \in CallState /\ Shape(Proceed(k))
    BY <2>1, <2>2, <2>3, <2>4, ProceedShape
  <2>7. call' \in [Call -> CallState \cup {Nothing}] /\ Shaped'
    BY <2>5, <2>6, CallSet
  <2>. QED  BY <2>7 DEF Get, Typed, TypeOK
<1>. QED  BY <1>2, <1>3, <1>4

LEMMA ReadTyped ==
  ASSUME Typed, NEW c \in Call, Read(c)
  PROVE  Typed'
<1>1. call[c] \in CallState /\ Shape(call[c]) /\ call[c] # Nothing /\ call[c].stage = "reading"
  BY DEF Typed, TypeOK, Shaped, Read, At
<1>2. /\ call[c].req \in Request /\ call[c].old \in Record
      /\ call[c].todo \in SUBSET Field /\ call[c].todo # {}
  BY <1>1 DEF Shape, CallState
<1>3. faults' \in 0..MaxFaults
  BY ConstantsAssumption DEF Read, Works, Fails, Typed, TypeOK
<1>4. ASSUME record[call[c].account] # Nothing,
             call' = [call EXCEPT ![c].rec = record[call[c].account], ![c].stage = "writing"]
      PROVE  call' \in [Call -> CallState \cup {Nothing}] /\ Shaped'
  <2> DEFINE k == [call[c] EXCEPT !.rec = record[call[c].account], !.stage = "writing"]
  <2>1. record[call[c].account] \in Record
    BY <1>1, <1>4 DEF Typed, TypeOK, CallState
  <2>2. k \in CallState /\ Shape(k)
    BY <1>1, <1>2, <2>1 DEF CallState, Shape, Stage
  <2>3. call' = [call EXCEPT ![c] = k]
    BY <1>4 DEF Typed, TypeOK
  <2> HIDE DEF k
  <2>. QED  BY <2>2, <2>3, CallSet
<1>5. ASSUME Abandon(c, First(call[c].todo))
      PROVE  call' \in [Call -> CallState \cup {Nothing}] /\ Shaped'
  <2>1. First(call[c].todo) \in {"sharing", "cap", "policy", "swap"}
    BY <1>2, FirstIsIn DEF Field
  <2>. QED  BY <1>1, <1>2, <1>5, <2>1, AbandonShape
<1>6. call' \in [Call -> CallState \cup {Nothing}] /\ Shaped'
  BY <1>4, <1>5 DEF Read
<1>. QED  BY <1>3, <1>6 DEF Read, Typed, TypeOK

LEMMA WriteBackTyped ==
  ASSUME Typed, NEW c \in Call, WriteBack(c)
  PROVE  Typed'
<1> DEFINE f == First(call[c].todo)
           value == IF call[c].undo THEN call[c].old[f] ELSE call[c].req[f]
<1>1. call[c] \in CallState /\ Shape(call[c]) /\ call[c] # Nothing /\ call[c].stage = "writing"
  BY DEF Typed, TypeOK, Shaped, WriteBack, At
<1>2. /\ call[c].req \in Request /\ call[c].old \in Record /\ call[c].rec \in Record
      /\ call[c].todo \in SUBSET Field /\ call[c].todo # {}
      /\ call[c].account \in Account /\ call[c].undo \in BOOLEAN
      /\ ~call[c].undo => \A g \in call[c].todo : call[c].req[g] # Unset
  BY <1>1 DEF Shape, CallState
<1>3. f \in call[c].todo /\ f \in Field
  BY <1>2, FirstIsIn
<1>4. faults' \in 0..MaxFaults
  BY ConstantsAssumption DEF WriteBack, Works, Fails, Typed, TypeOK
<1>5. /\ f = "sharing" => value \in Sharing
      /\ f = "cap" => value \in Caps
      /\ f = "policy" => value \in Policy
  <2>1. CASE call[c].undo
    BY <1>2, <1>3, <2>1, FieldOfRecord
  <2>2. CASE ~call[c].undo
    BY <1>2, <1>3, <2>2, FieldOfRequest
  <2>. QED  BY <2>1, <2>2
<1>6. ASSUME record' = [record EXCEPT ![call[c].account] = [call[c].rec EXCEPT ![f] = value]]
      PROVE  record' \in [Account -> Record \cup {Nothing}]
  <2>1. [call[c].rec EXCEPT ![f] = value] \in Record
    BY <1>2, <1>3, <1>5, FieldSet
  <2>. QED  BY <1>6, <2>1 DEF Typed, TypeOK
<1>7. ASSUME call' = [call EXCEPT ![c] =
                        Proceed([call[c] EXCEPT !.todo = @ \ {f}, !.rec = Nothing])]
      PROVE  call' \in [Call -> CallState \cup {Nothing}] /\ Shaped'
  <2> DEFINE k == [call[c] EXCEPT !.todo = @ \ {f}, !.rec = Nothing]
  <2>1. /\ k \in CallState /\ k.req = call[c].req /\ k.old = call[c].old
        /\ k.undo = call[c].undo /\ k.todo \subseteq call[c].todo
    BY <1>1, <1>2 DEF CallState
  <2>2. call' = [call EXCEPT ![c] = Proceed(k)]
    BY <1>7
  <2> HIDE DEF k
  <2>3. Proceed(k) \in CallState /\ Shape(Proceed(k))
    BY <1>2, <2>1, ProceedShape
  <2>. QED  BY <2>2, <2>3, CallSet
<1>8. ASSUME Abandon(c, f)
      PROVE  call' \in [Call -> CallState \cup {Nothing}] /\ Shaped'
  BY <1>1, <1>2, <1>3, <1>8, AbandonShape DEF Field
<1>9. \/ /\ record' = [record EXCEPT ![call[c].account] = [call[c].rec EXCEPT ![f] = value]]
         /\ call' = [call EXCEPT ![c] =
                       Proceed([call[c] EXCEPT !.todo = @ \ {f}, !.rec = Nothing])]
      \/ UNCHANGED record /\ Abandon(c, f)
  BY DEF WriteBack
<1> HIDE DEF f, value
<1>10. /\ record' \in [Account -> Record \cup {Nothing}]
       /\ call' \in [Call -> CallState \cup {Nothing}] /\ Shaped'
  BY <1>6, <1>7, <1>8, <1>9 DEF Typed, TypeOK
<1>. QED  BY <1>4, <1>10 DEF WriteBack, Typed, TypeOK

LEMMA RereadTyped ==
  ASSUME Typed, NEW c \in Call, Reread(c)
  PROVE  Typed'
<1> DEFINE rec == record[call[c].account]
           k == [call[c] EXCEPT !.rec = rec]
           next == IF SharingEdited(call[c], rec) THEN "swapping" ELSE AfterSharing(call[c])
<1>1. call[c] \in CallState /\ Shape(call[c]) /\ call[c] # Nothing /\ call[c].stage = "rereading"
  BY DEF Typed, TypeOK, Shaped, Reread, At
<1>2. faults' \in 0..MaxFaults
  BY ConstantsAssumption DEF Reread, Works, Fails, Typed, TypeOK
<1>3. ASSUME rec # Nothing, call' = [call EXCEPT ![c] = Left(k, next)]
      PROVE  call' \in [Call -> CallState \cup {Nothing}] /\ Shaped'
  <2>1. rec \in Record
    BY <1>1, <1>3 DEF Typed, TypeOK, CallState
  <2>2. k \in CallState
    BY <1>1, <2>1 DEF CallState
  <2>3. next \in {"swapping", "capping", "done"} /\ next \in Stage
    BY DEF AfterSharing, Stage
  <2>4. next = "done" \/ Shape([k EXCEPT !.stage = next])
    BY <1>1, <2>1, <2>3 DEF Shape, CallState
  <2> HIDE DEF k, next
  <2>5. Left(k, next) \in CallState /\ Shape(Left(k, next))
    BY <2>2, <2>3, <2>4, LeftShape
  <2>. QED  BY <1>3, <2>5, CallSet
<1>4. ASSUME GoTo(c, "failed")
      PROVE  call' \in [Call -> CallState \cup {Nothing}] /\ Shaped'
  BY <1>1, <1>4, GoToShape DEF Stage
<1>5. call' \in [Call -> CallState \cup {Nothing}] /\ Shaped'
  BY <1>3, <1>4 DEF Reread
<1>. QED  BY <1>2, <1>5 DEF Reread, Typed, TypeOK

LEMMA SwapTyped ==
  ASSUME Typed, NEW c \in Call, Swap(c)
  PROVE  Typed'
<1>1. call[c] \in CallState /\ Shape(call[c]) /\ call[c] # Nothing /\ call[c].stage = "swapping"
  BY DEF Typed, TypeOK, Shaped, Swap, At
<1>2. call[c].req \in Request /\ call[c].old \in Record /\ call[c].rec \in Record
  BY <1>1 DEF Shape
<1>3. faults' \in 0..MaxFaults
  BY ConstantsAssumption DEF Swap, Works, Fails, Typed, TypeOK
<1>4. reach' \in [Account -> Sharing \cup {Nothing}]
  BY <1>2 DEF Swap, Typed, TypeOK, Record
<1>5. ASSUME Abandon(c, "swap")
      PROVE  call' \in [Call -> CallState \cup {Nothing}] /\ Shaped'
  BY <1>1, <1>2, <1>5, AbandonShape
<1>6. ASSUME NEW stage \in {"revoking", "capping", "done"}, GoTo(c, stage)
      PROVE  call' \in [Call -> CallState \cup {Nothing}] /\ Shaped'
  <2>1. Shape([call[c] EXCEPT !.stage = stage])
    BY <1>1 DEF Shape, CallState
  <2>. QED  BY <1>1, <1>6, <2>1, GoToShape DEF Stage
<1>7. call' \in [Call -> CallState \cup {Nothing}] /\ Shaped'
  BY <1>5, <1>6 DEF Swap, AfterSharing
<1>. QED  BY <1>3, <1>4, <1>7 DEF Swap, Typed, TypeOK

LEMMA EndTyped ==
  ASSUME Typed, NEW c \in Call, RevokeOthers(c) \/ ApplyCap(c)
  PROVE  Typed'
<1>1. call[c] \in CallState /\ Shape(call[c]) /\ call[c] # Nothing
      /\ call[c].stage \in {"revoking", "capping"}
  BY DEF Typed, TypeOK, Shaped, RevokeOthers, ApplyCap, At
<1>2. ASSUME NEW stage \in {"capping", "done"}, GoTo(c, stage)
      PROVE  call' \in [Call -> CallState \cup {Nothing}] /\ Shaped'
  <2>1. Shape([call[c] EXCEPT !.stage = stage])
    BY <1>1 DEF Shape, CallState
  <2>. QED  BY <1>1, <1>2, <2>1, GoToShape DEF Stage
<1>3. call' \in [Call -> CallState \cup {Nothing}] /\ Shaped'
  BY <1>2 DEF RevokeOthers, ApplyCap, AfterSharing
<1>4. \A S \in SUBSET Start : (\A s \in S : start[s] # Nothing) =>
        Ended(S) \in [Start -> [stage: {"checked", "active", "ended"}, user: User,
                                account: Account] \cup {Nothing}]
  BY DEF Ended, Typed, TypeOK
<1>5. start' \in [Start -> [stage: {"checked", "active", "ended"}, user: User,
                           account: Account] \cup {Nothing}]
  <2>1. CASE RevokeOthers(c)
    BY <1>4, <2>1 DEF RevokeOthers, ActiveOn
  <2>2. CASE ApplyCap(c)
    <3>1. PICK gone \in SUBSET ActiveOn(call[c].account) : start' = Ended(gone)
      BY <2>2 DEF ApplyCap
    <3>. QED  BY <1>4, <3>1 DEF ActiveOn
  <2>. QED  BY <2>1, <2>2
<1>. QED  BY <1>3, <1>5 DEF RevokeOthers, ApplyCap, Typed, TypeOK

LEMMA CallStepTyped ==
  ASSUME Typed, NEW c \in Call, CallStep(c)
  PROVE  Typed'
<1>1. ASSUME NEW a \in Account, NEW rec \in Links, LinkAccount(c, a, rec) PROVE Typed'
  <2>1. rec \in Record
    BY ConstantsAssumption DEF Record, Policy
  <2>. QED  BY <1>1, <2>1, BeginTyped DEF LinkAccount, Stage
<1>2. ASSUME NEW a \in Account, RemoveAccount(c, a) PROVE Typed'
  BY <1>2, BeginTyped DEF RemoveAccount, Stage
<1>3. ASSUME NEW a \in Account, NEW req \in Edits, UpdateAccount(c, a, req) PROVE Typed'
  <2>1. req \in Request
    BY ConstantsAssumption
  <2>. QED  BY <1>3, <2>1, BeginTyped DEF UpdateAccount, Stage
<1>. QED
  BY <1>1, <1>2, <1>3, LinkTyped, RemoveTyped, GetTyped, ReadTyped, WriteBackTyped,
     RereadTyped, SwapTyped, EndTyped
  DEF CallStep

LEMMA StartTyped ==
  ASSUME Typed, NEW s \in Start,
         Admit(s) \/ \E u \in User, a \in Account : Check(s, u, a)
  PROVE  Typed'
<1>1. ASSUME NEW u \in User, NEW a \in Account, Check(s, u, a) PROVE Typed'
  BY <1>1 DEF Check, Typed, TypeOK, Shaped, Shape
<1>2. CASE Admit(s)
  BY <1>2 DEF Admit, Typed, TypeOK, Shaped, Shape
<1>. QED  BY <1>1, <1>2

LEMMA RestartTyped ==
  ASSUME Typed, Restart
  PROVE  Typed'
<1>1. ASSUME NEW c \in Call, call[c] # Nothing
      PROVE  Left(call[c], "lost") \in CallState /\ Shape(Left(call[c], "lost"))
  BY <1>1, LeftShape DEF Typed, TypeOK, Stage
<1>2. call' \in [Call -> CallState \cup {Nothing}]
  BY <1>1 DEF Restart, InProgress, Typed, TypeOK
<1>3. Shaped'
  <2> SUFFICES ASSUME NEW c \in Call, call'[c] # Nothing PROVE Shape(call'[c])
    BY DEF Shaped, Shape
  <2>. QED  BY <1>1 DEF Restart, InProgress, Typed, TypeOK, Shaped
<1>4. start' \in [Start -> [stage: {"checked", "active", "ended"}, user: User,
                           account: Account] \cup {Nothing}]
  BY DEF Restart, Ended, Typed, TypeOK
<1>5. reach' \in [Account -> Sharing \cup {Nothing}]
  BY DEF Restart, Record, Typed, TypeOK
<1>6. restarts' \in 0..MaxRestarts
  BY ConstantsAssumption DEF Restart, Typed, TypeOK
<1>. QED  BY <1>2, <1>3, <1>4, <1>5, <1>6 DEF Restart, Typed, TypeOK

LEMMA NextTyped == Typed /\ [Next]_vars => Typed'
<1> SUFFICES ASSUME Typed, [Next]_vars PROVE Typed'
  OBVIOUS
<1>1. CASE UNCHANGED vars
  BY <1>1 DEF vars, Typed, TypeOK, Shaped, Shape
<1>. QED  BY <1>1, CallStepTyped, StartTyped, RestartTyped DEF Next

(* Every reachable state is well typed: whichever calls overlap, fail or   *)
(* are cut by a restart, no handler meets a record, a request or a reach   *)
(* of the wrong kind (accounts.go, UpdateAccount puts back only fields it  *)
(* has read).                                                              *)
THEOREM TypeCorrect == Spec => []TypeOK
<1>1. Typed => TypeOK
  BY DEF Typed
<1>. QED  BY <1>1, TypedInit, NextTyped, PTL DEF Spec

-----------------------------------------------------------------------------
(* What a step of a call in progress leaves alone *)

Going(c) ==
  \/ Save(c) \/ Add(c) \/ Attach(c) \/ Unrecord(c) \/ Unvault(c) \/ Unreach(c) \/ EndAll(c)
  \/ Get(c) \/ Read(c) \/ WriteBack(c) \/ Reread(c) \/ Swap(c) \/ RevokeOthers(c) \/ ApplyCap(c)

Moves(c) ==
  /\ call[c] # Nothing /\ call'[c] # Nothing
  /\ call'[c].account = call[c].account /\ call'[c].op = call[c].op
  /\ \A d \in Call \ {c} : call'[d] = call[d]

LEMMA MovesTo ==
  ASSUME Typed, NEW c \in Call, call[c] # Nothing, NEW k \in CallState,
         k.account = call[c].account, k.op = call[c].op, call' = [call EXCEPT ![c] = k]
  PROVE  Moves(c) /\ call'[c] = k
BY ConstantsAssumption DEF Moves, Typed, TypeOK

LEMMA LeftKeeps ==
  ASSUME NEW k \in CallState, NEW stage \in Stage
  PROVE  /\ Left(k, stage) \in CallState
         /\ Left(k, stage).account = k.account /\ Left(k, stage).op = k.op
         /\ Left(k, stage).stage = stage
         /\ stage \notin {"done", "failed", "lost"} => Left(k, stage).rec = k.rec
<1>1. CASE stage \in {"done", "failed", "lost"}
  BY <1>1 DEF Left, CallState
<1>2. CASE stage \notin {"done", "failed", "lost"}
  BY <1>2 DEF Left, CallState
<1>. QED  BY <1>1, <1>2

LEMMA GoToKeeps ==
  ASSUME Typed, NEW c \in Call, call[c] # Nothing, NEW stage \in Stage, GoTo(c, stage)
  PROVE  /\ Moves(c) /\ call'[c].stage = stage
         /\ stage \notin {"done", "failed", "lost"} => call'[c].rec = call[c].rec
<1>1. call[c] \in CallState
  BY DEF Typed, TypeOK
<1>2. call' = [call EXCEPT ![c] = Left(call[c], stage)]
  BY DEF GoTo
<1> DEFINE k == Left(call[c], stage)
<1>3. /\ k \in CallState /\ k.account = call[c].account /\ k.op = call[c].op
      /\ k.stage = stage
      /\ stage \notin {"done", "failed", "lost"} => k.rec = call[c].rec
  BY <1>1, LeftKeeps
<1>4. call' = [call EXCEPT ![c] = k]
  BY <1>2
<1> HIDE DEF k
<1>. QED  BY <1>3, <1>4, MovesTo

LEMMA ProceedKeeps ==
  ASSUME NEW k \in CallState
  PROVE  /\ Proceed(k) \in CallState
         /\ Proceed(k).account = k.account /\ Proceed(k).op = k.op
         /\ Proceed(k).stage \in {"reading", "failed", "rereading"}
<1>1. PICK stage \in {"reading", "failed", "rereading"} : Proceed(k) = Left(k, stage)
  BY DEF Proceed
<1>2. stage \in Stage
  BY DEF Stage
<1>. QED  BY <1>1, <1>2, LeftKeeps

LEMMA AbandonKeeps ==
  ASSUME Typed, NEW c \in Call, call[c] # Nothing,
         NEW failed \in {"sharing", "cap", "policy", "swap"}, Abandon(c, failed)
  PROVE  Moves(c) /\ call'[c].stage \in {"reading", "failed", "rereading"}
<1> DEFINE todo == IF call[c].undo THEN call[c].todo \ {failed} ELSE UndoOf(failed)
           k == [call[c] EXCEPT !.undo = TRUE, !.todo = todo]
<1>1. call[c] \in CallState
  BY DEF Typed, TypeOK
<1>2. UndoOf(failed) \in SUBSET Field
  BY DEF UndoOf, Field
<1>3. todo \in SUBSET Field
  BY <1>1, <1>2 DEF CallState
<1> HIDE DEF todo
<1>4. k \in CallState /\ k.account = call[c].account /\ k.op = call[c].op
  BY <1>1, <1>3 DEF CallState
<1>5. call' = [call EXCEPT ![c] = Proceed(k)]
  BY DEF Abandon, todo
<1> HIDE DEF k
<1> DEFINE p == Proceed(k)
<1>6. /\ p \in CallState /\ p.account = call[c].account /\ p.op = call[c].op
      /\ p.stage \in {"reading", "failed", "rereading"}
  BY <1>4, ProceedKeeps
<1>7. call' = [call EXCEPT ![c] = p]
  BY <1>5
<1> HIDE DEF p
<1>. QED  BY <1>6, <1>7, MovesTo

(* A step of a call moves that call alone, and never back to wiring        *)
LEMMA GoingMoves ==
  ASSUME Typed, NEW c \in Call, Going(c)
  PROVE  /\ Moves(c)
         /\ call'[c].stage # "saving"
         /\ call'[c].stage \in {"adding", "attaching"} => Save(c) \/ Add(c)
<1>1. call[c] \in CallState /\ Shape(call[c]) /\ call[c] # Nothing
  BY DEF Typed, TypeOK, Shaped, Going, Save, Add, Attach, Unrecord, Unvault, Unreach, EndAll,
         Get, Read, WriteBack, Reread, Swap, RevokeOthers, ApplyCap, At
<1>2. ASSUME NEW stage \in Stage \ {"saving", "adding", "attaching"}, GoTo(c, stage)
      PROVE  Moves(c) /\ call'[c].stage \notin {"saving", "adding", "attaching"}
  BY <1>1, <1>2, GoToKeeps
<1>3. ASSUME NEW failed \in {"sharing", "cap", "policy", "swap"}, Abandon(c, failed)
      PROVE  Moves(c) /\ call'[c].stage \notin {"saving", "adding", "attaching"}
  BY <1>1, <1>3, AbandonKeeps
<1>4. ASSUME NEW k \in CallState, k.account = call[c].account, k.op = call[c].op,
             call' = [call EXCEPT ![c] = Proceed(k)]
      PROVE  Moves(c) /\ call'[c].stage \notin {"saving", "adding", "attaching"}
  <2> DEFINE p == Proceed(k)
  <2>1. /\ p \in CallState /\ p.account = call[c].account /\ p.op = call[c].op
        /\ p.stage \in {"reading", "failed", "rereading"}
    BY <1>4, ProceedKeeps
  <2>2. call' = [call EXCEPT ![c] = p]
    BY <1>4
  <2> HIDE DEF p
  <2>. QED  BY <1>1, <2>1, <2>2, MovesTo
<1>5. CASE Save(c) \/ Add(c)
  <2>1. \/ GoTo(c, "adding") \/ GoTo(c, "attaching") \/ GoTo(c, "failed")
        \/ GoTo(c, "unrecording")
    BY <1>5 DEF Save, Add
  <2>. QED  BY <1>1, <1>5, <2>1, GoToKeeps DEF Stage
<1>6. CASE Attach(c) \/ Unrecord(c) \/ Unvault(c) \/ Unreach(c) \/ EndAll(c)
           \/ RevokeOthers(c) \/ ApplyCap(c)
  <2>1. \E stage \in {"done", "failed", "unrecording", "unvaulting", "unreaching", "ending",
                      "capping"} : GoTo(c, stage)
    BY <1>6 DEF Attach, Unrecord, Unvault, Unreach, EndAll, RevokeOthers, ApplyCap, AfterSharing
  <2>. QED  BY <1>2, <2>1 DEF Stage
<1>7. CASE Get(c)
  <2> DEFINE k == [call[c] EXCEPT !.old = record[call[c].account],
                                  !.todo = Plan(call[c].req)]
  <2>1. k \in CallState /\ k.account = call[c].account /\ k.op = call[c].op
    BY <1>1 DEF CallState, Plan, Typed, TypeOK
  <2>2. \/ GoTo(c, "failed") \/ GoTo(c, "unrecording")
        \/ call' = [call EXCEPT ![c] = Proceed(k)]
    BY <1>7 DEF Get
  <2> HIDE DEF k
  <2>. QED  BY <1>2, <1>4, <2>1, <2>2 DEF Stage
<1>8. CASE Read(c)
  <2>1. ASSUME record[call[c].account] # Nothing,
               call' = [call EXCEPT ![c].rec = record[call[c].account],
                                    ![c].stage = "writing"]
        PROVE  Moves(c) /\ call'[c].stage \notin {"saving", "adding", "attaching"}
    <3> DEFINE k == [call[c] EXCEPT !.rec = record[call[c].account], !.stage = "writing"]
    <3>1. k \in CallState /\ k.account = call[c].account /\ k.op = call[c].op
          /\ k.stage = "writing"
      BY <1>1 DEF CallState, Stage, Typed, TypeOK
    <3>2. call' = [call EXCEPT ![c] = k]
      BY <2>1 DEF Typed, TypeOK
    <3> HIDE DEF k
    <3>. QED  BY <1>1, <3>1, <3>2, MovesTo
  <2>2. First(call[c].todo) \in {"sharing", "cap", "policy", "swap"}
    BY DEF First
  <2>. QED  BY <1>3, <1>8, <2>1, <2>2 DEF Read
<1>9. CASE WriteBack(c)
  <2> DEFINE f == First(call[c].todo)
             k == [call[c] EXCEPT !.todo = @ \ {f}, !.rec = Nothing]
  <2>1. k \in CallState /\ k.account = call[c].account /\ k.op = call[c].op
    BY <1>1 DEF CallState
  <2>2. f \in {"sharing", "cap", "policy", "swap"}
    BY DEF First
  <2>3. Abandon(c, f) \/ call' = [call EXCEPT ![c] = Proceed(k)]
    BY <1>9 DEF WriteBack
  <2> HIDE DEF k, f
  <2>. QED  BY <1>3, <1>4, <2>1, <2>2, <2>3
<1>10. CASE Reread(c)
  <2> DEFINE k == [call[c] EXCEPT !.rec = record[call[c].account]]
             next == IF SharingEdited(call[c], record[call[c].account])
                     THEN "swapping" ELSE AfterSharing(call[c])
  <2>1. k \in CallState /\ k.account = call[c].account /\ k.op = call[c].op
    BY <1>1 DEF CallState, Typed, TypeOK
  <2>2. next \in {"swapping", "capping", "done"} /\ next \in Stage
    BY DEF AfterSharing, Stage
  <2>3. GoTo(c, "failed") \/ call' = [call EXCEPT ![c] = Left(k, next)]
    BY <1>10 DEF Reread
  <2> HIDE DEF k, next
  <2>4. Left(k, next) \in CallState /\ Left(k, next).account = call[c].account
        /\ Left(k, next).op = call[c].op /\ Left(k, next).stage = next
    BY <2>1, <2>2, LeftKeeps
  <2>5. ASSUME call' = [call EXCEPT ![c] = Left(k, next)]
        PROVE  Moves(c) /\ call'[c].stage \notin {"saving", "adding", "attaching"}
    BY <1>1, <2>2, <2>4, <2>5, MovesTo
  <2>. QED  BY <1>2, <2>3, <2>5 DEF Stage
<1>11. CASE Swap(c)
  <2>1. Abandon(c, "swap") \/ \E stage \in {"revoking", "capping", "done"} : GoTo(c, stage)
    BY <1>11 DEF Swap, AfterSharing
  <2>. QED  BY <1>2, <1>3, <2>1 DEF Stage
<1>. QED  BY <1>5, <1>6, <1>7, <1>8, <1>9, <1>10, <1>11 DEF Going

-----------------------------------------------------------------------------
(* Links wire accounts without a reach *)

(* A step of a call touches the record and the reach of its account only,  *)
(* and gives an account a reach only as a link or over an older reach      *)
LEMMA GoingStays ==
  ASSUME Typed, NEW c \in Call, Going(c)
  PROVE  /\ \A a \in Account : a # call[c].account =>
              record'[a] = record[a] /\ reach'[a] = reach[a]
         /\ \/ reach'[call[c].account] = reach[call[c].account]
            \/ reach'[call[c].account] = Nothing
            \/ Attach(c)
            \/ Swap(c) /\ reach[call[c].account] # Nothing
         /\ (Save(c) \/ Add(c)) => Linking(c) /\ reach' = reach
<1>1. call[c] \in CallState /\ call[c].account \in Account
  BY DEF Typed, TypeOK, Going, Save, Add, Attach, Unrecord, Unvault, Unreach, EndAll,
         Get, Read, WriteBack, Reread, Swap, RevokeOthers, ApplyCap, At, CallState
<1>2. CASE Save(c) \/ Unvault(c) \/ EndAll(c) \/ Get(c) \/ Read(c) \/ Reread(c)
           \/ RevokeOthers(c) \/ ApplyCap(c)
  BY <1>2 DEF Save, Unvault, EndAll, Get, Read, Reread, RevokeOthers, ApplyCap, Linking, At,
              Add
<1>3. CASE Add(c) \/ Unrecord(c) \/ WriteBack(c)
  BY <1>1, <1>3 DEF Add, Unrecord, WriteBack, Linking, At, Typed, TypeOK, Save
<1>4. CASE Attach(c)
  BY <1>1, <1>4 DEF Attach, At, Typed, TypeOK, Save, Add
<1>5. CASE Unreach(c)
  BY <1>1, <1>5 DEF Unreach, At, Typed, TypeOK, Save, Add
<1>6. CASE Swap(c)
  BY <1>1, <1>6 DEF Swap, At, Typed, TypeOK, Save, Add
<1>. QED  BY <1>2, <1>3, <1>4, <1>5, <1>6 DEF Going

LEMMA FreshInit == Init => FreshLinks
BY DEF Init, FreshLinks, Untouched, Linking

LEMMA FreshGoing ==
  ASSUME Typed, FreshLinks, NEW c \in Call, Going(c)
  PROVE  FreshLinks'
<1> DEFINE a0 == call[c].account
<1>1. Moves(c)
  BY GoingMoves
<1>2. ASSUME NEW a \in Account, Untouched(a)' PROVE reach'[a] = Nothing
  <2>1. a # a0
    BY <1>1, <1>2 DEF Untouched, Moves
  <2>2. Untouched(a)
    BY <1>1, <1>2, <2>1, GoingStays DEF Untouched, Moves
  <2>. QED  BY <2>1, <2>2, GoingStays DEF FreshLinks
<1>3. ASSUME NEW d \in Call, Linking(d)' PROVE reach'[call'[d].account] = Nothing
  <2>1. CASE d = c
    <3>1. Save(c) \/ Add(c)
      BY <1>3, <2>1, GoingMoves DEF Linking
    <3>2. Linking(c) /\ reach' = reach
      BY <3>1, GoingStays
    <3>. QED  BY <1>1, <2>1, <3>2 DEF FreshLinks, Moves
  <2>2. CASE d # c
    <3>1. call'[d] = call[d]
      BY <1>1, <2>2 DEF Moves
    <3>2. Linking(d) /\ reach[call[d].account] = Nothing
      BY <1>3, <3>1 DEF Linking, FreshLinks
    <3>3. call[d] # Nothing /\ call[d].op = "link" /\ call[d].account \in Account
      BY <3>2 DEF Linking, Typed, TypeOK, Shaped, Shape, CallState
    <3>4. CASE call[d].account # a0
      BY <3>1, <3>2, <3>3, <3>4, GoingStays
    <3>5. CASE call[d].account = a0
      <4>1. ~Attach(c)
        <5> SUFFICES ASSUME Attach(c) PROVE FALSE
          OBVIOUS
        <5>1. call[c] # Nothing /\ call[c].op = "link"
          BY DEF Attach, At, Typed, Shaped, Shape
        <5>. QED  BY <2>2, <3>3, <3>5, <5>1 DEF FreshLinks
      <4>. QED  BY <3>1, <3>2, <3>5, <4>1, GoingStays
    <3>. QED  BY <3>4, <3>5
  <2>. QED  BY <2>1, <2>2
<1>4. ASSUME NEW d \in Call, NEW e \in Call,
             call'[d] # Nothing, call'[d].op = "link", call'[e] # Nothing, call'[e].op = "link",
             call'[d].account = call'[e].account
      PROVE  d = e
  BY <1>1, <1>4 DEF Moves, FreshLinks
<1>. QED  BY <1>2, <1>3, <1>4 DEF FreshLinks

LEMMA FreshBegin ==
  ASSUME Typed, FreshLinks, NEW c \in Call, NEW op \in {"link", "update", "remove"},
         NEW a \in Account, NEW stage \in Stage, NEW req, NEW rec,
         op = "link" => Untouched(a), op # "link" => stage = "getting",
         Begin(c, op, a, stage, req, rec),
         req \in Request \cup {Nothing}, rec \in Record \cup {Nothing}
  PROVE  FreshLinks'
<1>1. call[c] = Nothing
  BY DEF Begin
<1>2. call'[c] # Nothing /\ call'[c].op = op /\ call'[c].account = a /\ call'[c].stage = stage
      /\ \A d \in Call \ {c} : call'[d] = call[d]
  <2> DEFINE k == [op |-> op, stage |-> stage, account |-> a, req |-> req, old |-> Nothing,
                   rec |-> rec, todo |-> {}, undo |-> FALSE]
  <2>1. k \in CallState
    BY DEF CallState
  <2>2. call' = [call EXCEPT ![c] = k] /\ k.op = op /\ k.account = a /\ k.stage = stage
    BY DEF Begin
  <2> HIDE DEF k
  <2>. QED  BY <2>1, <2>2, ConstantsAssumption DEF Typed, TypeOK
<1>3. record' = record /\ reach' = reach
  BY DEF Begin
<1>4. ASSUME NEW b \in Account, Untouched(b)' PROVE reach'[b] = Nothing
  <2>1. Untouched(b)
    BY <1>1, <1>2, <1>3, <1>4 DEF Untouched
  <2>. QED  BY <1>3, <2>1 DEF FreshLinks
<1>5. ASSUME NEW d \in Call, Linking(d)' PROVE reach'[call'[d].account] = Nothing
  BY <1>2, <1>3, <1>5 DEF FreshLinks, Linking
<1>6. ASSUME NEW d \in Call, NEW e \in Call,
             call'[d] # Nothing, call'[d].op = "link", call'[e] # Nothing, call'[e].op = "link",
             call'[d].account = call'[e].account
      PROVE  d = e
  <2>1. CASE d # c /\ e # c
    BY <1>2, <1>6, <2>1 DEF FreshLinks
  <2>2. CASE d = c /\ e # c
    BY <1>2, <1>6, <2>2 DEF Untouched
  <2>3. CASE d # c /\ e = c
    BY <1>2, <1>6, <2>3 DEF Untouched
  <2>. QED  BY <2>1, <2>2, <2>3
<1>. QED  BY <1>4, <1>5, <1>6 DEF FreshLinks

LEMMA FreshRestart ==
  ASSUME Typed, FreshLinks, Restart
  PROVE  FreshLinks'
<1>1. ASSUME NEW c \in Call
      PROVE  /\ call'[c] # Nothing <=> call[c] # Nothing
             /\ call[c] # Nothing => /\ call'[c].op = call[c].op
                                     /\ call'[c].account = call[c].account
                                     /\ call'[c].stage \in {"done", "failed", "lost"}
  <2>1. CASE InProgress(c)
    <3>1. call[c] # Nothing /\ call[c] \in CallState
      BY <2>1 DEF InProgress, Typed, TypeOK
    <3>2. call'[c] = Left(call[c], "lost")
      BY <2>1 DEF Restart
    <3>3. "lost" \in Stage
      BY DEF Stage
    <3>. QED  BY <3>1, <3>2, <3>3, LeftKeeps, ConstantsAssumption
  <2>2. CASE ~InProgress(c)
    BY <2>2 DEF Restart, InProgress
  <2>. QED  BY <2>1, <2>2
<1>2. ASSUME NEW a \in Account, Untouched(a)' PROVE reach'[a] = Nothing
  BY <1>2 DEF Untouched, Restart
<1>3. \A c \in Call : ~Linking(c)'
  BY <1>1 DEF Linking
<1>. QED  BY <1>1, <1>2, <1>3 DEF FreshLinks

LEMMA FreshNext ==
  ASSUME Typed, FreshLinks, [Next]_vars
  PROVE  FreshLinks'
<1>1. ASSUME NEW c \in Call, NEW a \in Account, NEW rec \in Links, LinkAccount(c, a, rec)
      PROVE  FreshLinks'
  <2>1. rec \in Record
    BY ConstantsAssumption DEF Record, Policy
  <2>2. Untouched(a)
    BY <1>1 DEF LinkAccount, Untouched
  <2>. QED  BY <1>1, <2>1, <2>2, FreshBegin DEF LinkAccount, Stage
<1>2. ASSUME NEW c \in Call, NEW a \in Account, RemoveAccount(c, a) PROVE FreshLinks'
  BY <1>2, FreshBegin DEF RemoveAccount, Stage
<1>3. ASSUME NEW c \in Call, NEW a \in Account, NEW req \in Edits, UpdateAccount(c, a, req)
      PROVE  FreshLinks'
  <2>1. req \in Request
    BY ConstantsAssumption
  <2>. QED  BY <1>3, <2>1, FreshBegin DEF UpdateAccount, Stage
<1>4. ASSUME NEW c \in Call, Going(c) PROVE FreshLinks'
  BY <1>4, FreshGoing
<1>5. ASSUME UNCHANGED <<record, reach, call>> PROVE FreshLinks'
  BY <1>5 DEF FreshLinks, Untouched, Linking
<1>6. CASE \/ UNCHANGED vars
           \/ \E s \in Start : Admit(s)
           \/ \E s \in Start, u \in User, a \in Account : Check(s, u, a)
  BY <1>5, <1>6 DEF vars, Admit, Check
<1>7. CASE Restart
  BY <1>7, FreshRestart
<1>. QED  BY <1>1, <1>2, <1>3, <1>4, <1>6, <1>7 DEF Next, CallStep, Going

-----------------------------------------------------------------------------
(* Sessions follow the reach *)

Covered(s) ==
  \/ Reaches(start[s].user, start[s].account)
  \/ \E c \in Call : Takes(c, start[s].account)

(* A session that goes on went on before the step, untouched               *)
LEMMA EndedGoes ==
  ASSUME Typed, NEW S \in SUBSET Start, \A s \in S : start[s] # Nothing,
         start' = Ended(S), NEW s \in Start, Goes(s)'
  PROVE  s \notin S /\ start'[s] = start[s] /\ Goes(s)
<1>1. s \notin S
  BY DEF Ended, Goes, Typed, TypeOK
<1>. QED  BY <1>1 DEF Ended, Goes

(* Whoever a narrowing keeps is authorized by what it narrowed to          *)
LEMMA KeptIsAuthorized ==
  ASSUME NEW k \in CallState, k.rec \in Record, NEW u \in Kept(k)
  PROVE  Authorized(u, k.rec.sharing)
BY DEF Kept, Authorized, Record, Sharing

LEMMA FollowsStart ==
  ASSUME Typed, Follows, NEW t \in Start,
         Admit(t) \/ \E u \in User, a \in Account : Check(t, u, a)
  PROVE  Follows'
<1>1. CASE Admit(t)
  <2> SUFFICES ASSUME NEW s \in Start, s \notin late', Goes(s)' PROVE Covered(s)'
    BY DEF Follows, Covered
  <2>1. reach' = reach /\ call' = call
    BY <1>1 DEF Admit
  <2>2. CASE s = t
    <3>1. Reaches(start[t].user, start[t].account)
      BY <1>1, <2>2 DEF Admit
    <3>2. start'[t].user = start[t].user /\ start'[t].account = start[t].account
      BY <1>1 DEF Admit, Typed, TypeOK
    <3>. QED  BY <2>1, <2>2, <3>1, <3>2 DEF Covered, Reaches, Authorized
  <2>3. CASE s # t
    <3>1. start'[s] = start[s] /\ s \notin late
      BY <1>1, <2>3 DEF Admit
    <3>. QED  BY <2>1, <3>1 DEF Follows, Covered, Goes, Reaches, Authorized, Takes
  <2>. QED  BY <2>2, <2>3
<1>2. ASSUME NEW u \in User, NEW a \in Account, Check(t, u, a) PROVE Follows'
  <2> SUFFICES ASSUME NEW s \in Start, s \notin late', Goes(s)' PROVE Covered(s)'
    BY DEF Follows, Covered
  <2>1. reach' = reach /\ call' = call /\ late' = late
    BY <1>2 DEF Check
  <2>2. s # t
    BY <1>2 DEF Check, Goes, Typed, TypeOK
  <2>3. start'[s] = start[s]
    BY <1>2, <2>2 DEF Check
  <2>. QED  BY <2>1, <2>3 DEF Follows, Covered, Goes, Reaches, Authorized, Takes
<1>. QED  BY <1>1, <1>2

LEMMA FollowsBegin ==
  ASSUME Typed, Follows, NEW c \in Call, call[c] = Nothing,
         NEW k, call' = [call EXCEPT ![c] = k], UNCHANGED <<reach, start, late>>
  PROVE  Follows'
<1> SUFFICES ASSUME NEW s \in Start, s \notin late', Goes(s)' PROVE Covered(s)'
  BY DEF Follows, Covered
<1>1. Covered(s) /\ start'[s] = start[s]
  BY DEF Follows, Covered, Goes
<1>2. ASSUME NEW d \in Call, Takes(d, start[s].account) PROVE Takes(d, start[s].account)'
  BY <1>1, <1>2 DEF Takes
<1>. QED  BY <1>1, <1>2 DEF Covered, Reaches, Authorized

(* Steps that neither take a reach away nor end sessions                   *)
LEMMA FollowsQuiet ==
  ASSUME Typed, Follows, NEW c \in Call, Moves(c), UNCHANGED <<reach, start, late>>,
         call[c].stage \notin {"ending", "revoking"}
  PROVE  Follows'
<1> SUFFICES ASSUME NEW s \in Start, s \notin late', Goes(s)' PROVE Covered(s)'
  BY DEF Follows, Covered
<1>1. Covered(s) /\ start'[s] = start[s]
  BY DEF Follows, Covered, Goes
<1>2. ASSUME NEW d \in Call, Takes(d, start[s].account) PROVE Takes(d, start[s].account)'
  BY <1>1, <1>2 DEF Takes, Moves
<1>. QED  BY <1>1, <1>2 DEF Covered, Reaches, Authorized

LEMMA FollowsAttach ==
  ASSUME Typed, FreshLinks, Follows, NEW c \in Call, Attach(c)
  PROVE  Follows'
<1> DEFINE a == call[c].account
<1>1. Moves(c) /\ call[c] # Nothing /\ call[c].stage = "attaching" /\ a \in Account
  BY GoingMoves DEF Going, Attach, At, Typed, TypeOK, CallState
<1>2. reach[a] = Nothing /\ UNCHANGED <<start, late>>
  BY <1>1 DEF FreshLinks, Linking, Attach
<1> SUFFICES ASSUME NEW s \in Start, s \notin late', Goes(s)' PROVE Covered(s)'
  BY DEF Follows, Covered
<1>3. Covered(s) /\ start'[s] = start[s] /\ start[s].account \in Account
  BY <1>2 DEF Follows, Covered, Goes, Typed, TypeOK
<1>4. ASSUME NEW d \in Call, Takes(d, start[s].account) PROVE Takes(d, start[s].account)'
  <2>1. d # c /\ call'[d] = call[d] /\ call[d] # Nothing
    BY <1>1, <1>4 DEF Takes, Moves
  <2>2. CASE call[d].stage = "ending"
    BY <1>3, <1>4, <2>1, <2>2 DEF Takes
  <2>3. CASE call[d].stage = "revoking"
    <3>1. call[d].rec \in Record /\ call[d].rec.sharing \in Sharing
      BY <2>1, <2>3 DEF Typed, Shaped, Shape, Record
    <3>2. start[s].account # a
      BY <1>2, <1>4, <2>3, <3>1, ConstantsAssumption DEF Takes
    <3>3. reach'[start[s].account] = reach[start[s].account]
      BY <1>3, <3>2, GoingStays DEF Going
    <3>. QED  BY <1>3, <1>4, <2>1, <3>3 DEF Takes
  <2>. QED  BY <1>4, <2>2, <2>3 DEF Takes
<1>5. ASSUME Reaches(start[s].user, start[s].account)
      PROVE  Reaches(start[s].user, start[s].account)'
  <2>1. start[s].account # a
    BY <1>2, <1>5 DEF Reaches
  <2>2. reach'[start[s].account] = reach[start[s].account]
    BY <1>3, <2>1, GoingStays DEF Going
  <2>. QED  BY <1>3, <1>5, <2>2 DEF Reaches, Authorized
<1>. QED  BY <1>3, <1>4, <1>5 DEF Covered

LEMMA FollowsUnreach ==
  ASSUME Typed, Follows, NEW c \in Call, Unreach(c)
  PROVE  Follows'
<1> DEFINE a == call[c].account
<1>1. call[c] # Nothing /\ call[c].stage = "unreaching" /\ UNCHANGED <<start, late>>
  BY DEF Unreach, At
<1>2. Moves(c) /\ call'[c].stage = "ending"
  BY <1>1, GoToKeeps DEF Unreach, Stage
<1> SUFFICES ASSUME NEW s \in Start, s \notin late', Goes(s)' PROVE Covered(s)'
  BY DEF Follows, Covered
<1>3. Covered(s) /\ start'[s] = start[s] /\ start[s].account \in Account
  BY <1>1 DEF Follows, Covered, Goes, Typed, TypeOK
<1>4. CASE start[s].account = a
  BY <1>2, <1>3, <1>4 DEF Covered, Takes, Moves
<1>5. CASE start[s].account # a
  <2>1. reach'[start[s].account] = reach[start[s].account]
    BY <1>3, <1>5, GoingStays DEF Going
  <2>2. ASSUME NEW d \in Call, Takes(d, start[s].account) PROVE Takes(d, start[s].account)'
    BY <1>2, <1>3, <1>5, <2>1, <2>2 DEF Takes, Moves
  <2>. QED  BY <1>3, <2>1, <2>2 DEF Covered, Reaches, Authorized
<1>. QED  BY <1>4, <1>5

LEMMA FollowsSwap ==
  ASSUME Typed, Follows, NEW c \in Call, Swap(c), "sweep" \notin FaultSites
  PROVE  Follows'
<1> DEFINE a == call[c].account
<1>1. /\ call[c] # Nothing /\ call[c].stage = "swapping" /\ a \in Account
      /\ call[c].rec \in Record /\ UNCHANGED <<start, late>>
  BY DEF Swap, At, Typed, TypeOK, Shaped, Shape, CallState
<1>2. Moves(c)
  BY GoingMoves DEF Going
<1>3. CASE reach[a] = Nothing
  BY <1>1, <1>2, <1>3, FollowsQuiet DEF Swap
<1>4. CASE reach[a] # Nothing
  <2> SUFFICES ASSUME NEW s \in Start, s \notin late', Goes(s)' PROVE Covered(s)'
    BY DEF Follows, Covered
  <2>1. reach' = [reach EXCEPT ![a] = call[c].rec.sharing]
    BY <1>4 DEF Swap
  <2>2. Covered(s) /\ start'[s] = start[s] /\ start[s].account \in Account
    BY <1>1 DEF Follows, Covered, Goes, Typed, TypeOK
  <2>3. CASE start[s].account = a
    <3>1. reach'[a] = call[c].rec.sharing /\ call[c].rec.sharing \in Sharing
      BY <1>1, <2>1 DEF Typed, TypeOK, Record
    <3>2. CASE call[c].rec.sharing.vis = "public"
      BY <2>2, <2>3, <3>1, <3>2, ConstantsAssumption DEF Covered, Reaches, Authorized
    <3>3. CASE call[c].rec.sharing.vis # "public"
      <4>1. GoTo(c, "revoking")
        BY <1>4, <3>3 DEF Swap, Fails
      <4>2. call'[c].stage = "revoking" /\ call'[c].rec = call[c].rec
        BY <1>1, <4>1, GoToKeeps DEF Stage
      <4>3. Takes(c, a)'
        BY <1>2, <3>1, <4>2 DEF Takes, Moves
      <4>. QED  BY <1>2, <2>2, <2>3, <4>3 DEF Covered, Takes, Moves
    <3>. QED  BY <3>2, <3>3
  <2>4. CASE start[s].account # a
    <3>1. reach'[start[s].account] = reach[start[s].account]
      BY <2>1, <2>2, <2>4 DEF Typed, TypeOK
    <3>2. ASSUME NEW d \in Call, Takes(d, start[s].account) PROVE Takes(d, start[s].account)'
      BY <1>2, <2>2, <2>4, <3>1, <3>2 DEF Takes, Moves
    <3>. QED  BY <2>2, <3>1, <3>2 DEF Covered, Reaches, Authorized
  <2>. QED  BY <2>3, <2>4
<1>. QED  BY <1>3, <1>4

LEMMA FollowsEndAll ==
  ASSUME Typed, Follows, NEW c \in Call, EndAll(c)
  PROVE  Follows'
<1> DEFINE a == call[c].account
<1>1. Moves(c) /\ UNCHANGED <<reach, late>> /\ start' = Ended(ActiveOn(a))
  BY GoingMoves DEF Going, EndAll
<1> SUFFICES ASSUME NEW s \in Start, s \notin late', Goes(s)' PROVE Covered(s)'
  BY DEF Follows, Covered
<1>2. s \notin ActiveOn(a) /\ start'[s] = start[s] /\ Goes(s)
  BY <1>1, EndedGoes DEF ActiveOn
<1>3. start[s].account # a /\ Covered(s)
  BY <1>1, <1>2 DEF ActiveOn, Goes, Follows, Covered
<1>4. ASSUME NEW d \in Call, Takes(d, start[s].account) PROVE Takes(d, start[s].account)'
  BY <1>1, <1>2, <1>3, <1>4 DEF Takes, Moves
<1>. QED  BY <1>1, <1>2, <1>3, <1>4 DEF Covered, Reaches, Authorized

LEMMA FollowsRevoke ==
  ASSUME Typed, Follows, NEW c \in Call, RevokeOthers(c)
  PROVE  Follows'
<1> DEFINE a == call[c].account
           S == {s \in ActiveOn(a) : start[s].user \notin Kept(call[c])}
<1>1. Moves(c) /\ UNCHANGED <<reach, late>> /\ start' = Ended(S)
  BY GoingMoves DEF Going, RevokeOthers
<1>2. call[c] \in CallState /\ call[c].rec \in Record /\ call[c].stage = "revoking"
  BY DEF RevokeOthers, At, Typed, TypeOK, Shaped, Shape
<1> SUFFICES ASSUME NEW s \in Start, s \notin late', Goes(s)' PROVE Covered(s)'
  BY DEF Follows, Covered
<1>3. s \notin S /\ start'[s] = start[s] /\ Goes(s)
  BY <1>1, EndedGoes DEF ActiveOn
<1>4. Covered(s)
  BY <1>1, <1>3 DEF Follows, Covered
<1>5. ASSUME NEW d \in Call, Takes(d, start[s].account)
      PROVE  Reaches(start[s].user, start[s].account) \/ Takes(d, start[s].account)'
  <2>1. CASE d # c
    BY <1>1, <1>3, <1>5, <2>1 DEF Takes, Moves
  <2>2. CASE d = c
    <3>1. start[s].account = a /\ call[c].rec.sharing = reach[a]
      BY <1>2, <1>5, <2>2 DEF Takes
    <3>2. start[s].user \in Kept(call[c])
      BY <1>3, <3>1 DEF ActiveOn, Goes
    <3>3. Authorized(start[s].user, call[c].rec.sharing)
      BY <1>2, <3>2, KeptIsAuthorized
    <3>4. reach[a] # Nothing
      BY <1>2, <3>1, ConstantsAssumption DEF Record
    <3>. QED  BY <3>1, <3>3, <3>4 DEF Reaches
  <2>. QED  BY <2>1, <2>2
<1>. QED  BY <1>1, <1>3, <1>4, <1>5 DEF Covered, Reaches, Authorized

LEMMA FollowsCap ==
  ASSUME Typed, Follows, NEW c \in Call, ApplyCap(c)
  PROVE  Follows'
<1>1. Moves(c) /\ UNCHANGED <<reach, late>> /\ call[c].stage = "capping"
  BY GoingMoves DEF Going, ApplyCap, At
<1>2. PICK gone \in SUBSET ActiveOn(call[c].account) : start' = Ended(gone)
  BY DEF ApplyCap
<1> SUFFICES ASSUME NEW s \in Start, s \notin late', Goes(s)' PROVE Covered(s)'
  BY DEF Follows, Covered
<1>3. start'[s] = start[s] /\ Goes(s)
  BY <1>2, EndedGoes DEF ActiveOn
<1>4. Covered(s)
  BY <1>1, <1>3 DEF Follows, Covered
<1>5. ASSUME NEW d \in Call, Takes(d, start[s].account) PROVE Takes(d, start[s].account)'
  BY <1>1, <1>3, <1>5 DEF Takes, Moves
<1>. QED  BY <1>1, <1>3, <1>4, <1>5 DEF Covered, Reaches, Authorized

LEMMA FollowsRestart ==
  ASSUME Typed, Restart
  PROVE  Follows'
<1> DEFINE S == {s \in Start : start[s] # Nothing}
<1>1. start' = Ended(S)
  BY DEF Restart
<1>2. \A s \in Start : ~Goes(s)'
  BY <1>1, EndedGoes DEF Goes
<1>. QED  BY <1>2 DEF Follows, Goes

LEMMA FollowsNext ==
  ASSUME Typed, FreshLinks, Follows, [Next]_vars, "sweep" \notin FaultSites
  PROVE  Follows'
<1>1. ASSUME NEW c \in Call, NEW op, NEW a \in Account, NEW stage, NEW req, NEW rec,
             Begin(c, op, a, stage, req, rec)
      PROVE  Follows'
  BY <1>1, FollowsBegin DEF Begin
<1>2. ASSUME NEW c \in Call,
             \/ Save(c) \/ Add(c) \/ Unrecord(c) \/ Unvault(c)
             \/ Get(c) \/ Read(c) \/ WriteBack(c) \/ Reread(c)
      PROVE  Follows'
  <2>1. Moves(c)
    BY <1>2, GoingMoves DEF Going
  <2>. QED
    BY <1>2, <2>1, FollowsQuiet
    DEF Save, Add, Unrecord, Unvault, Get, Read, WriteBack, Reread, At
<1>3. CASE UNCHANGED vars
  BY <1>3 DEF vars, Follows, Goes, Reaches, Authorized, Takes
<1>. QED
  BY <1>1, <1>2, <1>3, FollowsAttach, FollowsUnreach, FollowsSwap, FollowsEndAll,
     FollowsRevoke, FollowsCap, FollowsStart, FollowsRestart
  DEF Next, CallStep, LinkAccount, RemoveAccount, UpdateAccount

(* A session goes on only while its user may reach the account, or a call  *)
(* still to come will end it - for any accounts, users and calls, in every *)
(* order of their steps, with any failures and restarts - as long as the   *)
(* sweep of the derived libraries (library.go, SetReachSharing) works.     *)
THEOREM SessionsFollowReachHolds ==
  ASSUME "sweep" \notin FaultSites
  PROVE  Spec => []SessionsFollowReach
<1>1. Init => IInv
  BY TypedInit, FreshInit DEF IInv, Typed, Init, Follows, Goes
<1>2. IInv /\ [Next]_vars => IInv'
  <2>1. IInv <=> Typed /\ FreshLinks /\ Follows
    BY DEF IInv, Typed
  <2>2. IInv' <=> Typed' /\ FreshLinks' /\ Follows'
    BY DEF IInv, Typed
  <2>. QED  BY <2>1, <2>2, NextTyped, FreshNext, FollowsNext
<1>3. IInv => SessionsFollowReach
  BY DEF IInv, Follows, Goes, Takes, SessionsFollowReach
<1>. QED  BY <1>1, <1>2, <1>3, PTL DEF Spec

-----------------------------------------------------------------------------
(* What the calls on an account that did not overlap have made of it        *)

\* the compensations of a call that failed do not fail too
Recoverable ==
  /\ FaultSites \cap {"unvault", "reread", "sweep"} = {}
  /\ MaxFaults <= 1 \/ FaultSites \cap {"unrecord", "read", "write"} = {}

Audience(r) == IF r = Nothing THEN Nothing ELSE r.sharing

\* the record, the reach and the slot agree
Consistent(a) == reach[a] = Audience(record[a]) /\ (a \in slot <=> record[a] # Nothing)
\* a restart cut a call on it
Cut(a) == \E c \in Call : call[c] # Nothing /\ call[c].account = a /\ call[c].stage = "lost"
Vaulted(a) == (a \in blob <=> record[a] # Nothing) \/ Cut(a)
Settled(a) == Consistent(a) /\ Vaulted(a)

\* the record of an edit that has still to store the fields todo
Stored(k, r) ==
  /\ k.todo \subseteq Plan(k.req)
  /\ "sharing" \in k.todo => k.todo = Plan(k.req)
  /\ "cap" \in k.todo /\ k.req.policy # Unset => "policy" \in k.todo
  /\ \A f \in Field : r[f] = IF k.req[f] # Unset /\ f \notin k.todo THEN k.req[f] ELSE k.old[f]

\* the record of an edit that has still to put back the fields todo
PutBack(k, r) ==
  /\ k.todo \subseteq {"sharing", "cap"}
  /\ \A f \in Field \ k.todo : r[f] = k.old[f]

\* what a call in progress has made of its account
Linked(k, a) ==
  /\ k.stage = "saving" => record[a] = Nothing /\ Settled(a)
  /\ k.stage = "adding" => record[a] = Nothing /\ Consistent(a) /\ a \in blob
  /\ k.stage = "attaching" =>
       record[a] = k.rec /\ reach[a] = Nothing /\ a \notin slot /\ a \in blob
  /\ k.stage = "unrecording" /\ k.op = "link" => reach[a] = Nothing /\ a \notin slot /\ faults > 0
  /\ k.stage = "unvaulting" /\ k.op = "link" =>
       record[a] = Nothing /\ reach[a] = Nothing /\ a \notin slot
Removed(k, a) ==
  /\ k.stage = "unrecording" /\ k.op # "link" => Settled(a)
  /\ k.stage = "unvaulting" => record[a] = Nothing
  /\ k.stage = "unreaching" => record[a] = Nothing /\ a \notin blob
  /\ k.stage \in {"getting", "ending"} => Settled(a)
Updated(k, a) ==
  /\ k.stage \in {"reading", "writing", "rereading", "swapping"} =>
       record[a] # Nothing /\ reach[a] = k.old.sharing /\ a \in slot /\ Vaulted(a)
  /\ k.stage \in {"reading", "writing", "rereading"} /\ ~k.undo => Stored(k, record[a])
  /\ k.stage \in {"reading", "writing"} /\ k.undo => faults > 0 /\ PutBack(k, record[a])
  /\ k.stage \in {"writing", "swapping", "revoking", "capping"} => k.rec = record[a]
  /\ k.stage = "rereading" => ~k.undo /\ k.todo = {}
  /\ k.stage \in {"revoking", "capping"} => Settled(a)
  /\ k.stage = "revoking" => k.rec.sharing.vis # "public"
InStep(k, a) ==
  /\ k.stage \notin {"reading", "writing", "rereading", "swapping", "revoking", "capping"} =>
       k.old = Nothing
  /\ k.stage = "getting" => ~k.undo
  /\ Linked(k, a) /\ Removed(k, a) /\ Updated(k, a)

Apart ==
  \A c, d \in Call : InProgress(c) /\ InProgress(d) /\ call[c].account = call[d].account /\ c # d
                       => call[c].account \in contended
Steady ==
  \A a \in Account : Alone(a) =>
    /\ Quiet(a) => Settled(a)
    /\ \A c \in Call : InProgress(c) /\ call[c].account = a => InStep(call[c], a)

\* its call is still in progress, or has left the account settled
After(c, a) == IF InProgress(c) THEN InStep(call[c], a) ELSE Settled(a)

Same(p, k) ==
  p.op = k.op /\ p.req = k.req /\ p.old = k.old /\ p.rec = k.rec /\ p.todo = k.todo /\ p.undo = k.undo

LEMMA FaultsCount ==
  ASSUME Typed, Recoverable, NEW site
  PROVE  /\ Works => faults' = faults
         /\ Fails(site) => faults' > 0
         /\ Fails(site) /\ faults > 0 => site \notin {"unrecord", "read", "write"}
         /\ Fails(site) => site \notin {"unvault", "reread", "sweep"}
<1>1. faults \in Nat /\ faults <= MaxFaults /\ MaxFaults \in Nat
  BY ConstantsAssumption DEF Typed, TypeOK
<1> QED BY <1>1 DEF Works, Fails, Recoverable

\* only a restart cuts a call
LEMMA CutKept ==
  ASSUME NEW c \in Call, Moves(c), call[c].stage # "lost", call'[c].stage # "lost", NEW a
  PROVE  Cut(a)' <=> Cut(a)
BY DEF Moves, Cut

LEMMA GoToSame ==
  ASSUME Typed, NEW c \in Call, call[c] # Nothing, call[c].stage # "lost",
         NEW stage \in Stage \ {"lost"}, GoTo(c, stage), NEW a
  PROVE  /\ call'[c] # Nothing /\ call'[c].stage = stage
         /\ stage \notin {"done", "failed"} => Same(call'[c], call[c])
         /\ Cut(a)' <=> Cut(a)
<1>1. call[c] \in CallState
  BY DEF Typed, TypeOK
<1>2. Moves(c) /\ call'[c].stage = stage
  BY GoToKeeps
<1>3. call'[c] = Left(call[c], stage)
  BY DEF GoTo, Typed, TypeOK
<1>4. stage \notin {"done", "failed"} => call'[c] = [call[c] EXCEPT !.stage = stage]
  BY <1>3 DEF Left
<1>5. stage \notin {"done", "failed"} => Same(call'[c], call[c])
  BY <1>1, <1>4 DEF Same, CallState
<1>6. Cut(a)' <=> Cut(a)
  BY <1>2, CutKept
<1> QED BY <1>2, <1>5, <1>6 DEF Moves

\* the call of which every step of a link or a removal is
LEMMA HandledCall ==
  ASSUME Typed, NEW c \in Call, call[c] # Nothing
  PROVE  call[c] \in CallState /\ call[c].account \in Account /\ Shape(call[c])
BY DEF Typed, TypeOK, Shaped, CallState

LEMMA LinkSteady ==
  ASSUME Typed, Recoverable, NEW c \in Call, NEW a \in Account, InStep(call[c], a),
         a = call[c].account, Save(c) \/ Add(c) \/ Attach(c)
  PROVE  After(c, a)'
<1> DEFINE k == call[c]
<1>1. k # Nothing /\ k \in CallState /\ Shape(k) /\ k.stage \in {"saving", "adding", "attaching"}
  BY HandledCall DEF Save, Add, Attach, At
<1>2. k.stage # "lost" /\ k.op = "link" /\ k.old = Nothing /\ k.rec \in Record
  BY <1>1 DEF Shape, InStep
<1>3. ASSUME NEW stage \in {"adding", "attaching", "unrecording", "done", "failed"}, GoTo(c, stage)
      PROVE  /\ call'[c] # Nothing /\ call'[c].stage = stage
             /\ stage \notin {"done", "failed"} => Same(call'[c], k)
             /\ Cut(a)' <=> Cut(a)
  BY <1>1, <1>2, <1>3, GoToSame DEF Stage
<1>4. CASE Save(c)
  <2>1. k.stage = "saving" /\ record[a] = Nothing /\ Settled(a)
    BY <1>4 DEF Save, At, InStep, Linked
  <2>2. UNCHANGED <<record, reach, slot>>
    BY <1>4 DEF Save
  <2>3. CASE blob' = blob \cup {a} /\ GoTo(c, "adding")
    <3>1. call'[c] # Nothing /\ call'[c].stage = "adding" /\ Same(call'[c], k)
      BY <1>3, <2>3
    <3> QED BY <1>2, <2>1, <2>2, <2>3, <3>1
            DEF After, InProgress, InStep, Linked, Removed, Updated, Same, Settled, Consistent, Audience
  <2>4. CASE UNCHANGED blob /\ GoTo(c, "failed")
    <3>1. call'[c].stage = "failed" /\ (Cut(a)' <=> Cut(a))
      BY <1>3, <2>4
    <3> QED BY <2>1, <2>2, <2>4, <3>1 DEF After, InProgress, Settled, Consistent, Vaulted, Audience
  <2> QED BY <1>4, <2>3, <2>4 DEF Save
<1>5. CASE Add(c)
  <2>1. k.stage = "adding" /\ record[a] = Nothing /\ Consistent(a) /\ a \in blob
    BY <1>5 DEF Add, At, InStep, Linked
  <2>2. UNCHANGED <<blob, reach, slot>>
    BY <1>5 DEF Add
  <2>3. CASE record' = [record EXCEPT ![a] = k.rec] /\ GoTo(c, "attaching")
    <3>1. call'[c] # Nothing /\ call'[c].stage = "attaching" /\ Same(call'[c], k)
      BY <1>3, <2>3
    <3>2. record'[a] = k.rec
      BY <2>3 DEF Typed, TypeOK
    <3> QED BY <1>2, <2>1, <2>2, <3>1, <3>2
            DEF After, InProgress, InStep, Linked, Removed, Updated, Same, Consistent, Audience
  <2>4. CASE Fails("add") /\ UNCHANGED record /\ GoTo(c, "unrecording")
    <3>1. call'[c] # Nothing /\ call'[c].stage = "unrecording" /\ Same(call'[c], k) /\ faults' > 0
      BY <1>3, <2>4, FaultsCount
    <3> QED BY <1>2, <2>1, <2>2, <2>4, <3>1
            DEF After, InProgress, InStep, Linked, Removed, Updated, Same, Consistent, Audience
  <2> QED BY <1>5, <2>3, <2>4 DEF Add
<1>6. CASE Attach(c)
  <2>1. k.stage = "attaching" /\ record[a] = k.rec /\ reach[a] = Nothing /\ a \notin slot /\ a \in blob
    BY <1>6 DEF Attach, At, InStep, Linked
  <2>2. UNCHANGED <<record, blob>>
    BY <1>6 DEF Attach
  <2>3. CASE GoTo(c, "done") /\ slot' = slot \cup {a} /\ reach' = [reach EXCEPT ![a] = k.rec.sharing]
    <3>1. call'[c].stage = "done"
      BY <1>3, <2>3
    <3>2. reach'[a] = k.rec.sharing /\ k.rec # Nothing
      BY <1>2, <2>3, ConstantsAssumption DEF Typed, TypeOK
    <3> QED BY <2>1, <2>2, <2>3, <3>1, <3>2
            DEF After, InProgress, Settled, Consistent, Vaulted, Audience
  <2>4. CASE Fails("attach") /\ UNCHANGED live /\ GoTo(c, "unrecording")
    <3>1. call'[c] # Nothing /\ call'[c].stage = "unrecording" /\ Same(call'[c], k) /\ faults' > 0
      BY <1>3, <2>4, FaultsCount
    <3> QED BY <1>2, <2>1, <2>4, <3>1
            DEF After, InProgress, InStep, Linked, Removed, Updated, Same
  <2> QED BY <1>6, <2>3, <2>4 DEF Attach
<1> QED BY <1>4, <1>5, <1>6

LEMMA DeleteSteady ==
  ASSUME Typed, Recoverable, NEW c \in Call, NEW a \in Account, InStep(call[c], a),
         a = call[c].account, Unrecord(c) \/ Unvault(c) \/ Unreach(c) \/ EndAll(c)
  PROVE  After(c, a)'
<1> DEFINE k == call[c]
<1>1. k # Nothing /\ k \in CallState /\ k.stage \in {"unrecording", "unvaulting", "unreaching", "ending"}
  BY HandledCall DEF Unrecord, Unvault, Unreach, EndAll, At
<1>2. k.stage # "lost" /\ k.old = Nothing
  BY <1>1 DEF InStep
<1>3. ASSUME NEW stage \in {"unvaulting", "unreaching", "ending", "done", "failed"}, GoTo(c, stage)
      PROVE  /\ call'[c] # Nothing /\ call'[c].stage = stage
             /\ stage \notin {"done", "failed"} => Same(call'[c], k)
             /\ Cut(a)' <=> Cut(a)
  BY <1>1, <1>2, <1>3, GoToSame DEF Stage
<1>4. CASE Unrecord(c)
  <2>1. /\ k.stage = "unrecording" /\ UNCHANGED <<blob, reach, slot>>
        /\ k.op = "link" => reach[a] = Nothing /\ a \notin slot /\ faults > 0
        /\ k.op # "link" => Settled(a)
    BY <1>4 DEF Unrecord, At, InStep, Linked, Removed
  <2>2. CASE record' = [record EXCEPT ![a] = Nothing] /\ GoTo(c, "unvaulting")
    <3>1. call'[c] # Nothing /\ call'[c].stage = "unvaulting" /\ Same(call'[c], k)
      BY <1>3, <2>2
    <3>2. record'[a] = Nothing
      BY <2>2 DEF Typed, TypeOK
    <3> QED BY <1>2, <2>1, <3>1, <3>2
            DEF After, InProgress, InStep, Linked, Removed, Updated, Same
  <2>3. CASE Fails("unrecord") /\ UNCHANGED record /\ GoTo(c, "failed")
    <3>1. call'[c].stage = "failed" /\ (Cut(a)' <=> Cut(a)) /\ k.op # "link"
      BY <1>3, <2>1, <2>3, FaultsCount
    <3> QED BY <2>1, <2>3, <3>1 DEF After, InProgress, Settled, Consistent, Vaulted, Audience
  <2> QED BY <1>4, <2>2, <2>3 DEF Unrecord
<1>5. CASE Unvault(c)
  <2>1. /\ k.stage = "unvaulting" /\ UNCHANGED <<record, reach, slot>> /\ record[a] = Nothing
        /\ k.op = "link" => reach[a] = Nothing /\ a \notin slot
    BY <1>5 DEF Unvault, At, InStep, Linked, Removed
  <2>2. blob' = blob \ {a} /\ GoTo(c, IF k.op = "link" THEN "failed" ELSE "unreaching")
    BY <1>5, FaultsCount DEF Unvault
  <2>3. CASE k.op = "link"
    <3>1. call'[c].stage = "failed"
      BY <1>3, <2>2, <2>3
    <3> QED BY <2>1, <2>2, <2>3, <3>1 DEF After, InProgress, Settled, Consistent, Vaulted, Audience
  <2>4. CASE k.op # "link"
    <3>1. call'[c] # Nothing /\ call'[c].stage = "unreaching" /\ Same(call'[c], k)
      BY <1>3, <2>2, <2>4
    <3> QED BY <1>2, <2>1, <2>2, <3>1 DEF After, InProgress, InStep, Linked, Removed, Updated, Same
  <2> QED BY <2>3, <2>4
<1>6. CASE Unreach(c)
  <2>1. k.stage = "unreaching" /\ UNCHANGED <<record, blob>> /\ record[a] = Nothing /\ a \notin blob
    BY <1>6 DEF Unreach, At, InStep, Removed
  <2>2. GoTo(c, "ending") /\ slot' = slot \ {a} /\ reach'[a] = Nothing
    BY <1>6 DEF Unreach, Typed, TypeOK
  <2>3. call'[c] # Nothing /\ call'[c].stage = "ending" /\ Same(call'[c], k)
    BY <1>3, <2>2
  <2> QED BY <1>2, <2>1, <2>2, <2>3
          DEF After, InProgress, InStep, Linked, Removed, Updated, Same, Settled, Consistent, Vaulted, Audience
<1>7. CASE EndAll(c)
  <2>1. UNCHANGED <<record, blob, reach, slot>> /\ GoTo(c, "done") /\ Settled(a)
    BY <1>7 DEF EndAll, At, InStep, Removed
  <2>2. call'[c].stage = "done" /\ (Cut(a)' <=> Cut(a))
    BY <1>3, <2>1
  <2> QED BY <2>1, <2>2 DEF After, InProgress, Settled, Consistent, Vaulted, Audience
<1> QED BY <1>4, <1>5, <1>6, <1>7

LEMMA ProceedSame ==
  ASSUME NEW k \in CallState
  PROVE  /\ Proceed(k).stage = IF k.todo # {} THEN "reading" ELSE IF k.undo THEN "failed" ELSE "rereading"
         /\ Proceed(k).stage # "failed" => Same(Proceed(k), k)
         /\ Proceed(k) \in CallState /\ Proceed(k).account = k.account /\ Proceed(k).op = k.op
<1>1. CASE k.todo # {}
  BY <1>1 DEF Proceed, Left, Same, CallState, Stage
<1>2. CASE k.todo = {} /\ k.undo
  BY <1>2, ProceedKeeps DEF Proceed, Left, CallState
<1>3. CASE k.todo = {} /\ ~k.undo
  BY <1>3 DEF Proceed, Left, Same, CallState, Stage
<1> QED BY <1>1, <1>2, <1>3

LEMMA SameFields ==
  ASSUME NEW r \in Record, NEW q \in Record, \A f \in Field : r[f] = q[f]
  PROVE  r = q
<1>1. r.sharing = q.sharing /\ r.cap = q.cap /\ r.policy = q.policy
  BY DEF Field
<1> QED BY <1>1 DEF Record

(* An edit goes on to its next field, or ends.                              *)
LEMMA EditSteady ==
  ASSUME Typed, NEW c \in Call, NEW a \in Account, call[c] # Nothing, call[c].account = a,
         call[c].stage # "lost", record[a] # Nothing, Vaulted(a), UNCHANGED blob,
         NEW k \in CallState, k.account = a, k.op = call[c].op, k.old \in Record,
         call' = [call EXCEPT ![c] = Proceed(k)],
         record'[a] \in Record, reach'[a] = k.old.sharing, a \in slot',
         k.undo => faults' > 0 /\ PutBack(k, record'[a]),
         ~k.undo => Stored(k, record'[a])
  PROVE  After(c, a)' /\ (call'[c].stage = "failed" => record'[a] = k.old)
<1> DEFINE p == Proceed(k)
<1>1. /\ p.stage = IF k.todo # {} THEN "reading" ELSE IF k.undo THEN "failed" ELSE "rereading"
      /\ p.stage # "failed" => Same(p, k)
      /\ p \in CallState /\ p.account = k.account /\ p.op = k.op
  BY ProceedSame
<1>2. call' = [call EXCEPT ![c] = p]
  OBVIOUS
<1> HIDE DEF p
<1>3. Moves(c) /\ call'[c] = p
  <2>1. p \in CallState /\ p.account = call[c].account /\ p.op = call[c].op
    BY <1>1
  <2> QED BY <1>2, <2>1, MovesTo
<1>4. Cut(a)' <=> Cut(a)
  <2>1. call'[c].stage # "lost"
    BY <1>1, <1>3
  <2> QED BY <1>3, <2>1, CutKept
<1>5. record'[a] # Nothing
  BY ConstantsAssumption
<1>6. Vaulted(a)'
  BY <1>4, <1>5 DEF Vaulted
<1>7. CASE p.stage = "failed"
  <2>1. k.undo /\ k.todo = {} /\ PutBack(k, record'[a])
    BY <1>1, <1>7
  <2>2. \A f \in Field : record'[a][f] = k.old[f]
    BY <2>1 DEF PutBack
  <2>3. record'[a] = k.old
    BY <2>2, SameFields
  <2>4. Consistent(a)'
    BY <1>5, <2>3 DEF Consistent, Audience
  <2> QED BY <1>3, <1>6, <1>7, <2>3, <2>4 DEF After, InProgress, Settled
<1>8. CASE p.stage # "failed"
  <2>1. /\ call'[c] # Nothing /\ Same(call'[c], k) /\ call'[c].stage \in {"reading", "rereading"}
        /\ call'[c].stage = "rereading" => k.todo = {} /\ ~k.undo
    BY <1>1, <1>3, <1>8 DEF Moves
  <2>2. Stored(k, record'[a]) => Stored(call'[c], record'[a])
    BY <2>1 DEF Same, Stored, Plan
  <2>3. PutBack(k, record'[a]) => PutBack(call'[c], record'[a])
    BY <2>1 DEF Same, PutBack
  <2>4. Updated(call[c], a)'
    BY <1>5, <1>6, <2>1, <2>2, <2>3 DEF Updated, Same
  <2> QED BY <1>8, <1>3, <2>1, <2>4 DEF After, InProgress, InStep, Linked, Removed, Updated
<1> QED BY <1>7, <1>8

LEMMA GetSteady ==
  ASSUME Typed, Recoverable, NEW c \in Call, NEW a \in Account, InStep(call[c], a),
         a = call[c].account, Get(c)
  PROVE  After(c, a)'
<1> DEFINE k == call[c]
<1>1. k # Nothing /\ k \in CallState /\ Shape(k) /\ k.stage = "getting"
  BY HandledCall DEF Get, At
<1>2. /\ UNCHANGED <<record, blob, reach, slot, faults>>
      /\ Settled(a) /\ k.old = Nothing /\ ~k.undo
  BY <1>1 DEF Get, InStep, Removed
<1>3. CASE record[a] = Nothing
  <2>1. GoTo(c, "failed")
    BY <1>3 DEF Get
  <2>2. call'[c].stage = "failed" /\ (Cut(a)' <=> Cut(a))
    BY <1>1, <2>1, GoToSame DEF Stage
  <2> QED BY <1>2, <2>2 DEF After, InProgress, Settled, Consistent, Vaulted, Audience
<1>4. CASE record[a] # Nothing /\ k.op = "remove"
  <2>1. GoTo(c, "unrecording")
    BY <1>4 DEF Get
  <2>2. /\ call'[c] # Nothing /\ call'[c].stage = "unrecording" /\ Same(call'[c], k)
        /\ (Cut(a)' <=> Cut(a))
    BY <1>1, <2>1, GoToSame DEF Stage
  <2>3. Settled(a)'
    BY <1>2, <2>2 DEF Settled, Consistent, Vaulted, Audience
  <2> QED BY <1>2, <1>4, <2>2, <2>3 DEF After, InProgress, InStep, Linked, Removed, Updated, Same
<1>5. CASE record[a] # Nothing /\ k.op # "remove"
  <2> DEFINE q == [k EXCEPT !.old = record[a], !.todo = Plan(k.req)]
  <2>1. record[a] \in Record
    BY <1>5 DEF Typed, TypeOK
  <2>2. call' = [call EXCEPT ![c] = Proceed(q)]
    BY <1>5 DEF Get
  <2>3. /\ q \in CallState /\ q.account = a /\ q.op = k.op /\ q.old = record[a]
        /\ q.todo = Plan(k.req) /\ q.req = k.req /\ ~q.undo
    BY <1>1, <1>2, <2>1 DEF CallState, Plan
  <2> HIDE DEF q
  <2>4. Stored(q, record'[a])
    BY <1>2, <2>3 DEF Stored, Plan, Field
  <2>5. reach'[a] = q.old.sharing /\ a \in slot' /\ Vaulted(a)
    BY <1>2, <1>5, <2>3 DEF Settled, Consistent, Audience
  <2>6. record'[a] \in Record /\ UNCHANGED blob
    BY <1>2, <2>1
  <2> QED BY <1>1, <1>5, <2>1, <2>2, <2>3, <2>4, <2>5, <2>6, EditSteady
<1> QED BY <1>3, <1>4, <1>5

\* what an edit knows while it stores and puts back
LEMMA EditHas ==
  ASSUME Typed, NEW c \in Call, NEW a \in Account, InStep(call[c], a), a = call[c].account,
         call[c] # Nothing, call[c].stage \in {"reading", "writing", "rereading", "swapping"}
  PROVE  /\ call[c] \in CallState /\ call[c].req \in Request /\ call[c].old \in Record
         /\ record[a] \in Record /\ record[a] # Nothing /\ reach[a] = call[c].old.sharing
         /\ a \in slot /\ Vaulted(a)
         /\ call[c].stage \in {"reading", "writing"} =>
              /\ call[c].todo \in SUBSET Field /\ call[c].todo # {}
              /\ ~call[c].undo => Stored(call[c], record[a])
              /\ call[c].undo => faults > 0 /\ PutBack(call[c], record[a])
<1>1. call[c] \in CallState /\ Shape(call[c])
  BY HandledCall
<1>2. record[a] # Nothing
  BY DEF InStep, Updated
<1>3. record[a] \in Record
  BY <1>2 DEF Typed, TypeOK
<1> QED BY <1>1, <1>2, <1>3 DEF Shape, InStep, Updated, CallState

(* A store that fails turns an edit into its rollback.                      *)
LEMMA AbandonSteady ==
  ASSUME Typed, Recoverable, NEW c \in Call, NEW a \in Account, InStep(call[c], a),
         a = call[c].account, call[c] # Nothing, call[c].stage \in {"reading", "writing"},
         Fails("read") \/ Fails("write"), Abandon(c, First(call[c].todo)),
         UNCHANGED <<record, blob, reach, slot>>
  PROVE  After(c, a)' /\ (call'[c].stage = "failed" => record'[a] = call[c].old)
<1> DEFINE k == call[c]
           failed == First(k.todo)
           undo == UndoOf(failed)
           q == [k EXCEPT !.undo = TRUE, !.todo = undo]
<1>1. /\ k \in CallState /\ k.req \in Request /\ k.old \in Record
      /\ record[a] \in Record /\ record[a] # Nothing /\ reach[a] = k.old.sharing
      /\ a \in slot /\ Vaulted(a)
      /\ k.todo \in SUBSET Field /\ k.todo # {}
      /\ ~k.undo => Stored(k, record[a])
      /\ k.undo => faults > 0
  BY EditHas
<1>2. ~k.undo /\ faults' > 0
  BY <1>1, FaultsCount
<1>3. failed \in k.todo /\ failed \in Field
  BY <1>1, FirstIsIn
<1>4. undo \in SUBSET {"sharing", "cap"} /\ undo \in SUBSET Field
  <2> HIDE DEF failed
  <2> QED BY <1>3 DEF UndoOf, Field
<1>5. call' = [call EXCEPT ![c] = Proceed([k EXCEPT !.undo = TRUE,
                              !.todo = IF k.undo THEN k.todo \ {failed} ELSE undo])]
  BY DEF Abandon
<1>6. call' = [call EXCEPT ![c] = Proceed(q)]
  BY <1>2, <1>5
<1>7. \A f \in Field \ undo : record[a][f] = k.old[f]
  <2>1. CASE failed = "sharing"
    BY <1>1, <1>2, <1>3, <2>1 DEF Stored, Plan
  <2>2. CASE failed = "cap"
    <3>1. "cap" \in k.todo /\ undo = {"sharing"}
      BY <1>3, <2>2 DEF UndoOf
    <3> HIDE DEF undo
    <3> QED BY <1>1, <1>2, <3>1 DEF Stored, Field
  <2>3. CASE failed = "policy"
    <3>1. "policy" \in k.todo /\ undo = {"sharing", "cap"}
      BY <1>3, <2>3 DEF UndoOf
    <3> HIDE DEF undo
    <3> QED BY <1>1, <1>2, <3>1 DEF Stored, Field
  <2> QED BY <1>1, <1>3, <2>1, <2>2, <2>3 DEF Field
<1> HIDE DEF undo
<1>8. /\ q \in CallState /\ q.account = a /\ q.op = k.op /\ q.old = k.old /\ q.undo
      /\ q.todo = undo
  BY <1>1, <1>4 DEF CallState
<1> HIDE DEF q
<1>9. PutBack(q, record'[a])
  BY <1>4, <1>7, <1>8 DEF PutBack
<1>10. record'[a] \in Record /\ reach'[a] = q.old.sharing /\ a \in slot' /\ UNCHANGED blob
  BY <1>1, <1>8
<1>11. k.stage # "lost" /\ q.old \in Record
  BY <1>1, <1>8
<1>12. After(c, a)' /\ (call'[c].stage = "failed" => record'[a] = q.old)
  BY <1>1, <1>2, <1>6, <1>8, <1>9, <1>10, <1>11, EditSteady
<1> QED BY <1>8, <1>12

LEMMA ReadSteady ==
  ASSUME Typed, Recoverable, NEW c \in Call, NEW a \in Account, InStep(call[c], a),
         a = call[c].account, Read(c)
  PROVE  After(c, a)' /\ (call'[c].stage = "failed" => record'[a] = call[c].old)
<1> DEFINE k == call[c]
<1>1. k # Nothing /\ k.stage = "reading" /\ UNCHANGED <<record, blob, reach, slot>>
  BY DEF Read, At
<1>2. /\ k \in CallState /\ k.req \in Request /\ k.old \in Record
      /\ record[a] \in Record /\ record[a] # Nothing /\ reach[a] = k.old.sharing
      /\ a \in slot /\ Vaulted(a)
      /\ k.todo \in SUBSET Field /\ k.todo # {}
      /\ ~k.undo => Stored(k, record[a])
      /\ k.undo => faults > 0 /\ PutBack(k, record[a])
  BY <1>1, EditHas
<1>3. CASE Works /\ call' = [call EXCEPT ![c].rec = record[a], ![c].stage = "writing"]
  <2> DEFINE q == [k EXCEPT !.rec = record[a], !.stage = "writing"]
  <2>1. /\ q \in CallState /\ q.account = a /\ q.op = k.op /\ q.old = k.old /\ q.undo = k.undo
        /\ q.todo = k.todo /\ q.req = k.req /\ q.rec = record[a] /\ q.stage = "writing"
    BY <1>2 DEF CallState, Stage
  <2>2. call' = [call EXCEPT ![c] = q]
    BY <1>3 DEF Typed, TypeOK
  <2> HIDE DEF q
  <2>3. Moves(c) /\ call'[c] = q
    BY <1>1, <2>1, <2>2, MovesTo
  <2>4. Cut(a)' <=> Cut(a)
    BY <1>1, <2>1, <2>3, CutKept
  <2>5. Vaulted(a)' /\ faults' = faults
    BY <1>1, <1>2, <1>3, <2>4 DEF Vaulted, Works
  <2>6. /\ Stored(k, record[a]) => Stored(call'[c], record[a])
        /\ PutBack(k, record[a]) => PutBack(call'[c], record[a])
    BY <2>1, <2>3 DEF Stored, PutBack, Plan
  <2>7. Updated(call[c], a)'
    BY <1>1, <1>2, <2>1, <2>3, <2>5, <2>6 DEF Updated
  <2>8. InStep(call[c], a)'
    BY <2>1, <2>3, <2>7 DEF InStep, Linked, Removed
  <2>9. InProgress(c)' /\ call'[c].stage # "failed"
    BY <2>1, <2>3 DEF InProgress, Moves
  <2> QED BY <2>8, <2>9 DEF After
<1>4. CASE Fails("read") /\ Abandon(c, First(k.todo))
  BY <1>1, <1>4, AbandonSteady
<1> QED BY <1>2, <1>3, <1>4 DEF Read

LEMMA WriteBackSteady ==
  ASSUME Typed, Recoverable, NEW c \in Call, NEW a \in Account, InStep(call[c], a),
         a = call[c].account, WriteBack(c)
  PROVE  After(c, a)' /\ (call'[c].stage = "failed" => record'[a] = call[c].old)
<1> DEFINE k == call[c]
           f == First(k.todo)
           value == IF k.undo THEN k.old[f] ELSE k.req[f]
           q == [k EXCEPT !.todo = @ \ {f}, !.rec = Nothing]
<1>1. k # Nothing /\ k.stage = "writing" /\ UNCHANGED <<blob, reach, slot>> /\ k.rec = record[a]
  BY DEF WriteBack, At, InStep, Updated
<1>2. /\ k \in CallState /\ k.req \in Request /\ k.old \in Record
      /\ record[a] \in Record /\ record[a] # Nothing /\ reach[a] = k.old.sharing
      /\ a \in slot /\ Vaulted(a)
      /\ k.todo \in SUBSET Field /\ k.todo # {}
      /\ ~k.undo => Stored(k, record[a])
      /\ k.undo => faults > 0 /\ PutBack(k, record[a])
  BY <1>1, EditHas
<1>3. f \in k.todo /\ f \in Field /\ f = First(k.todo)
  BY <1>2, FirstIsIn
<1>4. CASE Fails("write") /\ UNCHANGED record /\ Abandon(c, f)
  BY <1>1, <1>4, AbandonSteady
<1>5. CASE /\ Works /\ record' = [record EXCEPT ![a] = [k.rec EXCEPT ![f] = value]]
           /\ call' = [call EXCEPT ![c] = Proceed(q)]
  <2>1. /\ q \in CallState /\ q.account = a /\ q.op = k.op /\ q.old = k.old /\ q.undo = k.undo
        /\ q.todo = k.todo \ {f} /\ q.req = k.req
    BY <1>2 DEF CallState
  <2>2. record'[a] = [record[a] EXCEPT ![f] = value]
    BY <1>1, <1>5 DEF Typed, TypeOK
  <2>3. record'[a] \in Record
    <3>1. ~k.undo => k.req[f] # Unset
      BY <1>2, <1>3 DEF Stored, Plan
    <3>2. /\ f = "sharing" => value \in Sharing
          /\ f = "cap" => value \in Caps
          /\ f = "policy" => value \in Policy
      <4>1. CASE k.undo
        BY <1>2, <1>3, <4>1, FieldOfRecord
      <4>2. CASE ~k.undo
        BY <1>2, <1>3, <3>1, <4>2, FieldOfRequest
      <4> QED BY <4>1, <4>2
    <3> HIDE DEF f, value
    <3> QED BY <1>2, <1>3, <2>2, <3>2, FieldSet
  <2>4. record'[a][f] = value /\ \A g \in Field \ {f} : record'[a][g] = record[a][g]
    BY <1>2, <1>3, <2>2 DEF Record, Field
  <2> HIDE DEF q
  <2>5. ASSUME k.undo PROVE PutBack(q, record'[a])
    <3>1. value = k.old[f]
      BY <2>5
    <3> HIDE DEF f, value
    <3> QED BY <1>2, <2>1, <2>4, <2>5, <3>1 DEF PutBack
  <2>6. ASSUME ~k.undo PROVE Stored(q, record'[a])
    <3>1. value = k.req[f] /\ Stored(k, record[a])
      BY <1>2, <2>6
    <3>2. k.req[f] # Unset
      BY <1>3, <3>1 DEF Stored, Plan
    <3>3. \A g \in Field : record'[a][g] = IF k.req[g] # Unset /\ g \notin k.todo \ {f} THEN k.req[g] ELSE k.old[g]
      <4> HIDE DEF f, value
      <4> QED BY <2>4, <3>1, <3>2 DEF Stored
    <3>4. /\ "sharing" \notin k.todo \ {f}
          /\ "cap" \in k.todo \ {f} => f = "sharing"
      BY <1>3 DEF First
    <3> HIDE DEF f, value
    <3> QED BY <2>1, <3>1, <3>3, <3>4 DEF Stored, Plan
  <2>7. reach'[a] = q.old.sharing /\ a \in slot' /\ faults' = faults
    BY <1>1, <1>2, <1>5, <2>1 DEF Works
  <2> HIDE DEF f, value
  <2>8. call' = [call EXCEPT ![c] = Proceed(q)] /\ k.stage # "lost" /\ q.old \in Record
    BY <1>1, <1>2, <1>5, <2>1
  <2>9. After(c, a)' /\ (call'[c].stage = "failed" => record'[a] = q.old)
    BY <1>1, <1>2, <2>1, <2>3, <2>5, <2>6, <2>7, <2>8, EditSteady
  <2> QED BY <2>1, <2>9
<1> QED BY <1>4, <1>5 DEF WriteBack

LEMMA RereadSteady ==
  ASSUME Typed, Recoverable, NEW c \in Call, NEW a \in Account, InStep(call[c], a),
         a = call[c].account, Reread(c)
  PROVE  After(c, a)' /\ call'[c].stage # "failed"
<1> DEFINE k == call[c]
           q == [k EXCEPT !.rec = record[a]]
           edited == SharingEdited(k, record[a])
           next == IF edited THEN "swapping" ELSE AfterSharing(k)
<1>1. k # Nothing /\ k.stage = "rereading" /\ UNCHANGED <<record, blob, reach, slot>>
      /\ ~k.undo /\ k.todo = {} /\ Stored(k, record[a])
  BY DEF Reread, At, InStep, Updated
<1>2. /\ k \in CallState /\ k.req \in Request /\ k.old \in Record
      /\ record[a] \in Record /\ record[a] # Nothing /\ reach[a] = k.old.sharing
      /\ a \in slot /\ Vaulted(a)
  BY <1>1, EditHas
<1>3. Works /\ call' = [call EXCEPT ![c] = Left(q, next)]
  BY <1>2, FaultsCount DEF Reread
<1>4. q \in CallState /\ q.account = a /\ q.op = k.op /\ q.old = k.old /\ q.rec = record[a]
      /\ q.undo = k.undo /\ q.todo = k.todo /\ q.req = k.req
  BY <1>2 DEF CallState
<1>5. next \in {"swapping", "capping", "done"}
  BY DEF AfterSharing
<1>6. next # "swapping" => record[a].sharing = k.old.sharing
  <2>1. next # "swapping" => ~edited
    OBVIOUS
  <2>2. k.req.sharing = Unset => record[a].sharing = k.old.sharing
    BY <1>1 DEF Stored, Field
  <2> QED BY <2>1, <2>2 DEF SharingEdited
<1> HIDE DEF q, next
<1> DEFINE p == Left(q, next)
<1>7. next \in Stage
  BY <1>5 DEF Stage
<1>8. p \in CallState /\ p.account = a /\ p.op = k.op /\ p.stage = next
  BY <1>4, <1>7, LeftKeeps
<1>9. ASSUME next # "done" PROVE Same(p, q)
  <2>1. p = [q EXCEPT !.stage = next]
    BY <1>5, <1>9 DEF Left
  <2> QED BY <1>4, <2>1 DEF Same, CallState
<1>10. call' = [call EXCEPT ![c] = p]
  BY <1>3
<1> HIDE DEF p
<1>11. Moves(c) /\ call'[c] = p
  BY <1>1, <1>8, <1>10, MovesTo
<1>12. call'[c].stage = next /\ call'[c] # Nothing
  BY <1>8, <1>11 DEF Moves
<1>13. next # "done" => call'[c].old = k.old /\ call'[c].rec = record[a]
  BY <1>4, <1>9, <1>11 DEF Same
<1>14. Cut(a)' <=> Cut(a)
  BY <1>1, <1>5, <1>11, <1>12, CutKept
<1>15. Vaulted(a)'
  BY <1>1, <1>2, <1>14 DEF Vaulted
<1>16. CASE next = "swapping"
  <2>1. Updated(call[c], a)'
    BY <1>1, <1>2, <1>12, <1>13, <1>15, <1>16 DEF Updated
  <2> QED BY <1>12, <1>16, <2>1 DEF After, InProgress, InStep, Linked, Removed
<1>17. CASE next # "swapping"
  <2>1. Settled(a)'
    BY <1>1, <1>2, <1>6, <1>15, <1>17 DEF Settled, Consistent, Audience
  <2>2. CASE next = "done"
    BY <1>12, <2>1, <2>2 DEF After, InProgress
  <2>3. CASE next = "capping"
    <3>1. Updated(call[c], a)'
      BY <1>1, <1>12, <1>13, <2>1, <2>3 DEF Updated
    <3> QED BY <1>12, <2>3, <3>1 DEF After, InProgress, InStep, Linked, Removed
  <2> QED BY <1>5, <1>12, <1>17, <2>2, <2>3
<1> QED BY <1>5, <1>12, <1>16, <1>17

LEMMA NarrowSteady ==
  ASSUME Typed, Recoverable, NEW c \in Call, NEW a \in Account, InStep(call[c], a),
         a = call[c].account, Swap(c) \/ RevokeOthers(c) \/ ApplyCap(c)
  PROVE  After(c, a)' /\ call'[c].stage # "failed"
<1> DEFINE k == call[c]
<1>1. k # Nothing /\ k \in CallState /\ Shape(k) /\ k.stage \in {"swapping", "revoking", "capping"}
  BY HandledCall DEF Swap, RevokeOthers, ApplyCap, At
<1>2. UNCHANGED <<record, blob, slot>> /\ k.rec = record[a] /\ k.rec \in Record
  BY <1>1 DEF Swap, RevokeOthers, ApplyCap, InStep, Updated, Shape
<1>3. ASSUME NEW stage \in {"revoking", "capping", "done"}, GoTo(c, stage),
             stage = "revoking" => k.rec.sharing.vis # "public",
             reach'[a] = k.rec.sharing, a \in slot, Vaulted(a)
      PROVE  After(c, a)' /\ call'[c].stage # "failed"
  <2>1. /\ call'[c] # Nothing /\ call'[c].stage = stage
        /\ stage # "done" => Same(call'[c], k)
        /\ Cut(a)' <=> Cut(a)
    BY <1>1, <1>3, GoToSame DEF Stage
  <2>2. Settled(a)'
    BY <1>2, <1>3, <2>1, ConstantsAssumption DEF Settled, Consistent, Vaulted, Audience
  <2> QED BY <1>2, <1>3, <2>1, <2>2 DEF After, InProgress, InStep, Linked, Removed, Updated, Same
<1>4. AfterSharing(k) \in {"capping", "done"}
  BY DEF AfterSharing
<1>5. CASE Swap(c)
  <2>1. k.stage = "swapping"
    BY <1>5 DEF Swap, At
  <2>2. k.old \in Record /\ reach[a] = k.old.sharing /\ a \in slot /\ Vaulted(a)
    BY <1>1, <2>1, EditHas
  <2>3. reach[a] # Nothing
    BY <2>2, ConstantsAssumption DEF Record
  <2>4. /\ reach' = [reach EXCEPT ![a] = k.rec.sharing]
        /\ GoTo(c, IF k.rec.sharing.vis = "public" THEN AfterSharing(k) ELSE "revoking")
    BY <1>5, <2>3, FaultsCount DEF Swap
  <2>5. reach'[a] = k.rec.sharing
    BY <2>4 DEF Typed, TypeOK
  <2> QED BY <1>3, <1>4, <2>2, <2>4, <2>5
<1>6. CASE RevokeOthers(c) \/ ApplyCap(c)
  <2>1. Settled(a) /\ reach' = reach /\ (GoTo(c, AfterSharing(k)) \/ GoTo(c, "done"))
    BY <1>6 DEF RevokeOthers, ApplyCap, At, InStep, Updated
  <2>2. reach'[a] = k.rec.sharing /\ a \in slot /\ Vaulted(a)
    BY <1>2, <2>1, ConstantsAssumption DEF Settled, Consistent, Audience
  <2> QED BY <1>3, <1>4, <2>1, <2>2
<1> QED BY <1>5, <1>6

(* Who else may be on an account while a call is.                          *)

LEMMA GoingOn ==
  ASSUME Typed, NEW c \in Call, Going(c)
  PROVE  /\ InProgress(c) /\ call[c] \in CallState /\ call[c].account \in Account
         /\ contended' = contended /\ faults \in Nat /\ faults' \in Nat /\ faults <= faults'
<1>1. call[c] # Nothing
  BY DEF Going, Save, Add, Attach, Unrecord, Unvault, Unreach, EndAll,
         Get, Read, WriteBack, Reread, Swap, RevokeOthers, ApplyCap, At
<1>2. InProgress(c)
  BY <1>1 DEF Going, Save, Add, Attach, Unrecord, Unvault, Unreach, EndAll,
         Get, Read, WriteBack, Reread, Swap, RevokeOthers, ApplyCap, At, InProgress
<1>3. contended' = contended
  BY DEF Going, Save, Add, Attach, Unrecord, Unvault, Unreach, EndAll,
         Get, Read, WriteBack, Reread, Swap, RevokeOthers, ApplyCap
<1>4. faults' = faults \/ faults' = faults + 1
  BY DEF Going, Save, Add, Attach, Unrecord, Unvault, Unreach, EndAll,
         Get, Read, WriteBack, Reread, Swap, RevokeOthers, ApplyCap, Works, Fails
<1>5. faults \in Nat
  BY ConstantsAssumption DEF Typed, TypeOK
<1> QED BY <1>1, <1>2, <1>3, <1>4, <1>5, HandledCall

LEMMA GoingStaysPut ==
  ASSUME Typed, NEW c \in Call, Going(c), NEW a \in Account, a # call[c].account
  PROVE  /\ record'[a] = record[a] /\ reach'[a] = reach[a]
         /\ a \in slot' <=> a \in slot
         /\ a \in blob' <=> a \in blob
         /\ Cut(a)' <=> Cut(a)
<1>1. record'[a] = record[a] /\ reach'[a] = reach[a]
  BY GoingStays
<1>2. a \in slot' <=> a \in slot
  BY DEF Going, Save, Add, Attach, Unrecord, Unvault, Unreach, EndAll,
         Get, Read, WriteBack, Reread, Swap, RevokeOthers, ApplyCap
<1>3. a \in blob' <=> a \in blob
  BY DEF Going, Save, Add, Attach, Unrecord, Unvault, Unreach, EndAll,
         Get, Read, WriteBack, Reread, Swap, RevokeOthers, ApplyCap
<1>4. Cut(a)' <=> Cut(a)
  BY GoingMoves DEF Moves, Cut
<1> QED BY <1>1, <1>2, <1>3, <1>4

(* A restart leaves no call in progress.                                   *)
LEMMA RestartEnds ==
  ASSUME Typed, Restart, NEW c \in Call
  PROVE  /\ InProgress(c) => /\ call'[c] # Nothing /\ call'[c].stage = "lost"
                             /\ call'[c].account = call[c].account
         /\ ~InProgress(c) => call'[c] = call[c]
         /\ ~InProgress(c)'
<1>1. CASE InProgress(c)
  <2>1. call[c] # Nothing /\ call[c] \in CallState
    BY <1>1 DEF InProgress, Typed, TypeOK
  <2>2. call'[c] = Left(call[c], "lost")
    BY <1>1 DEF Restart
  <2>3. "lost" \in Stage
    BY DEF Stage
  <2> QED BY <1>1, <2>1, <2>2, <2>3, LeftKeeps, ConstantsAssumption DEF InProgress
<1>2. CASE ~InProgress(c)
  BY <1>2 DEF Restart, InProgress
<1> QED BY <1>1, <1>2

LEMMA ApartNext ==
  ASSUME Typed, Apart, [Next]_vars
  PROVE  Apart'
<1>1. ASSUME NEW c \in Call, Going(c) PROVE Apart'
  <2>1. InProgress(c) /\ contended' = contended /\ Moves(c)
    BY <1>1, GoingOn, GoingMoves
  <2>2. ASSUME NEW d \in Call, InProgress(d)'
        PROVE  InProgress(d) /\ call'[d].account = call[d].account
    BY <2>1, <2>2 DEF InProgress, Moves
  <2>3. ASSUME NEW d \in Call, NEW e \in Call, InProgress(d)', InProgress(e)',
               call'[d].account = call'[e].account, d # e
        PROVE  call'[d].account \in contended'
    BY <2>1, <2>2, <2>3 DEF Apart
  <2> QED BY <2>3 DEF Apart
<1>2. ASSUME NEW c \in Call, NEW op \in {"link", "update", "remove"}, NEW a, NEW stage,
             NEW req, NEW rec, Begin(c, op, a, stage, req, rec)
      PROVE  Apart'
  <2>1. /\ call'[c].account = a /\ \A d \in Call \ {c} : call'[d] = call[d]
        /\ contended \subseteq contended'
        /\ (\E d \in Call : InProgress(d) /\ call[d].account = a) => a \in contended'
    BY <1>2 DEF Begin, Typed, TypeOK
  <2>2. \A d \in Call \ {c} : InProgress(d)' <=> InProgress(d)
    BY <2>1 DEF InProgress
  <2>3. ASSUME NEW d \in Call, NEW e \in Call, InProgress(d)', InProgress(e)',
               call'[d].account = call'[e].account, d # e
        PROVE  call'[d].account \in contended'
    <3>1. CASE d # c /\ e # c
      BY <2>1, <2>2, <2>3, <3>1 DEF Apart
    <3>2. CASE d = c /\ e # c
      BY <2>1, <2>2, <2>3, <3>2
    <3>3. CASE d # c /\ e = c
      BY <2>1, <2>2, <2>3, <3>3
    <3> QED BY <2>3, <3>1, <3>2, <3>3
  <2> QED BY <2>3 DEF Apart
<1>3. CASE Restart
  <2>1. \A c \in Call : ~InProgress(c)'
    BY <1>3, RestartEnds
  <2> QED BY <2>1 DEF Apart
<1>4. ASSUME UNCHANGED <<call, contended>> PROVE Apart'
  BY <1>4 DEF Apart, InProgress
<1>5. CASE (\E s \in Start, u \in User, a \in Account : Check(s, u, a))
             \/ (\E s \in Start : Admit(s)) \/ UNCHANGED vars
  BY <1>4, <1>5 DEF Check, Admit, vars
<1> QED BY <1>1, <1>2, <1>3, <1>5 DEF Next, CallStep, Going, LinkAccount, RemoveAccount, UpdateAccount

(* A call on an account nothing happened to is in step with it still.      *)
LEMMA InStepElsewhere ==
  ASSUME NEW a, NEW d \in Call, call'[d] = call[d], InStep(call[d], a),
         record'[a] = record[a], reach'[a] = reach[a],
         a \in slot' <=> a \in slot, a \in blob' <=> a \in blob, Cut(a)' <=> Cut(a),
         faults \in Nat, faults' \in Nat, faults <= faults'
  PROVE  InStep(call[d], a)'
<1>1. Settled(a)' <=> Settled(a)
  BY DEF Settled, Consistent, Vaulted, Audience
<1>2. (Vaulted(a)' <=> Vaulted(a)) /\ (Consistent(a)' <=> Consistent(a))
  BY DEF Consistent, Vaulted, Audience
<1>3. faults > 0 => faults' > 0
  OBVIOUS
<1>4. Linked(call[d], a)'
  BY <1>1, <1>2, <1>3 DEF InStep, Linked
<1>5. Removed(call[d], a)'
  BY <1>1 DEF InStep, Removed
<1>6. Updated(call[d], a)'
  BY <1>1, <1>2, <1>3 DEF InStep, Updated
<1> QED BY <1>4, <1>5, <1>6 DEF InStep

LEMMA GoingAfter ==
  ASSUME Typed, Recoverable, NEW c \in Call, Going(c), InStep(call[c], call[c].account),
         NEW a \in Account, a = call[c].account
  PROVE  After(c, a)'
<1>1. InStep(call[c], a)
  OBVIOUS
<1> QED BY <1>1, LinkSteady, DeleteSteady, GetSteady, ReadSteady, WriteBackSteady, RereadSteady,
           NarrowSteady DEF Going

LEMMA SteadyGoing ==
  ASSUME Typed, Recoverable, Apart, Steady, NEW c \in Call, Going(c)
  PROVE  Steady'
<1>1. /\ InProgress(c) /\ call[c] \in CallState /\ call[c].account \in Account
      /\ contended' = contended /\ faults \in Nat /\ faults' \in Nat /\ faults <= faults'
  BY GoingOn
<1>2. Moves(c)
  BY GoingMoves
<1>3. ASSUME NEW d \in Call, InProgress(d)'
      PROVE  InProgress(d) /\ call'[d].account = call[d].account
  BY <1>1, <1>2, <1>3 DEF InProgress, Moves
<1>5. ASSUME NEW a \in Account, Alone(a)', a # call[c].account
      PROVE  /\ Quiet(a)' => Settled(a)'
             /\ \A d \in Call : InProgress(d)' /\ call'[d].account = a => InStep(call[d], a)'
  <2>1. Alone(a)
    BY <1>1, <1>5 DEF Alone
  <2>2. Quiet(a)' => Quiet(a)
    <3>1. ASSUME NEW d \in Call, InProgress(d), call[d].account = a
          PROVE  InProgress(d)' /\ call'[d].account = a
      BY <1>2, <1>5, <3>1 DEF InProgress, Moves
    <3> QED BY <3>1 DEF Quiet
  <2>3. /\ record'[a] = record[a] /\ reach'[a] = reach[a]
        /\ a \in slot' <=> a \in slot
        /\ a \in blob' <=> a \in blob
        /\ Cut(a)' <=> Cut(a)
    BY <1>5, GoingStaysPut
  <2>4. Settled(a)' <=> Settled(a)
    BY <2>3 DEF Settled, Consistent, Vaulted, Audience
  <2>5. ASSUME NEW d \in Call, InProgress(d)', call'[d].account = a PROVE InStep(call[d], a)'
    <3>1. InProgress(d) /\ call[d].account = a
      BY <1>3, <2>5
    <3>2. d # c /\ call'[d] = call[d]
      BY <1>2, <1>5, <3>1 DEF Moves
    <3>3. InStep(call[d], a)
      BY <2>1, <3>1 DEF Steady
    <3> QED BY <1>1, <2>3, <3>2, <3>3, InStepElsewhere
  <2> QED BY <2>1, <2>2, <2>4, <2>5 DEF Steady
<1>6. ASSUME NEW a \in Account, Alone(a)', a = call[c].account
      PROVE  /\ Quiet(a)' => Settled(a)'
             /\ \A d \in Call : InProgress(d)' /\ call'[d].account = a => InStep(call[d], a)'
  <2>1. Alone(a)
    BY <1>1, <1>6 DEF Alone
  <2>2. InStep(call[c], a)
    BY <1>1, <1>6, <2>1 DEF Steady
  <2>3. InStep(call[c], call[c].account)
    BY <1>6, <2>2
  <2>4. After(c, a)'
    BY <1>6, <2>3, GoingAfter
  <2>5. Quiet(a)' => Settled(a)'
    <3>1. call'[c].account = a
      BY <1>2, <1>6 DEF Moves
    <3> QED BY <2>4, <3>1 DEF Quiet, After
  <2>6. ASSUME NEW d \in Call, InProgress(d)', call'[d].account = a PROVE InStep(call[d], a)'
    <3>1. d = c
      BY <1>1, <1>3, <1>6, <2>1, <2>6 DEF Apart, Alone
    <3> QED BY <2>4, <2>6, <3>1 DEF After
  <2> QED BY <2>5, <2>6
<1> QED BY <1>5, <1>6 DEF Steady

LEMMA SteadyBegin ==
  ASSUME Typed, Recoverable, Apart, Steady, NEW c \in Call, NEW op \in {"link", "update", "remove"},
         NEW a \in Account, NEW stage \in {"saving", "getting"},
         NEW req \in Request \cup {Nothing}, NEW rec \in Record \cup {Nothing},
         stage = "saving" => record[a] = Nothing, Begin(c, op, a, stage, req, rec)
  PROVE  Steady'
<1> DEFINE k == [op |-> op, stage |-> stage, account |-> a, req |-> req, old |-> Nothing,
                 rec |-> rec, todo |-> {}, undo |-> FALSE]
<1>1. /\ call[c] = Nothing /\ call' = [call EXCEPT ![c] = k]
      /\ UNCHANGED <<record, blob, slot, reach, faults>>
      /\ contended \subseteq contended'
      /\ (\E d \in Call : InProgress(d) /\ call[d].account = a) => a \in contended'
  BY DEF Begin
<1>2. /\ k \in CallState /\ k.account = a /\ k.stage = stage /\ k.old = Nothing /\ ~k.undo
  BY DEF CallState, Stage
<1> HIDE DEF k
<1>3. /\ call'[c] = k /\ call'[c] # Nothing /\ \A d \in Call \ {c} : call'[d] = call[d]
  BY <1>1, <1>2, ConstantsAssumption DEF Typed, TypeOK
<1>4. \A d \in Call \ {c} : InProgress(d)' <=> InProgress(d)
  BY <1>3 DEF InProgress
<1>5. ~InProgress(c) /\ InProgress(c)' /\ call'[c].account = a
  BY <1>1, <1>2, <1>3 DEF InProgress
<1>6. \A b \in Account : Cut(b)' <=> Cut(b)
  <2>1. call'[c].stage # "lost"
    BY <1>2, <1>3
  <2> QED BY <1>1, <1>3, <2>1 DEF Cut
<1>7. \A b \in Account : Settled(b)' <=> Settled(b)
  BY <1>1, <1>6 DEF Settled, Consistent, Vaulted, Audience
<1>8. faults \in Nat /\ faults' = faults
  BY <1>1, ConstantsAssumption DEF Typed, TypeOK
<1>10. ASSUME NEW b \in Account, Alone(b)'
       PROVE  /\ Quiet(b)' => Settled(b)'
              /\ \A d \in Call : InProgress(d)' /\ call'[d].account = b => InStep(call[d], b)'
  <2>1. Alone(b)
    BY <1>1, <1>10 DEF Alone
  <2>2. Quiet(b)' => Settled(b)'
    <3>1. Quiet(b)' => Quiet(b)
      BY <1>3, <1>4, <1>5 DEF Quiet
    <3> QED BY <1>7, <2>1, <3>1 DEF Steady
  <2>3. ASSUME NEW d \in Call \ {c}, InProgress(d)', call'[d].account = b
        PROVE  InStep(call[d], b)'
    <3>1. InProgress(d) /\ call[d].account = b /\ call'[d] = call[d]
      BY <1>3, <1>4, <2>3
    <3>2. InStep(call[d], b)
      BY <2>1, <3>1 DEF Steady
    <3>3. /\ record'[b] = record[b] /\ reach'[b] = reach[b]
          /\ b \in slot' <=> b \in slot
          /\ b \in blob' <=> b \in blob
      BY <1>1
    <3>4. (Cut(b)' <=> Cut(b)) /\ faults \in Nat /\ faults' \in Nat /\ faults <= faults'
      BY <1>6, <1>8
    <3> QED BY <3>1, <3>2, <3>3, <3>4, InStepElsewhere
  <2>4. ASSUME b = a PROVE InStep(call[c], b)'
    <3>1. Quiet(a)
      BY <1>1, <1>10, <2>4 DEF Quiet, Alone
    <3>2. Settled(a)'
      BY <1>7, <2>1, <2>4, <3>1 DEF Steady
    <3>3. /\ call'[c].stage \in {"saving", "getting"} /\ call'[c].old = Nothing /\ ~call'[c].undo
          /\ call'[c].stage = "saving" => record'[b] = Nothing
      BY <1>1, <1>2, <1>3, <2>4
    <3> QED BY <2>4, <3>2, <3>3 DEF InStep, Linked, Removed, Updated
  <2> QED BY <1>5, <2>2, <2>3, <2>4
<1> QED BY <1>10 DEF Steady

LEMMA SteadyRestart ==
  ASSUME Typed, Apart, Steady, Restart
  PROVE  Steady'
<1>1. ASSUME NEW c \in Call
      PROVE  /\ InProgress(c) => /\ call'[c] # Nothing /\ call'[c].stage = "lost"
                                 /\ call'[c].account = call[c].account
             /\ ~InProgress(c) => call'[c] = call[c]
  BY RestartEnds
<1>2. \A c \in Call : ~InProgress(c)'
  BY <1>1 DEF InProgress
<1>4. ASSUME NEW a \in Account, Alone(a)' PROVE Settled(a)'
  <2>1. Alone(a) /\ record' = record /\ blob' = blob
    BY <1>4 DEF Restart, Alone
  <2>2. Consistent(a)'
    BY <2>1 DEF Restart, Consistent, Audience
  <2>3. Vaulted(a)'
    <3>1. CASE Quiet(a)
      <4>1. Vaulted(a)
        BY <2>1, <3>1 DEF Steady, Settled
      <4>2. Cut(a) => Cut(a)'
        <5>1. ASSUME NEW c \in Call, call[c].stage = "lost" PROVE call'[c] = call[c]
          BY <1>1, <5>1 DEF InProgress
        <5> QED BY <5>1 DEF Cut
      <4> QED BY <2>1, <4>1, <4>2 DEF Vaulted
    <3>2. CASE ~Quiet(a)
      BY <1>1, <3>2 DEF Quiet, Vaulted, Cut
    <3> QED BY <3>1, <3>2
  <2> QED BY <2>2, <2>3 DEF Settled
<1> QED BY <1>2, <1>4 DEF Steady

LEMMA SteadyStill ==
  ASSUME Typed, Apart, Steady, UNCHANGED <<stores, live, call, faults, contended>>
  PROVE  Steady'
<1>2. \A a \in Account : (Cut(a)' <=> Cut(a)) /\ (Quiet(a)' <=> Quiet(a)) /\ (Alone(a)' <=> Alone(a))
  BY DEF Cut, Quiet, Alone, InProgress
<1>3. ASSUME NEW a \in Account, Alone(a), Quiet(a) PROVE Settled(a)'
  BY <1>2, <1>3 DEF Steady, Settled, Consistent, Vaulted, Audience
<1>4. ASSUME NEW a \in Account, Alone(a), NEW d \in Call, InProgress(d), call[d].account = a
      PROVE  InStep(call[d], a)'
  <2>1. InStep(call[d], a)
    BY <1>4 DEF Steady
  <2>2. /\ call'[d] = call[d] /\ record'[a] = record[a] /\ reach'[a] = reach[a]
        /\ a \in slot' <=> a \in slot
        /\ a \in blob' <=> a \in blob
    OBVIOUS
  <2>3. (Cut(a)' <=> Cut(a)) /\ faults \in Nat /\ faults' = faults
    BY <1>2, ConstantsAssumption DEF Typed, TypeOK
  <2> QED BY <2>1, <2>2, <2>3, InStepElsewhere
<1>5. \A d \in Call : (InProgress(d)' <=> InProgress(d)) /\ call'[d] = call[d]
  BY DEF InProgress
<1> QED BY <1>2, <1>3, <1>4, <1>5 DEF Steady

LEMMA SteadyNext ==
  ASSUME Typed, Recoverable, Apart, Steady, [Next]_vars
  PROVE  Steady'
<1>1. ASSUME NEW c \in Call, NEW a \in Account, NEW rec \in Links, LinkAccount(c, a, rec)
      PROVE  Steady'
  <2>1. rec \in Record
    BY ConstantsAssumption DEF Record, Policy
  <2>2. record[a] = Nothing /\ Begin(c, "link", a, "saving", Nothing, rec)
    BY <1>1 DEF LinkAccount
  <2> QED BY <2>1, <2>2, SteadyBegin
<1>2. ASSUME NEW c \in Call, NEW a \in Account, RemoveAccount(c, a)
      PROVE  Steady'
  BY <1>2, SteadyBegin DEF RemoveAccount
<1>3. ASSUME NEW c \in Call, NEW a \in Account, NEW req \in Edits, UpdateAccount(c, a, req)
      PROVE  Steady'
  <2>1. req \in Request
    BY ConstantsAssumption
  <2> QED BY <1>3, <2>1, SteadyBegin DEF UpdateAccount
<1>4. ASSUME NEW c \in Call, Going(c) PROVE Steady'
  BY <1>4, SteadyGoing
<1>5. ASSUME (\E s \in Start, u \in User, a \in Account : Check(s, u, a))
                \/ (\E s \in Start : Admit(s)) \/ UNCHANGED vars
      PROVE  Steady'
  <2>1. UNCHANGED <<stores, live, call, faults, contended>>
    BY <1>5 DEF Check, Admit, vars
  <2> QED BY <2>1, SteadyStill
<1> QED BY <1>1, <1>2, <1>3, <1>4, <1>5, SteadyRestart DEF Next, CallStep, Going

(* The invariant behind the two theorems below                             *)
AllSteady == Typed /\ Apart /\ Steady

LEMMA SteadyInit == Init => Apart /\ Steady
<1> SUFFICES ASSUME Init PROVE Apart /\ Steady
  OBVIOUS
<1>1. \A c \in Call : ~InProgress(c)
  BY DEF Init, InProgress
<1>2. ASSUME NEW a \in Account PROVE Settled(a)
  BY DEF Init, Settled, Consistent, Vaulted, Audience
<1> QED BY <1>1, <1>2 DEF Apart, Steady

LEMMA AlwaysSteady ==
  ASSUME Recoverable
  PROVE  Spec => []AllSteady
<1>1. Init => AllSteady
  BY TypedInit, SteadyInit DEF AllSteady
<1>2. AllSteady /\ [Next]_vars => AllSteady'
  <2> SUFFICES ASSUME Typed, Apart, Steady, [Next]_vars PROVE Typed' /\ Apart' /\ Steady'
    BY DEF AllSteady
  <2> QED BY NextTyped, ApartNext, SteadyNext
<1> QED BY <1>1, <1>2, PTL DEF Spec

(* The record and the live reach agree about who may use an account once   *)
(* the calls on it are over (accounts.go:175), for any accounts, users and *)
(* calls, with failures and restarts anywhere, unless what puts a failed   *)
(* call right fails too.                                                   *)
THEOREM RecordAndReachAgreeHolds ==
  ASSUME Recoverable
  PROVE  Spec => []RecordAndReachAgree
<1>1. AllSteady => RecordAndReachAgree
  BY DEF AllSteady, Steady, Settled, Consistent, Audience, RecordAndReachAgree
<1> QED BY <1>1, AlwaysSteady, PTL

(* An update that reports failure has changed nothing (accounts.go:114),   *)
(* whichever of its fields could not be stored, if its rollback does not.  *)
THEOREM FailedEditChangesNothingHolds ==
  ASSUME Recoverable
  PROVE  Spec => FailedEditChangesNothing
<1> DEFINE Spares == \A c \in Call :
             (InProgress(c) /\ call[c].old # Nothing /\ call'[c].stage = "failed"
                /\ Alone(call[c].account)) =>
               record'[call[c].account] = call[c].old
<1>1. ASSUME AllSteady, [Next]_vars, NEW c \in Call, InProgress(c), call[c].old # Nothing,
             call'[c].stage = "failed", NEW a \in Account, a = call[c].account, Alone(a)
      PROVE  record'[a] = call[c].old
  <2>1. InStep(call[c], a) /\ Typed /\ call[c] # Nothing
    BY <1>1 DEF AllSteady, Steady, InProgress
  <2>2. call[c].stage \in {"reading", "writing", "rereading", "swapping", "revoking", "capping"}
    BY <1>1, <2>1 DEF InStep
  <2>3. call'[c] # call[c]
    BY <1>1 DEF InProgress
  <2>4. CASE Going(c)
    <3>1. \/ Read(c) \/ WriteBack(c) \/ Reread(c) \/ Swap(c) \/ RevokeOthers(c) \/ ApplyCap(c)
      BY <2>2, <2>4 DEF Going, Save, Add, Attach, Unrecord, Unvault, Unreach, EndAll, Get, At
    <3> QED BY <1>1, <2>1, <3>1, ReadSteady, WriteBackSteady, RereadSteady, NarrowSteady
  <2>5. ASSUME NEW d \in Call, Going(d), d # c PROVE FALSE
    BY <2>1, <2>3, <2>5, GoingMoves DEF Moves
  <2>6. ASSUME NEW d \in Call, NEW op, NEW b, NEW stage, NEW req, NEW rec,
               Begin(d, op, b, stage, req, rec)
        PROVE  FALSE
    <3>1. d # c
      BY <2>1, <2>6 DEF Begin
    <3> QED BY <2>1, <2>3, <2>6, <3>1 DEF Begin, Typed, TypeOK
  <2>7. CASE Restart
    <3>1. call'[c] = Left(call[c], "lost") /\ call[c] \in CallState /\ "lost" \in Stage
      BY <1>1, <2>1, <2>7 DEF Restart, Typed, TypeOK, Stage
    <3> QED BY <1>1, <3>1, LeftKeeps
  <2>8. CASE (\E s \in Start, u \in User, b \in Account : Check(s, u, b))
                \/ (\E s \in Start : Admit(s)) \/ UNCHANGED vars
    BY <2>3, <2>8 DEF Check, Admit, vars
  <2> QED BY <1>1, <2>4, <2>5, <2>6, <2>7, <2>8
          DEF Next, CallStep, Going, LinkAccount, RemoveAccount, UpdateAccount
<1>2. AllSteady /\ [Next]_vars => Spares
  <2> SUFFICES ASSUME AllSteady, [Next]_vars, NEW c \in Call, InProgress(c),
                      call[c].old # Nothing, call'[c].stage = "failed", Alone(call[c].account)
               PROVE  record'[call[c].account] = call[c].old
    OBVIOUS
  <2>1. call[c].account \in Account
    BY HandledCall DEF AllSteady, InProgress
  <2> QED BY <1>1, <2>1
<1>3. AllSteady /\ [Next]_vars => [Spares]_vars
  BY <1>2
<1> QED BY <1>3, AlwaysSteady, PTL DEF FailedEditChangesNothing, Spec

-----------------------------------------------------------------------------
(* A narrowing, whatever fails: while a call swaps the reach and ends the  *)
(* sessions of others, what it reread is what the vault holds.             *)

Editing == {"reading", "writing", "rereading", "swapping", "revoking", "capping"}

Faces(k, a) ==
  /\ k.stage \in {"swapping", "revoking"} => k.rec = record[a]
  /\ k.stage = "revoking" => k.rec.sharing.vis # "public"
Facing == \A c \in Call : InProgress(c) /\ Alone(call[c].account) => Faces(call[c], call[c].account)

(* Where the steps of an edit lead.                                        *)
LEMMA EditLeads ==
  ASSUME Typed, NEW c \in Call,
         Read(c) \/ WriteBack(c) \/ Reread(c) \/ Swap(c) \/ RevokeOthers(c) \/ ApplyCap(c)
  PROVE  /\ call'[c].stage \in Editing \cup {"done", "failed"}
         /\ call'[c].stage = "swapping" => Reread(c) /\ call'[c].rec = record[call[c].account]
         /\ call'[c].stage = "revoking" =>
              Swap(c) /\ call'[c].rec = call[c].rec /\ call[c].rec.sharing.vis # "public"
<1>1. call[c] \in CallState /\ Shape(call[c]) /\ call[c] # Nothing
  BY HandledCall DEF Read, WriteBack, Reread, Swap, RevokeOthers, ApplyCap, At
<1>2. ASSUME NEW failed \in {"sharing", "cap", "policy", "swap"}, Abandon(c, failed)
      PROVE  call'[c].stage \in {"reading", "failed", "rereading"}
  BY <1>1, <1>2, AbandonKeeps
<1>3. \A todo : First(todo) \in {"sharing", "cap", "policy", "swap"}
  BY DEF First
<1>4. AfterSharing(call[c]) \in {"capping", "done"}
  BY DEF AfterSharing
<1>5. CASE Read(c)
  <2>1. CASE call' = [call EXCEPT ![c].rec = record[call[c].account], ![c].stage = "writing"]
    <3>1. call'[c] = [call[c] EXCEPT !.rec = record[call[c].account], !.stage = "writing"]
      BY <2>1 DEF Typed, TypeOK
    <3> QED BY <1>1, <3>1 DEF Editing, CallState
  <2>2. CASE Abandon(c, First(call[c].todo))
    BY <1>2, <1>3, <2>2 DEF Editing
  <2> QED BY <1>5, <2>1, <2>2 DEF Read
<1>6. CASE WriteBack(c)
  <2> DEFINE f == First(call[c].todo)
             k == [call[c] EXCEPT !.todo = @ \ {f}, !.rec = Nothing]
  <2>1. k \in CallState /\ k.account = call[c].account /\ k.op = call[c].op
    BY <1>1 DEF CallState
  <2>2. Abandon(c, f) \/ call' = [call EXCEPT ![c] = Proceed(k)]
    BY <1>6 DEF WriteBack
  <2> HIDE DEF k
  <2>3. Proceed(k).stage \in {"reading", "failed", "rereading"}
    BY <2>1, ProceedKeeps
  <2>4. CASE call' = [call EXCEPT ![c] = Proceed(k)]
    <3>1. call'[c] = Proceed(k)
      BY <2>4 DEF Typed, TypeOK
    <3> QED BY <2>3, <3>1 DEF Editing
  <2> QED BY <1>2, <1>3, <2>2, <2>4 DEF Editing
<1>7. CASE Reread(c)
  <2> DEFINE k == [call[c] EXCEPT !.rec = record[call[c].account]]
             next == IF SharingEdited(call[c], record[call[c].account])
                     THEN "swapping" ELSE AfterSharing(call[c])
  <2>1. k \in CallState /\ k.rec = record[call[c].account]
    BY <1>1 DEF CallState, Typed, TypeOK
  <2>2. next \in {"swapping", "capping", "done"} /\ next \in Stage
    BY <1>4 DEF Stage
  <2>3. GoTo(c, "failed") \/ call' = [call EXCEPT ![c] = Left(k, next)]
    BY <1>7 DEF Reread
  <2> HIDE DEF k, next
  <2>4. /\ Left(k, next).stage = next
        /\ next = "swapping" => Left(k, next).rec = k.rec
    BY <2>1, <2>2, LeftKeeps
  <2>5. CASE call' = [call EXCEPT ![c] = Left(k, next)]
    <3>1. call'[c] = Left(k, next)
      BY <2>5 DEF Typed, TypeOK
    <3> QED BY <1>7, <2>1, <2>2, <2>4, <3>1 DEF Editing
  <2>6. CASE GoTo(c, "failed")
    <3>1. call'[c].stage = "failed"
      BY <1>1, <2>6, GoToKeeps DEF Stage
    <3> QED BY <3>1
  <2> QED BY <2>3, <2>5, <2>6
<1>8. CASE Swap(c)
  <2>1. CASE Abandon(c, "swap")
    BY <1>2, <2>1 DEF Editing
  <2>2. CASE GoTo(c, IF call[c].rec.sharing.vis = "public" THEN AfterSharing(call[c]) ELSE "revoking")
    <3> DEFINE stage == IF call[c].rec.sharing.vis = "public" THEN AfterSharing(call[c]) ELSE "revoking"
    <3>1. /\ stage \in {"capping", "done", "revoking"} /\ stage \in Stage
          /\ stage = "revoking" => call[c].rec.sharing.vis # "public"
      BY <1>4 DEF Stage
    <3>2. GoTo(c, stage)
      BY <2>2
    <3> HIDE DEF stage
    <3>3. call'[c].stage = stage /\ (stage = "revoking" => call'[c].rec = call[c].rec)
      BY <1>1, <3>1, <3>2, GoToKeeps
    <3> QED BY <1>8, <3>1, <3>3 DEF Editing
  <2> QED BY <1>8, <2>1, <2>2 DEF Swap
<1>9. CASE RevokeOthers(c) \/ ApplyCap(c)
  <2>1. PICK stage \in {"capping", "done"} : GoTo(c, stage)
    BY <1>4, <1>9 DEF RevokeOthers, ApplyCap
  <2>2. call'[c].stage = stage
    BY <1>1, <2>1, GoToKeeps DEF Stage
  <2> QED BY <2>2 DEF Editing
<1> QED BY <1>5, <1>6, <1>7, <1>8, <1>9

(* The other steps of a call do not lead into the narrowing.               *)
LEMMA OthersLead ==
  ASSUME Typed, NEW c \in Call,
         Save(c) \/ Add(c) \/ Attach(c) \/ Unrecord(c) \/ Unvault(c) \/ Unreach(c) \/ EndAll(c) \/ Get(c)
  PROVE  call'[c].stage \notin {"swapping", "revoking"}
<1>1. call[c] \in CallState /\ call[c] # Nothing
  BY HandledCall DEF Save, Add, Attach, Unrecord, Unvault, Unreach, EndAll, Get, At
<1>2. ASSUME NEW stage \in Stage \ {"swapping", "revoking"}, GoTo(c, stage)
      PROVE  call'[c].stage \notin {"swapping", "revoking"}
  BY <1>1, <1>2, GoToKeeps
<1>3. CASE ~Get(c)
  <2>1. \E stage \in {"adding", "attaching", "done", "failed", "unrecording", "unvaulting",
                      "unreaching", "ending"} : GoTo(c, stage)
    BY <1>3 DEF Save, Add, Attach, Unrecord, Unvault, Unreach, EndAll
  <2> QED BY <1>2, <2>1 DEF Stage
<1>4. CASE Get(c)
  <2> DEFINE k == [call[c] EXCEPT !.old = record[call[c].account], !.todo = Plan(call[c].req)]
  <2>1. k \in CallState
    BY <1>1 DEF CallState, Plan, Typed, TypeOK
  <2>2. GoTo(c, "failed") \/ GoTo(c, "unrecording") \/ call' = [call EXCEPT ![c] = Proceed(k)]
    BY <1>4 DEF Get
  <2> HIDE DEF k
  <2>3. CASE call' = [call EXCEPT ![c] = Proceed(k)]
    <3>1. call'[c] = Proceed(k)
      BY <2>3 DEF Typed, TypeOK
    <3> QED BY <2>1, <3>1, ProceedKeeps
  <2> QED BY <1>2, <2>2, <2>3 DEF Stage
<1> QED BY <1>3, <1>4

LEMMA FacingNext ==
  ASSUME Typed, Apart, Facing, [Next]_vars
  PROVE  Facing'
<1>1. ASSUME NEW d \in Call, InProgress(d), Alone(call[d].account), call'[d] = call[d],
             record'[call[d].account] = record[call[d].account]
      PROVE  Faces(call[d], call[d].account)'
  BY <1>1 DEF Facing, Faces
<1>2. ASSUME NEW c \in Call, Going(c), NEW d \in Call, InProgress(d)', Alone(call[d].account)'
      PROVE  Faces(call[d], call[d].account)'
  <2>1. /\ InProgress(c) /\ call[c] \in CallState /\ call[c].account \in Account
        /\ contended' = contended /\ Moves(c)
    BY <1>2, GoingOn, GoingMoves
  <2>2. CASE d # c
    <3>1. call'[d] = call[d] /\ InProgress(d) /\ Alone(call[d].account)
      BY <1>2, <2>1, <2>2 DEF Moves, InProgress, Alone
    <3>2. call[d].account # call[c].account /\ call[d].account \in Account
      BY <2>1, <2>2, <3>1, HandledCall DEF Apart, Alone, InProgress
    <3>3. record'[call[d].account] = record[call[d].account]
      BY <1>2, <3>2, GoingStays
    <3> QED BY <1>1, <3>1, <3>3
  <2>3. CASE d = c
    <3>1. call'[c].account = call[c].account /\ Alone(call[c].account)
      BY <1>2, <2>1, <2>3 DEF Moves, Alone
    <3>2. CASE call'[c].stage = "swapping"
      <4>1. Reread(c) /\ call'[c].rec = record[call[c].account]
        BY <1>2, <3>2, EditLeads, OthersLead DEF Going
      <4>2. record' = record
        BY <4>1 DEF Reread
      <4> QED BY <2>3, <3>1, <3>2, <4>1, <4>2 DEF Faces
    <3>3. CASE call'[c].stage = "revoking"
      <4>1. Swap(c) /\ call'[c].rec = call[c].rec /\ call[c].rec.sharing.vis # "public"
        BY <1>2, <3>3, EditLeads, OthersLead DEF Going
      <4>2. record' = record /\ call[c].stage = "swapping"
        BY <4>1 DEF Swap, At
      <4>3. call[c].rec = record[call[c].account]
        BY <2>1, <3>1, <4>2 DEF Facing, Faces
      <4> QED BY <2>3, <3>1, <3>3, <4>1, <4>2, <4>3 DEF Faces
    <3> QED BY <2>3, <3>2, <3>3 DEF Faces
  <2> QED BY <2>2, <2>3
<1>3. ASSUME NEW c \in Call, NEW op \in {"link", "update", "remove"}, NEW a \in Account,
             NEW stage \in {"saving", "getting"}, NEW req, NEW rec, Begin(c, op, a, stage, req, rec),
             NEW d \in Call, InProgress(d)', Alone(call[d].account)'
      PROVE  Faces(call[d], call[d].account)'
  <2>1. /\ call'[c].stage = stage /\ \A e \in Call \ {c} : call'[e] = call[e]
        /\ contended \subseteq contended' /\ record' = record
    BY <1>3 DEF Begin, Typed, TypeOK
  <2>2. CASE d = c
    BY <2>1, <2>2 DEF Faces
  <2>3. CASE d # c
    <3>1. call'[d] = call[d] /\ InProgress(d) /\ Alone(call[d].account)
      BY <1>3, <2>1, <2>3 DEF InProgress, Alone
    <3> QED BY <1>1, <2>1, <3>1
  <2> QED BY <2>2, <2>3
<1>4. ASSUME UNCHANGED <<call, record, contended>>, NEW d \in Call, InProgress(d)', Alone(call[d].account)'
      PROVE  Faces(call[d], call[d].account)'
  <2>1. InProgress(d) /\ Alone(call[d].account)
    BY <1>4 DEF InProgress, Alone
  <2> QED BY <1>1, <1>4, <2>1
<1>5. CASE (\E s \in Start, u \in User, a \in Account : Check(s, u, a))
             \/ (\E s \in Start : Admit(s)) \/ UNCHANGED vars
  <2>1. UNCHANGED <<call, record, contended>>
    BY <1>5 DEF Check, Admit, vars
  <2> QED BY <1>4, <2>1 DEF Facing
<1>6. CASE Restart
  BY <1>6, RestartEnds DEF Facing
<1>7. ASSUME NEW c \in Call, Going(c) PROVE Facing'
  BY <1>2, <1>7 DEF Facing
<1>8. ASSUME NEW c \in Call, NEW a \in Account,
             (\E rec \in Links : LinkAccount(c, a, rec)) \/ RemoveAccount(c, a)
                \/ (\E req \in Edits : UpdateAccount(c, a, req))
      PROVE  Facing'
  BY <1>3, <1>8 DEF Facing, LinkAccount, RemoveAccount, UpdateAccount
<1> QED BY <1>5, <1>6, <1>7, <1>8 DEF Next, CallStep, Going

LEMMA AlwaysFacing == Spec => [](Typed /\ Apart /\ Facing)
<1>1. Init => Typed /\ Apart /\ Facing
  <2>1. Init => \A c \in Call : ~InProgress(c)
    BY DEF Init, InProgress
  <2> QED BY <2>1, TypedInit DEF Apart, Facing
<1>2. Typed /\ Apart /\ Facing /\ [Next]_vars => (Typed /\ Apart /\ Facing)'
  BY NextTyped, ApartNext, FacingNext
<1> QED BY <1>1, <1>2, PTL DEF Spec

(* A narrowing ends the sessions of nobody the record still authorizes     *)
(* (PLAN.md:622), whatever store accesses fail and however often.          *)
THEOREM NarrowingSparesTheAuthorizedHolds == Spec => NarrowingSparesTheAuthorized
<1> DEFINE Faced == Typed /\ Apart /\ Facing
           Spares == \A c \in Call, s \in Start :
             (At(c, "revoking") /\ RevokeOthers(c) /\ Alone(call[c].account)
                /\ start'[s] # start[s]) =>
               ~Authorized(start[s].user, record[start[s].account].sharing)
<1>1. Faced => Spares
  <2> SUFFICES ASSUME Faced, NEW c \in Call, NEW s \in Start, At(c, "revoking"),
                      RevokeOthers(c), Alone(call[c].account), start'[s] # start[s]
               PROVE  ~Authorized(start[s].user, record[start[s].account].sharing)
    OBVIOUS
  <2> DEFINE k == call[c]
             a == call[c].account
  <2>1. k # Nothing /\ k.stage = "revoking" /\ InProgress(c)
    BY DEF At, InProgress
  <2>2. k.rec = record[a] /\ k.rec.sharing.vis # "public"
    BY <2>1 DEF Facing, Faces
  <2>3. start[s].account = a /\ start[s].user \notin Kept(k)
    BY DEF RevokeOthers, Ended, ActiveOn
  <2> QED BY <2>2, <2>3 DEF Kept, Authorized
<1>2. Faced => [Spares]_vars
  BY <1>1
<1> QED BY <1>2, AlwaysFacing, PTL DEF NarrowingSparesTheAuthorized, Spec

-----------------------------------------------------------------------------
(* All or nothing: an account's presence in the vault, the slot and the    *)
(* reaches, whatever becomes of the fields of its record.                  *)

\* the second delete does not fail, and of the first no second failure is left to put right
Deletable == "unvault" \notin FaultSites /\ (MaxFaults <= 1 \/ "unrecord" \notin FaultSites)

Together(a) == (reach[a] # Nothing <=> record[a] # Nothing) /\ (a \in slot <=> record[a] # Nothing)
Entire(a) == Together(a) /\ Vaulted(a)

\* what a call in progress has made of the presence of its account
Wired(k, a) ==
  /\ k.stage \in Editing => record[a] # Nothing
  /\ k.stage \in Editing \cup {"saving", "getting", "ending"} => Entire(a)
  /\ k.stage = "saving" => record[a] = Nothing
  /\ k.stage = "adding" => record[a] = Nothing /\ Together(a) /\ a \in blob
  /\ k.stage = "attaching" =>
       record[a] # Nothing /\ reach[a] = Nothing /\ a \notin slot /\ a \in blob
  /\ k.stage = "unrecording" =>
       IF k.op = "link" THEN reach[a] = Nothing /\ a \notin slot /\ faults > 0 ELSE Entire(a)
  /\ k.stage = "unvaulting" =>
       record[a] = Nothing /\ (k.op = "link" => reach[a] = Nothing /\ a \notin slot)
  /\ k.stage = "unreaching" => record[a] = Nothing /\ a \notin blob

Wires ==
  \A a \in Account : Alone(a) =>
    /\ Quiet(a) => Entire(a)
    /\ \A c \in Call : InProgress(c) /\ call[c].account = a => Wired(call[c], a)

\* its call is still in progress, or has left the account all in or all out
Leaves(c, a) == IF InProgress(c) THEN Wired(call[c], a) ELSE Entire(a)

LEMMA StaysEntire ==
  ASSUME NEW a, Entire(a), UNCHANGED <<record, blob, reach, slot>>, Cut(a)' <=> Cut(a)
  PROVE  Entire(a)'
BY DEF Entire, Together, Vaulted

LEMMA FaultRaises ==
  ASSUME Typed, Deletable, NEW site, Fails(site)
  PROVE  faults' > 0 /\ (faults > 0 => site # "unrecord")
<1>1. faults \in Nat /\ faults <= MaxFaults /\ MaxFaults \in Nat
  BY ConstantsAssumption DEF Typed, TypeOK
<1> QED BY <1>1 DEF Fails, Deletable

LEMMA LinkWires ==
  ASSUME Typed, Deletable, NEW c \in Call, NEW a \in Account, Wired(call[c], a),
         a = call[c].account, Save(c) \/ Add(c) \/ Attach(c)
  PROVE  Leaves(c, a)'
<1> USE DEF Leaves, InProgress
<1> DEFINE k == call[c]
<1>1. k # Nothing /\ k \in CallState /\ Shape(k) /\ k.stage \in {"saving", "adding", "attaching"}
  BY HandledCall DEF Save, Add, Attach, At
<1>2. k.stage # "lost" /\ k.op = "link" /\ k.rec \in Record /\ k.rec # Nothing /\ k.rec.sharing # Nothing
  BY <1>1, ConstantsAssumption DEF Shape, Record
<1>3. ASSUME NEW stage \in {"adding", "attaching", "unrecording", "done", "failed"}, GoTo(c, stage)
      PROVE  /\ call'[c] # Nothing /\ call'[c].stage = stage
             /\ stage \notin {"done", "failed"} => call'[c].op = "link"
             /\ Cut(a)' <=> Cut(a)
  BY <1>1, <1>2, <1>3, GoToSame DEF Stage, Same
<1>4. CASE Save(c)
  <2>1. k.stage = "saving" /\ record[a] = Nothing /\ Entire(a) /\ UNCHANGED <<record, reach, slot>>
    BY <1>4 DEF Save, At, Wired
  <2>2. CASE blob' = blob \cup {a} /\ GoTo(c, "adding")
    BY <1>3, <2>1, <2>2 DEF Wired, Editing, Entire, Together
  <2>3. CASE UNCHANGED blob /\ GoTo(c, "failed")
    BY <1>3, <2>1, <2>3, StaysEntire
  <2> QED BY <1>4, <2>2, <2>3 DEF Save
<1>5. CASE Add(c)
  <2>1. /\ k.stage = "adding" /\ record[a] = Nothing /\ Together(a) /\ a \in blob
        /\ UNCHANGED <<blob, reach, slot>>
    BY <1>5 DEF Add, At, Wired
  <2>2. CASE record' = [record EXCEPT ![a] = k.rec] /\ GoTo(c, "attaching")
    <3>1. record'[a] = k.rec
      BY <2>2 DEF Typed, TypeOK
    <3> QED BY <1>2, <1>3, <2>1, <2>2, <3>1 DEF Wired, Editing, Together
  <2>3. CASE Fails("add") /\ UNCHANGED record /\ GoTo(c, "unrecording")
    <3>1. faults' > 0
      BY <2>3, FaultRaises
    <3> QED BY <1>3, <2>1, <2>3, <3>1 DEF Wired, Editing, Together
  <2> QED BY <1>5, <2>2, <2>3 DEF Add
<1>6. CASE Attach(c)
  <2>1. /\ k.stage = "attaching" /\ record[a] # Nothing /\ reach[a] = Nothing /\ a \notin slot /\ a \in blob
        /\ UNCHANGED <<record, blob>>
    BY <1>6 DEF Attach, At, Wired
  <2>2. CASE GoTo(c, "done") /\ slot' = slot \cup {a} /\ reach' = [reach EXCEPT ![a] = k.rec.sharing]
    <3>1. reach'[a] = k.rec.sharing
      BY <2>2 DEF Typed, TypeOK
    <3> QED BY <1>2, <1>3, <2>1, <2>2, <3>1 DEF Entire, Together, Vaulted
  <2>3. CASE Fails("attach") /\ UNCHANGED live /\ GoTo(c, "unrecording")
    <3>1. faults' > 0
      BY <2>3, FaultRaises
    <3> QED BY <1>3, <2>1, <2>3, <3>1 DEF Wired, Editing
  <2> QED BY <1>6, <2>2, <2>3 DEF Attach
<1> QED BY <1>4, <1>5, <1>6

LEMMA DeleteWires ==
  ASSUME Typed, Deletable, NEW c \in Call, NEW a \in Account, Wired(call[c], a),
         a = call[c].account, Unrecord(c) \/ Unvault(c) \/ Unreach(c) \/ EndAll(c)
  PROVE  Leaves(c, a)'
<1> USE DEF Leaves, InProgress
<1> DEFINE k == call[c]
<1>1. k # Nothing /\ k \in CallState /\ k.stage \in {"unrecording", "unvaulting", "unreaching", "ending"}
  BY HandledCall DEF Unrecord, Unvault, Unreach, EndAll, At
<1>2. ASSUME NEW stage \in {"unvaulting", "unreaching", "ending", "done", "failed"}, GoTo(c, stage)
      PROVE  /\ call'[c] # Nothing /\ call'[c].stage = stage
             /\ stage \notin {"done", "failed"} => call'[c].op = k.op
             /\ Cut(a)' <=> Cut(a)
  BY <1>1, <1>2, GoToSame DEF Stage, Same
<1>3. CASE Unrecord(c)
  <2>1. /\ k.stage = "unrecording" /\ UNCHANGED <<blob, reach, slot>>
        /\ IF k.op = "link" THEN reach[a] = Nothing /\ a \notin slot /\ faults > 0 ELSE Entire(a)
    BY <1>3 DEF Unrecord, At, Wired
  <2>2. CASE record' = [record EXCEPT ![a] = Nothing] /\ GoTo(c, "unvaulting")
    <3>1. record'[a] = Nothing
      BY <2>2 DEF Typed, TypeOK
    <3> QED BY <1>2, <2>1, <2>2, <3>1 DEF Wired, Editing
  <2>3. CASE Fails("unrecord") /\ UNCHANGED record /\ GoTo(c, "failed")
    <3>1. k.op # "link"
      BY <2>1, <2>3, FaultRaises
    <3> QED BY <1>2, <2>1, <2>3, <3>1, StaysEntire
  <2> QED BY <1>3, <2>2, <2>3 DEF Unrecord
<1>4. CASE Unvault(c)
  <2>1. /\ k.stage = "unvaulting" /\ UNCHANGED <<record, reach, slot>> /\ record[a] = Nothing
        /\ k.op = "link" => reach[a] = Nothing /\ a \notin slot
    BY <1>4 DEF Unvault, At, Wired
  <2>2. blob' = blob \ {a} /\ GoTo(c, IF k.op = "link" THEN "failed" ELSE "unreaching")
    BY <1>4 DEF Unvault, Fails, Deletable
  <2>3. CASE k.op = "link"
    BY <1>2, <2>1, <2>2, <2>3 DEF Entire, Together, Vaulted
  <2>4. CASE k.op # "link"
    BY <1>2, <2>1, <2>2, <2>4 DEF Wired, Editing
  <2> QED BY <2>3, <2>4
<1>5. CASE Unreach(c)
  <2>1. k.stage = "unreaching" /\ UNCHANGED <<record, blob>> /\ record[a] = Nothing /\ a \notin blob
    BY <1>5 DEF Unreach, At, Wired
  <2>2. GoTo(c, "ending") /\ slot' = slot \ {a} /\ reach'[a] = Nothing
    BY <1>5 DEF Unreach, Typed, TypeOK
  <2> QED BY <1>2, <2>1, <2>2 DEF Wired, Editing, Entire, Together, Vaulted
<1>6. CASE EndAll(c)
  <2>1. UNCHANGED <<record, blob, reach, slot>> /\ GoTo(c, "done") /\ Entire(a)
    BY <1>6 DEF EndAll, At, Wired
  <2> QED BY <1>2, <2>1, StaysEntire
<1> QED BY <1>3, <1>4, <1>5, <1>6

LEMMA GetWires ==
  ASSUME Typed, NEW c \in Call, NEW a \in Account, Wired(call[c], a), a = call[c].account, Get(c)
  PROVE  Leaves(c, a)'
<1> USE DEF Leaves, InProgress
<1> DEFINE k == call[c]
<1>1. /\ k # Nothing /\ k \in CallState /\ k.stage = "getting" /\ Entire(a)
      /\ UNCHANGED <<record, blob, reach, slot, faults>>
  BY HandledCall DEF Get, At, Wired
<1>2. ASSUME call'[c].stage # "lost" PROVE Entire(a)'
  BY <1>1, <1>2, GoingMoves, CutKept, StaysEntire DEF Going
<1>3. ASSUME NEW stage \in {"failed", "unrecording"}, GoTo(c, stage)
      PROVE  /\ call'[c] # Nothing /\ call'[c].stage = stage
             /\ stage = "unrecording" => call'[c].op = k.op
  BY <1>1, <1>3, GoToSame DEF Stage, Same
<1>4. CASE record[a] = Nothing
  <2>1. GoTo(c, "failed")
    BY <1>4 DEF Get
  <2> QED BY <1>2, <1>3, <2>1
<1>5. CASE record[a] # Nothing /\ k.op = "remove"
  <2>1. GoTo(c, "unrecording")
    BY <1>5 DEF Get
  <2> QED BY <1>2, <1>3, <1>5, <2>1 DEF Wired, Editing
<1>6. CASE record[a] # Nothing /\ k.op # "remove"
  <2> DEFINE q == [k EXCEPT !.old = record[a], !.todo = Plan(k.req)]
  <2>1. q \in CallState
    BY <1>1 DEF CallState, Plan, Typed, TypeOK
  <2>2. call' = [call EXCEPT ![c] = Proceed(q)]
    BY <1>6 DEF Get
  <2> HIDE DEF q
  <2>3. call'[c] = Proceed(q)
    BY <2>2 DEF Typed, TypeOK
  <2>4. call'[c].stage \in {"reading", "failed", "rereading"}
    BY <2>1, <2>3, ProceedKeeps
  <2> QED BY <1>1, <1>2, <1>6, <2>4 DEF Wired, Editing
<1> QED BY <1>4, <1>5, <1>6

(* An edit, however it fails, makes nothing of an account appear or go.    *)
LEMMA EditWires ==
  ASSUME Typed, NEW c \in Call, NEW a \in Account, Wired(call[c], a), a = call[c].account,
         Read(c) \/ WriteBack(c) \/ Reread(c) \/ Swap(c) \/ RevokeOthers(c) \/ ApplyCap(c)
  PROVE  Leaves(c, a)'
<1> DEFINE k == call[c]
<1>1. k # Nothing /\ k \in CallState /\ Shape(k) /\ k.stage \in Editing
  BY HandledCall DEF Read, WriteBack, Reread, Swap, RevokeOthers, ApplyCap, At, Editing
<1>2. record[a] # Nothing /\ Entire(a)
  BY <1>1 DEF Wired
<1>3. call'[c].stage \in Editing \cup {"done", "failed"} /\ Moves(c)
  BY EditLeads, GoingMoves DEF Going
<1>4. Cut(a)' <=> Cut(a)
  BY <1>1, <1>3, CutKept DEF Editing
<1>5. UNCHANGED <<blob, slot>>
  BY DEF Read, WriteBack, Reread, Swap, RevokeOthers, ApplyCap
<1>6. record'[a] # Nothing
  <2>1. CASE WriteBack(c)
    <3>1. /\ k.rec \in Record /\ k.req \in Request /\ k.old \in Record
          /\ k.todo \in SUBSET Field /\ k.todo # {}
          /\ ~k.undo => \A g \in k.todo : k.req[g] # Unset
      BY <1>1, <2>1 DEF WriteBack, At, Shape, CallState
    <3> DEFINE f == First(k.todo)
               value == IF k.undo THEN k.old[f] ELSE k.req[f]
    <3>2. record' = record \/ record' = [record EXCEPT ![a] = [k.rec EXCEPT ![f] = value]]
      BY <2>1 DEF WriteBack
    <3>3. f \in k.todo /\ f \in Field
      BY <3>1, FirstIsIn
    <3>4. /\ f = "sharing" => value \in Sharing
          /\ f = "cap" => value \in Caps
          /\ f = "policy" => value \in Policy
      <4>1. CASE k.undo
        BY <3>1, <3>3, <4>1, FieldOfRecord
      <4>2. CASE ~k.undo
        BY <3>1, <3>3, <4>2, FieldOfRequest
      <4> QED BY <4>1, <4>2
    <3> HIDE DEF f, value
    <3>5. [k.rec EXCEPT ![f] = value] \in Record
      BY <3>1, <3>3, <3>4, FieldSet
    <3> DEFINE r == [k.rec EXCEPT ![f] = value]
    <3>6. r # Nothing /\ (record' = record \/ record' = [record EXCEPT ![a] = r])
      BY <3>2, <3>5, ConstantsAssumption
    <3> HIDE DEF r
    <3> QED BY <1>2, <3>6 DEF Typed, TypeOK
  <2>2. CASE ~WriteBack(c)
    BY <1>2, <2>2 DEF Read, Reread, Swap, RevokeOthers, ApplyCap
  <2> QED BY <2>1, <2>2
<1>7. reach'[a] # Nothing
  <2>1. reach[a] # Nothing
    BY <1>2 DEF Entire, Together
  <2>2. CASE Swap(c)
    <3>1. k.rec.sharing \in Sharing
      BY <1>1, <2>2 DEF Shape, Swap, At, Record
    <3>2. reach'[a] = k.rec.sharing
      BY <2>1, <2>2 DEF Swap, Typed, TypeOK
    <3> QED BY <3>1, <3>2, ConstantsAssumption
  <2>3. CASE ~Swap(c)
    BY <2>1, <2>3 DEF Read, WriteBack, Reread, RevokeOthers, ApplyCap
  <2> QED BY <2>2, <2>3
<1>8. Entire(a)'
  BY <1>2, <1>4, <1>5, <1>6, <1>7 DEF Entire, Together, Vaulted
<1>9. Wired(call[c], a)'
  BY <1>3, <1>6, <1>8 DEF Wired, Editing
<1> QED BY <1>8, <1>9 DEF Leaves

LEMMA WiredElsewhere ==
  ASSUME NEW a, NEW d \in Call, call'[d] = call[d], Wired(call[d], a),
         record'[a] = record[a], reach'[a] = reach[a],
         a \in slot' <=> a \in slot, a \in blob' <=> a \in blob, Cut(a)' <=> Cut(a),
         faults \in Nat, faults' \in Nat, faults <= faults'
  PROVE  Wired(call[d], a)'
<1>1. (Entire(a)' <=> Entire(a)) /\ (Together(a)' <=> Together(a))
  BY DEF Entire, Together, Vaulted
<1>2. faults > 0 => faults' > 0
  OBVIOUS
<1> QED BY <1>1, <1>2 DEF Wired

LEMMA WiresGoing ==
  ASSUME Typed, Deletable, Apart, Wires, NEW c \in Call, Going(c)
  PROVE  Wires'
<1>1. /\ InProgress(c) /\ call[c] \in CallState /\ call[c].account \in Account
      /\ contended' = contended /\ faults \in Nat /\ faults' \in Nat /\ faults <= faults'
      /\ Moves(c)
  BY GoingOn, GoingMoves
<1>2. ASSUME NEW d \in Call, InProgress(d)'
      PROVE  InProgress(d) /\ call'[d].account = call[d].account
  BY <1>1, <1>2 DEF InProgress, Moves
<1>3. ASSUME NEW a \in Account, Alone(a)', a # call[c].account
      PROVE  /\ Quiet(a)' => Entire(a)'
             /\ \A d \in Call : InProgress(d)' /\ call'[d].account = a => Wired(call[d], a)'
  <2>1. Alone(a)
    BY <1>1, <1>3 DEF Alone
  <2>2. Quiet(a)' => Quiet(a)
    <3>1. ASSUME NEW d \in Call, InProgress(d), call[d].account = a
          PROVE  InProgress(d)' /\ call'[d].account = a
      BY <1>1, <1>3, <3>1 DEF InProgress, Moves
    <3> QED BY <3>1 DEF Quiet
  <2>3. /\ record'[a] = record[a] /\ reach'[a] = reach[a]
        /\ a \in slot' <=> a \in slot
        /\ a \in blob' <=> a \in blob
        /\ Cut(a)' <=> Cut(a)
    BY <1>3, GoingStaysPut
  <2>4. Entire(a)' <=> Entire(a)
    BY <2>3 DEF Entire, Together, Vaulted
  <2>5. ASSUME NEW d \in Call, InProgress(d)', call'[d].account = a PROVE Wired(call[d], a)'
    <3>1. InProgress(d) /\ call[d].account = a
      BY <1>2, <2>5
    <3>2. d # c /\ call'[d] = call[d]
      BY <1>1, <1>3, <3>1 DEF Moves
    <3>3. Wired(call[d], a)
      BY <2>1, <3>1 DEF Wires
    <3> QED BY <1>1, <2>3, <3>2, <3>3, WiredElsewhere
  <2> QED BY <2>1, <2>2, <2>4, <2>5 DEF Wires
<1>4. ASSUME NEW a \in Account, Alone(a)', a = call[c].account
      PROVE  /\ Quiet(a)' => Entire(a)'
             /\ \A d \in Call : InProgress(d)' /\ call'[d].account = a => Wired(call[d], a)'
  <2>1. Alone(a)
    BY <1>1, <1>4 DEF Alone
  <2>2. Wired(call[c], a)
    BY <1>1, <1>4, <2>1 DEF Wires
  <2>3. Leaves(c, a)'
    BY <1>4, <2>2, LinkWires, DeleteWires, GetWires, EditWires DEF Going
  <2>4. Quiet(a)' => Entire(a)'
    <3>1. call'[c].account = a
      BY <1>1, <1>4 DEF Moves
    <3> QED BY <2>3, <3>1 DEF Quiet, Leaves
  <2>5. ASSUME NEW d \in Call, InProgress(d)', call'[d].account = a PROVE Wired(call[d], a)'
    <3>1. d = c
      BY <1>1, <1>2, <1>4, <2>1, <2>5 DEF Apart, Alone
    <3> QED BY <2>3, <2>5, <3>1 DEF Leaves
  <2> QED BY <2>4, <2>5
<1> QED BY <1>3, <1>4 DEF Wires

LEMMA WiresBegin ==
  ASSUME Typed, Apart, Wires, NEW c \in Call, NEW op \in {"link", "update", "remove"},
         NEW a \in Account, NEW stage \in {"saving", "getting"},
         NEW req \in Request \cup {Nothing}, NEW rec \in Record \cup {Nothing},
         stage = "saving" => record[a] = Nothing, Begin(c, op, a, stage, req, rec)
  PROVE  Wires'
<1>1. /\ call[c] = Nothing /\ UNCHANGED <<record, blob, slot, reach, faults>>
      /\ contended \subseteq contended'
      /\ (\E d \in Call : InProgress(d) /\ call[d].account = a) => a \in contended'
      /\ \A d \in Call \ {c} : call'[d] = call[d]
      /\ call'[c].account = a /\ call'[c].stage = stage
  BY DEF Begin, Typed, TypeOK
<1>2. \A d \in Call \ {c} : InProgress(d)' <=> InProgress(d)
  BY <1>1 DEF InProgress
<1>3. ~InProgress(c)
  BY <1>1 DEF InProgress
<1>4. call'[c] # Nothing /\ InProgress(c)'
  <2>1. call'[c] = [op |-> op, stage |-> stage, account |-> a, req |-> req, old |-> Nothing,
                    rec |-> rec, todo |-> {}, undo |-> FALSE]
    BY DEF Begin, Typed, TypeOK
  <2>2. call'[c] \in CallState
    BY <2>1 DEF CallState, Stage
  <2> QED BY <1>1, <2>2, ConstantsAssumption DEF InProgress
<1>5. \A b \in Account : Cut(b)' <=> Cut(b)
  BY <1>1 DEF Cut
<1>6. \A b \in Account : Entire(b)' <=> Entire(b)
  BY <1>1, <1>5 DEF Entire, Together, Vaulted
<1>7. faults \in Nat /\ faults' = faults
  BY <1>1, ConstantsAssumption DEF Typed, TypeOK
<1>8. ASSUME NEW b \in Account, Alone(b)'
      PROVE  /\ Quiet(b)' => Entire(b)'
             /\ \A d \in Call : InProgress(d)' /\ call'[d].account = b => Wired(call[d], b)'
  <2>1. Alone(b)
    BY <1>1, <1>8 DEF Alone
  <2>2. Quiet(b)' => Entire(b)'
    <3>1. Quiet(b)' => Quiet(b)
      BY <1>1, <1>2, <1>3 DEF Quiet
    <3> QED BY <1>6, <2>1, <3>1 DEF Wires
  <2>3. ASSUME NEW d \in Call \ {c}, InProgress(d)', call'[d].account = b
        PROVE  Wired(call[d], b)'
    <3>1. InProgress(d) /\ call[d].account = b /\ call'[d] = call[d]
      BY <1>1, <1>2, <2>3
    <3>2. Wired(call[d], b)
      BY <2>1, <3>1 DEF Wires
    <3>3. /\ record'[b] = record[b] /\ reach'[b] = reach[b]
          /\ b \in slot' <=> b \in slot
          /\ b \in blob' <=> b \in blob
      BY <1>1
    <3>4. (Cut(b)' <=> Cut(b)) /\ faults \in Nat /\ faults' \in Nat /\ faults <= faults'
      BY <1>5, <1>7
    <3> QED BY <3>1, <3>2, <3>3, <3>4, WiredElsewhere
  <2>4. ASSUME b = a PROVE Wired(call[c], b)'
    <3>1. Quiet(a)
      BY <1>1, <1>8, <2>4 DEF Quiet, Alone
    <3>2. Entire(a)'
      BY <1>6, <2>1, <2>4, <3>1 DEF Wires
    <3> QED BY <1>1, <2>4, <3>2 DEF Wired, Editing
  <2> QED BY <1>1, <2>2, <2>3, <2>4
<1> QED BY <1>8 DEF Wires

LEMMA WiresRestart ==
  ASSUME Typed, Wires, Restart
  PROVE  Wires'
<1>1. ASSUME NEW a \in Account, Alone(a)' PROVE Entire(a)'
  <2>1. Alone(a) /\ record' = record /\ blob' = blob
    BY <1>1 DEF Restart, Alone
  <2>2. Together(a)'
    <3>1. record[a] # Nothing => record[a].sharing # Nothing
      BY ConstantsAssumption DEF Typed, TypeOK, Record
    <3> QED BY <2>1, <3>1 DEF Restart, Together
  <2>3. CASE Quiet(a)
    <3>1. Vaulted(a)
      BY <2>1, <2>3 DEF Wires, Entire
    <3>2. Cut(a) => Cut(a)'
      BY RestartEnds DEF Cut, InProgress
    <3> QED BY <2>1, <2>2, <3>1, <3>2 DEF Entire, Vaulted
  <2>4. CASE ~Quiet(a)
    <3>1. Cut(a)'
      BY <2>4, RestartEnds DEF Quiet, Cut
    <3> QED BY <2>2, <3>1 DEF Entire, Vaulted
  <2> QED BY <2>3, <2>4
<1> QED BY <1>1, RestartEnds DEF Wires

LEMMA WiresStill ==
  ASSUME Typed, Wires, UNCHANGED <<stores, live, call, faults, contended>>
  PROVE  Wires'
<1>1. \A a \in Account : /\ (Cut(a)' <=> Cut(a)) /\ (Quiet(a)' <=> Quiet(a)) /\ (Alone(a)' <=> Alone(a))
  BY DEF Cut, Quiet, Alone, InProgress
<1>2. \A a \in Account : Entire(a)' <=> Entire(a)
  BY <1>1 DEF Entire, Together, Vaulted
<1>3. ASSUME NEW a \in Account, Alone(a), NEW d \in Call, InProgress(d), call[d].account = a
      PROVE  Wired(call[d], a)'
  <2>1. Wired(call[d], a)
    BY <1>3 DEF Wires
  <2>2. /\ call'[d] = call[d] /\ record'[a] = record[a] /\ reach'[a] = reach[a]
        /\ a \in slot' <=> a \in slot
        /\ a \in blob' <=> a \in blob
    OBVIOUS
  <2>3. (Cut(a)' <=> Cut(a)) /\ faults \in Nat /\ faults' = faults
    BY <1>1, ConstantsAssumption DEF Typed, TypeOK
  <2> QED BY <2>1, <2>2, <2>3, WiredElsewhere
<1>4. \A d \in Call : (InProgress(d)' <=> InProgress(d)) /\ call'[d] = call[d]
  BY DEF InProgress
<1> QED BY <1>1, <1>2, <1>3, <1>4 DEF Wires

LEMMA WiresNext ==
  ASSUME Typed, Deletable, Apart, Wires, [Next]_vars
  PROVE  Wires'
<1>1. ASSUME NEW c \in Call, NEW a \in Account,
             (\E rec \in Links : LinkAccount(c, a, rec)) \/ RemoveAccount(c, a)
                \/ (\E req \in Edits : UpdateAccount(c, a, req))
      PROVE  Wires'
  <2>1. Links \subseteq Record /\ Edits \subseteq Request
    BY ConstantsAssumption DEF Record, Policy
  <2> QED BY <1>1, <2>1, WiresBegin DEF LinkAccount, RemoveAccount, UpdateAccount
<1>2. CASE (\E s \in Start, u \in User, a \in Account : Check(s, u, a))
             \/ (\E s \in Start : Admit(s)) \/ UNCHANGED vars
  <2>1. UNCHANGED <<stores, live, call, faults, contended>>
    BY <1>2 DEF Check, Admit, vars
  <2> QED BY <2>1, WiresStill
<1> QED BY <1>1, <1>2, WiresGoing, WiresRestart DEF Next, CallStep, Going

LEMMA AlwaysWired ==
  ASSUME Deletable
  PROVE  Spec => [](Typed /\ Apart /\ Wires)
<1>1. Init => Typed /\ Apart /\ Wires
  <2> SUFFICES ASSUME Init PROVE Typed /\ Apart /\ Wires
    OBVIOUS
  <2>1. Typed /\ \A c \in Call : ~InProgress(c)
    BY TypedInit DEF Init, InProgress
  <2>2. \A a \in Account : record[a] # Nothing => record[a].sharing # Nothing
    BY <2>1, ConstantsAssumption DEF Typed, TypeOK, Record
  <2>3. \A a \in Account : Entire(a)
    BY <2>2 DEF Init, Entire, Together, Vaulted
  <2> QED BY <2>1, <2>3 DEF Apart, Wires
<1>2. Typed /\ Apart /\ Wires /\ [Next]_vars => (Typed /\ Apart /\ Wires)'
  BY NextTyped, ApartNext, WiresNext
<1> QED BY <1>1, <1>2, PTL DEF Spec

(* Linking and removing are all or nothing: after calls that returned, an  *)
(* account is in the vault, the slot and the reaches, or in none of them - *)
(* however often the stores of an edit fail, and a link or a removal but   *)
(* for its own deletes.                                                    *)
THEOREM AllOrNothingHolds ==
  ASSUME Deletable
  PROVE  Spec => []AllOrNothing
<1>1. ASSUME Wires, NEW a \in Account, Alone(a),
             \A c \in Call : call[c] # Nothing /\ call[c].account = a =>
                               call[c].stage \in {"done", "failed"}
      PROVE  \/ record[a] # Nothing /\ reach[a] # Nothing /\ a \in blob \cap slot
             \/ record[a] = Nothing /\ reach[a] = Nothing /\ a \notin blob \cup slot
  <2>1. Quiet(a) /\ ~Cut(a)
    BY <1>1 DEF Quiet, InProgress, Cut
  <2>2. Entire(a)
    BY <1>1, <2>1 DEF Wires
  <2> QED BY <2>1, <2>2 DEF Entire, Together, Vaulted
<1>2. Wires => AllOrNothing
  BY <1>1 DEF AllOrNothing
<1> QED BY <1>2, AlwaysWired, PTL
=============================================================================
