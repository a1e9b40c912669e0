------------------------------ MODULE EventBus ------------------------------
(***************************************************************************)
(* The in-memory event bus of the API (core/internal/apiserver/bus.go) and *)
(* the handler that streams a subscription to a client (Subscribe in       *)
(* apiserver/server.go).                                                   *)
(*                                                                         *)
(* A subscription is registered under the stream that opened it, with the  *)
(* user the stream was authenticated for.  Publish offers an event to the  *)
(* registered subscribers its audience entitles and skips those whose      *)
(* buffer is full; the events are not told apart, so a buffer is the       *)
(* number of events in it.  Whom an event entitles is decided by the reach *)
(* of its account at that moment (module AccountSharing) or by the user it *)
(* names: here any set of users.                                           *)
(***************************************************************************)
EXTENDS Naturals

CONSTANTS
  Conn,     \* the client connections, one call at a time each
  Name,     \* the users
  None,     \* no value
  Capacity  \* events a subscription buffers

Channel == [open : BOOLEAN, buffered : 0..Capacity]

ASSUME BusAssumption ==
  /\ Capacity \in Nat \ {0}
  /\ None \notin Name /\ None \notin Channel

VARIABLES
  registered,  \* for each connection: the user its subscription stands for
  channel,     \* for each connection: the channel its handler reads
  gone         \* connections whose client hung up

busVars == <<registered, channel, gone>>

BusTypeOK ==
  /\ registered \in [Conn -> Name \cup {None}]
  /\ channel \in [Conn -> Channel \cup {None}]
  /\ gone \subseteq Conn

BusInit ==
  /\ registered = [c \in Conn |-> None]
  /\ channel = [c \in Conn |-> None]
  /\ gone = {}

(* Subscribe: a fresh channel under a fresh id. *)
Register(c, n) ==
  /\ registered' = [registered EXCEPT ![c] = n]
  /\ channel' = [channel EXCEPT ![c] = [open |-> TRUE, buffered |-> 0]]
  /\ UNCHANGED gone

(* What an offered event makes of a channel: a full buffer misses it. *)
Offered(ch) ==
  [ch EXCEPT !.buffered = IF @ < Capacity THEN @ + 1 ELSE @]

(* Publish, to the subscribers among the users it entitles. *)
Publish(entitled) ==
  /\ channel' = [c \in Conn |->
       IF registered[c] \in entitled THEN Offered(channel[c]) ELSE channel[c]]
  /\ UNCHANGED <<registered, gone>>

(* The handler takes an event from the channel and sends it. *)
Send(c) ==
  /\ channel[c] # None /\ channel[c].buffered > 0
  /\ channel' = [channel EXCEPT ![c].buffered = @ - 1]
  /\ UNCHANGED <<registered, gone>>

(* The client disconnects: the stream's context is done. *)
HangUp(c) ==
  /\ channel[c] # None /\ c \notin gone
  /\ gone' = gone \cup {c}
  /\ UNCHANGED <<registered, channel>>

(* The handler's loop ends: its context is done, or its channel is closed  *)
(* and drained.                                                            *)
LoopEnds(c) ==
  \/ c \in gone
  \/ ~channel[c].open /\ channel[c].buffered = 0

(* a slip: the channel is closed and its subscription stays listed *)
BugUnlisted(c) == registered[c]

(* Unsubscribe closes the channel and takes the entry out of the table. *)
Unlisted(c) == None

(* The deferred Unsubscribe; one that Close went before finds no entry. *)
Unsubscribe(c) ==
  /\ registered' = [registered EXCEPT ![c] = Unlisted(c)]
  /\ channel' = [channel EXCEPT ![c] = None]
  /\ gone' = gone \ {c}

(* Close: every channel is closed, every entry dropped; the handlers find  *)
(* their channel closed once it is drained.                                *)
Close ==
  /\ \E c \in Conn : registered[c] # None
  /\ registered' = [c \in Conn |-> IF registered[c] = None THEN None ELSE Unlisted(c)]
  /\ channel' = [c \in Conn |->
       IF registered[c] = None THEN channel[c] ELSE [channel[c] EXCEPT !.open = FALSE]]
  /\ UNCHANGED gone
=============================================================================
