-------------------------------- MODULE Relay --------------------------------
(***************************************************************************)
(* The webhook relay of one engine replica: a client on a developer's      *)
(* machine shows the signing secret of an endpoint on localhost and        *)
(* receives what is published on the endpoint's Redis channel, for as long *)
(* as its stream is open.  The replica keeps, per channel, a set of        *)
(* streams and one subscription for all of them.                           *)
(*                                                                         *)
(* Abstractions.  One endpoint, hence one channel.  A secret is the number *)
(* of the roll that made it.  Each step of a handler between two awaits is *)
(* one step here; the closing of a socket and the callback that handles it *)
(* are one, nothing else runs in between.  Time counts days.               *)
(***************************************************************************)
EXTENDS Naturals, FiniteSets

CONSTANTS Listeners,     \* clients of the relay
          MaxSaves,      \* bound: changes of the endpoint
          LastDay,       \* bound: days
          MaxRelayTroubles  \* bound: failures of Redis and of writes

ASSUME RelayBounds ==
  IsFiniteSet(Listeners) /\ {MaxSaves, LastDay, MaxRelayTroubles} \subseteq Nat

VARIABLES
  endpointRow,    \* the endpoint
  stopped,        \* history: the day each secret was last good for a stream
  authCache,      \* relay:auth:<hash>: the day an entry was written
  listener,       \* the request or the stream of each client
  channel,        \* the set that `listeners` has for the channel, 0 for none
  members,        \* the streams in each set
  subscribed,
  today, endpointSaves, relayTroubles

relayVars == <<endpointRow, stopped, authCache, listener, channel, members, subscribed,
               today, endpointSaves, relayTroubles>>

RolledSecrets == 1..(MaxSaves + 1)
Sets == 1..(Cardinality(Listeners) + 1)
NotCached == LastDay + 1

Disconnected == [step |-> "off", secret |-> 0, set |-> 0, alive |-> FALSE, stale |-> 0]

RelayInit ==
  /\ endpointRow = [there |-> TRUE, active |-> TRUE, local |-> TRUE, secret |-> 1]
  /\ stopped = [k \in RolledSecrets |-> 0]
  /\ authCache = [k \in RolledSecrets |-> NotCached]
  /\ listener = [c \in Listeners |-> Disconnected]
  /\ channel = 0
  /\ members = [i \in Sets |-> {}]
  /\ subscribed = FALSE
  /\ today = 0 /\ endpointSaves = 0 /\ relayTroubles = 0

Good(k) == endpointRow.there /\ endpointRow.active /\ endpointRow.local /\ endpointRow.secret = k
\* The days since a secret was last good.
StaleDays(k) == IF Good(k) THEN 0 ELSE today - stopped[k]

RelayTrouble == relayTroubles < MaxRelayTroubles /\ relayTroubles' = relayTroubles + 1
Advance(c, step) == listener' = [listener EXCEPT ![c].step = step]
registry == <<channel, members, subscribed>>
dayAndSaves == <<today, endpointSaves>>
-----------------------------------------------------------------------------
(* The dashboard changes the endpoint; nothing of the relay hears of it *)

SaveRow ==
  /\ endpointRow.there /\ endpointSaves < MaxSaves
  /\ endpointSaves' = endpointSaves + 1
  /\ endpointRow' \in {[endpointRow EXCEPT !.active = ~@], [endpointRow EXCEPT !.local = ~@],
               [endpointRow EXCEPT !.secret = @ + 1], [endpointRow EXCEPT !.there = FALSE]}
  /\ stopped' = [stopped EXCEPT ![endpointRow.secret] = IF Good(endpointRow.secret) THEN today ELSE @]
  /\ UNCHANGED <<authCache, listener, registry, today, relayTroubles>>
-----------------------------------------------------------------------------
(* listen: a client asks for a stream *)

\* The cache is asked first; it may fail, which counts as a miss.
AskForStream(c, k) ==
  /\ listener[c].step = "off"
  /\ k <= endpointRow.secret
  /\ \/ UNCHANGED relayTroubles /\ listener' = [listener EXCEPT ![c] =
          [Disconnected EXCEPT !.step = IF authCache[k] = NotCached THEN "lookup" ELSE "admitted",
                               !.secret = k, !.alive = TRUE]]
     \/ RelayTrouble /\ listener' = [listener EXCEPT ![c] =
          [Disconnected EXCEPT !.step = "lookup", !.secret = k, !.alive = TRUE]]
  /\ UNCHANGED <<endpointRow, stopped, authCache, registry, dayAndSaves>>

\* The active endpoints on localhost are compared with the secret.
LookUp(c) ==
  /\ listener[c].step = "lookup"
  /\ listener' = [listener EXCEPT ![c] =
       IF Good(listener[c].secret) THEN [@ EXCEPT !.step = "store"] ELSE Disconnected]
  /\ UNCHANGED <<endpointRow, stopped, authCache, registry, dayAndSaves, relayTroubles>>

\* SET EX 86400; a failure is caught and the client admitted all the same.
StoreAuth(c) ==
  /\ listener[c].step = "store"
  /\ Advance(c, "admitted")
  /\ \/ authCache' = [authCache EXCEPT ![listener[c].secret] = today] /\ UNCHANGED relayTroubles
     \/ RelayTrouble /\ UNCHANGED authCache
  /\ UNCHANGED <<endpointRow, stopped, registry, dayAndSaves>>

\* A set no stream and no map refers to.
FreshSet == CHOOSE i \in Sets : i # channel /\ \A c \in Listeners : listener[c].set # i

\* The stream joins the set of the channel, its first member subscribes.  A
\* client that left meanwhile joins as well: its 'close' came before the handler.
JoinChannel(c) ==
  LET set == IF channel = 0 THEN FreshSet ELSE channel
      joined == (IF channel = 0 THEN {} ELSE members[set]) \cup {c}
  IN
  /\ listener[c].step = "admitted"
  /\ listener' = [listener EXCEPT ![c].step = "open", ![c].set = set,
                                  ![c].stale = StaleDays(listener[c].secret)]
  /\ channel' = set
  /\ members' = [members EXCEPT ![set] = joined]
  /\ IF joined = {c}
       THEN \/ subscribed' = TRUE /\ UNCHANGED relayTroubles
            \/ RelayTrouble /\ UNCHANGED subscribed
       ELSE UNCHANGED <<subscribed, relayTroubles>>
  /\ UNCHANGED <<endpointRow, stopped, authCache, dayAndSaves>>

-----------------------------------------------------------------------------
(* Streams end *)

\* Mutant: the first stream to end takes the subscription with it.
LeaveAndUnsubscribe(c) ==
  /\ listener[c].alive /\ listener[c].step = "open"
  /\ members' = [members EXCEPT ![listener[c].set] = @ \ {c}]
  /\ channel' = 0 /\ subscribed' = FALSE
  /\ listener' = [listener EXCEPT ![c] = Disconnected]
  /\ UNCHANGED <<endpointRow, stopped, authCache, dayAndSaves, relayTroubles>>

\* cleanup, of the set the stream joined: the last one closes the channel.
LeaveStream(c) ==
  /\ listener[c].alive /\ listener[c].step = "open"
  /\ members' = [members EXCEPT ![listener[c].set] = @ \ {c}]
  /\ IF members'[listener[c].set] = {}
       THEN channel' = 0 /\ subscribed' = FALSE
       ELSE UNCHANGED <<channel, subscribed>>
  /\ listener' = [listener EXCEPT ![c] = Disconnected]
  /\ UNCHANGED <<endpointRow, stopped, authCache, dayAndSaves, relayTroubles>>

\* A client leaves before its stream is open: nobody listens for that yet.
LeaveEarly(c) ==
  /\ listener[c].alive /\ listener[c].step \in {"lookup", "store", "admitted"}
  /\ listener' = [listener EXCEPT ![c].alive = FALSE]
  /\ UNCHANGED <<endpointRow, stopped, authCache, registry, dayAndSaves, relayTroubles>>

\* Both the handler of a message and the heartbeat drop the streams that are dead.
DropDead(set) ==
  /\ members' = [members EXCEPT ![set] = {c \in @ : listener[c].alive}]
  /\ listener' = [c \in Listeners |->
       IF c \in members[set] /\ ~listener[c].alive THEN Disconnected ELSE listener[c]]

RelayMessage ==
  /\ subscribed /\ channel # 0 /\ members[channel] # {}
  /\ DropDead(channel)
  /\ UNCHANGED <<endpointRow, stopped, authCache, channel, subscribed, dayAndSaves, relayTroubles>>

Heartbeat ==
  /\ channel # 0
  /\ DropDead(channel)
  /\ IF members'[channel] = {}
       THEN channel' = 0 /\ subscribed' = FALSE
       ELSE UNCHANGED <<channel, subscribed>>
  /\ UNCHANGED <<endpointRow, stopped, authCache, dayAndSaves, relayTroubles>>

\* A write that throws takes the stream out of its set; the socket stays open.
WriteThrows(c) ==
  /\ RelayTrouble
  /\ channel # 0 /\ c \in members[channel] /\ listener[c].alive
  /\ members' = [members EXCEPT ![channel] = @ \ {c}]
  /\ UNCHANGED <<endpointRow, stopped, authCache, listener, channel, subscribed, dayAndSaves>>

\* The replica stops, all streams end, and another takes its place.
RestartRelay ==
  /\ listener' = [c \in Listeners |-> Disconnected]
  /\ channel' = 0 /\ subscribed' = FALSE
  /\ members' = [i \in Sets |-> {}]
  /\ UNCHANGED <<endpointRow, stopped, authCache, dayAndSaves, relayTroubles>>

\* Mutant: the entries of the cache never expire.
NextDayKeepsAll ==
  /\ today < LastDay /\ today' = today + 1
  /\ UNCHANGED <<endpointRow, stopped, authCache, listener, registry, endpointSaves, relayTroubles>>

\* No request is in flight at midnight.  An entry lives a day: it may be gone on the
\* day after it was written and is gone on the one after that.
NextDay ==
  /\ today < LastDay /\ today' = today + 1
  /\ \A c \in Listeners : listener[c].step \in {"off", "open"}
  /\ \E kept \in SUBSET {k \in RolledSecrets : authCache[k] = today} :
       authCache' = [k \in RolledSecrets |-> IF k \in kept THEN authCache[k] ELSE NotCached]
  /\ UNCHANGED <<endpointRow, stopped, listener, registry, endpointSaves, relayTroubles>>

RelayNext ==
  \/ SaveRow \/ RelayMessage \/ Heartbeat \/ RestartRelay \/ NextDay
  \/ \E c \in Listeners :
       \/ LookUp(c) \/ StoreAuth(c) \/ JoinChannel(c)
       \/ LeaveStream(c) \/ LeaveEarly(c) \/ WriteThrows(c)
       \/ \E k \in RolledSecrets : AskForStream(c, k)

RelaySpec == RelayInit /\ [][RelayNext]_relayVars
-----------------------------------------------------------------------------
(* Properties *)

RelayTypeOK ==
  /\ endpointRow.secret \in RolledSecrets
  /\ stopped \in [RolledSecrets -> 0..LastDay] /\ authCache \in [RolledSecrets -> 0..NotCached]
  /\ \A c \in Listeners : /\ listener[c].step \in {"off", "lookup", "store", "admitted", "open"}
                          /\ listener[c].set \in Sets \cup {0}
  /\ channel \in Sets \cup {0} /\ members \in [Sets -> SUBSET Listeners]
  /\ today \in 0..LastDay /\ endpointSaves \in 0..MaxSaves /\ relayTroubles \in 0..MaxRelayTroubles

\* Whoever has a stream that is open is heard by the replica when the channel
\* speaks, in whatever order clients come, leave during the check, die and are
\* swept: unless a subscription failed or a write threw.
ListenersHear ==
  relayTroubles = 0 =>
    \A c \in Listeners :
      (listener[c].step = "open" /\ listener[c].alive)
      => channel # 0 /\ c \in members[channel] /\ subscribed

\* A secret opens streams only while it is good or for the day its check is
\* cached: the deletion, a roll or a switched-off endpoint do not stop it sooner.
AdmissionsRecent == \A c \in Listeners : listener[c].stale <= 1

RelayServes == ListenersHear /\ AdmissionsRecent
=============================================================================
