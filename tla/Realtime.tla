------------------------------ MODULE Realtime ------------------------------
(***************************************************************************)
(* Live events: the in-process event bus, the WebSocket manager that       *)
(* listens to it for every tenant with a connection, the endpoint's        *)
(* message loop and the background task that evicts silent connections.    *)
(*                                                                         *)
(* Everything runs on one asyncio loop.  A step is what runs between two   *)
(* suspensions; the locks are never contended, for nothing under them      *)
(* suspends.  The suspensions are the socket's accept, receive, send and   *)
(* close, the queries of a permission check, and the start of a task.      *)
(* A constant stands for one connection attempt with the user behind it;   *)
(* a client that reconnects is another one.                                *)
(***************************************************************************)
EXTENDS Integers, FiniteSets

CONSTANTS
  Conns,            \* connection attempts
  NoConn,           \* no connection
  Tenants,
  TenantOf,         \* the tenant of the user behind a connection
  DatasetChannels,  \* "dataset:{id}", and "record:{id}" as its dataset
  OpenChannels,     \* "ai:{id}", "notifications:{id}", "approvals:{id}"
  PlainChannels,    \* names without a colon, "approvals" among them
  Owner,            \* the tenant of a dataset channel's dataset
  Events,           \* calls of publish()
  ChannelOf,        \* the channel an event is published on
  EventTenant       \* the tenant it is published for

Channels == DatasetChannels \union OpenChannels \union PlainChannels

ASSUME ConnAssumption ==
  /\ NoConn \notin Conns
  /\ TenantOf \in [Conns -> Tenants]

ASSUME ChannelAssumption ==
  /\ Owner \in [DatasetChannels -> Tenants]
  /\ DatasetChannels \intersect (OpenChannels \union PlainChannels) = {}
  /\ OpenChannels \intersect PlainChannels = {}

\* Services publish on "approvals" and on the channel of a dataset of the
\* tenant they work for.
ASSUME EventAssumption ==
  /\ EventTenant \in [Events -> Tenants]
  /\ ChannelOf \in [Events -> DatasetChannels \union PlainChannels]
  /\ \A e \in Events :
       ChannelOf[e] \in DatasetChannels => Owner[ChannelOf[e]] = EventTenant[e]

VARIABLES
  socket,       \* per connection: new, open, stalled (the peer neither reads
                \* nor answers) or closed
  loop,         \* per connection, where the endpoint is; leaving is after
                \* its finally and before its return
  asked,        \* channels of a subscribe message still to be checked
  denied,       \* channels its answer refuses
  channels,     \* WSConnection.subscribed_channels
  fresh,        \* connections for which is_alive() holds
  connections,  \* WSManager._connections; an absent tenant is {}
  subscribedTenants,  \* WSManager._subscribed_tenants
  subscribers,  \* EventBus._subscribers: callbacks registered per tenant
  sweep,        \* cleanup_stale_connections(): what is left of its snapshot
                \* and the connection whose close it awaits
  granted,      \* the role tables: who may read which dataset now
  roles,        \* the roles in conn.user, loaded once at authentication
  pub,          \* per event, callbacks to run and sends in flight
  delivered,    \* per event and connection, messages put on the socket
  steady,       \* history: per event, the connections that have listened
                \* without a break since it was published
  readable      \* history: per connection, the datasets its user could read
                \* when it was authenticated

connVars == <<socket, loop, asked, denied, channels, fresh, roles>>
registryVars == <<connections, subscribedTenants, subscribers>>
pubVars == <<pub, delivered>>
historyVars == <<steady, readable>>
vars == <<connVars, registryVars, sweep, granted, pubVars, historyVars>>

Init ==
  /\ socket = [c \in Conns |-> "new"]
  /\ loop = [c \in Conns |-> "idle"]
  /\ asked = [c \in Conns |-> {}]
  /\ denied = [c \in Conns |-> {}]
  /\ channels = [c \in Conns |-> {}]
  /\ fresh = {}
  /\ connections = [t \in Tenants |-> {}]
  /\ subscribedTenants = {}
  /\ subscribers = [t \in Tenants |-> 0]
  /\ sweep = [stale |-> {}, closing |-> NoConn]
  /\ granted \in SUBSET (Conns \X DatasetChannels)
  /\ roles = [c \in Conns |-> {}]
  /\ pub = [e \in Events |-> [started |-> FALSE, calls |-> 0,
                              sends |-> [c \in Conns |-> 0]]]
  /\ delivered = [e \in Events |-> [c \in Conns |-> 0]]
  /\ steady = [e \in Events |-> {}]
  /\ readable = [c \in Conns |-> {}]

Registered == UNION {connections[t] : t \in Tenants}

\* The connections _handle_event() sends an event of channel ch to.
Recipients(ch) == {c \in Registered : ch \in channels[c]}

Listening(e) == {c \in Recipients(ChannelOf[e]) : socket[c] = "open"}

Track ==
  /\ steady' = [e \in Events |->
                  IF pub[e].started THEN steady[e] \intersect Listening(e)'
                  ELSE IF pub[e].started' THEN Listening(e) \intersect Listening(e)'
                  ELSE {}]
  /\ readable' = [c \in Conns |->
                    IF loop[c] = "idle" /\ loop'[c] = "accepting"
                    THEN {ch \in DatasetChannels : <<c, ch>> \in granted}
                    ELSE readable[c]]

-----------------------------------------------------------------------------
(* The registry: WSManager and the subscription it keeps on the bus.       *)

\* EventBus.unsubscribe() ignores a callback it does not have.
Unsubscribed(n) == IF n > 0 THEN n - 1 ELSE 0

Connect(c) ==
  LET t == TenantOf[c]
  IN  /\ connections' = [connections EXCEPT ![t] = @ \union {c}]
      /\ subscribedTenants' = subscribedTenants \union {t}
      /\ subscribers' = IF t \in subscribedTenants THEN subscribers
                        ELSE [subscribers EXCEPT ![t] = @ + 1]

DisconnectForgets(c) ==
  LET t == TenantOf[c]
      last == connections[t] # {} /\ connections[t] \ {c} = {}
  IN  /\ connections' = [connections EXCEPT ![t] = @ \ {c}]
      /\ subscribers' = [subscribers EXCEPT ![t] = IF last THEN Unsubscribed(@) ELSE @]
      /\ UNCHANGED subscribedTenants

\* Called twice for an evicted connection: by the sweep and by the endpoint.
Disconnect(c) ==
  LET t == TenantOf[c]
      last == connections[t] # {} /\ connections[t] \ {c} = {}
  IN  /\ connections' = [connections EXCEPT ![t] = @ \ {c}]
      /\ IF last /\ t \in subscribedTenants
         THEN /\ subscribers' = [subscribers EXCEPT ![t] = Unsubscribed(@)]
              /\ subscribedTenants' = subscribedTenants \ {t}
         ELSE UNCHANGED <<subscribers, subscribedTenants>>

-----------------------------------------------------------------------------
(* The endpoint of one connection.                                         *)

\* Token and user are checked, and the user's roles loaded, once.
Authenticate(c) ==
  /\ loop[c] = "idle"
  /\ \/ /\ loop' = [loop EXCEPT ![c] = "accepting"]
        /\ roles' = [roles EXCEPT ![c] = {ch \in DatasetChannels : <<c, ch>> \in granted}]
        /\ UNCHANGED socket
     \/ /\ loop' = [loop EXCEPT ![c] = "ended"]
        /\ socket' = [socket EXCEPT ![c] = "closed"]
        /\ UNCHANGED roles
  /\ UNCHANGED <<asked, denied, channels, fresh, registryVars, sweep, granted, pubVars>>
  /\ Track

\* accept() has returned.
Register(c) ==
  /\ loop[c] = "accepting"
  /\ loop' = [loop EXCEPT ![c] = "receiving"]
  /\ socket' = [socket EXCEPT ![c] = "open"]
  /\ fresh' = fresh \union {c}
  /\ Connect(c)
  /\ UNCHANGED <<asked, denied, channels, roles, sweep, granted, pubVars>>
  /\ Track

\* A message is there for the loop to handle.
Hears(c) == loop[c] = "receiving" /\ socket[c] # "closed"

Ping(c) ==
  /\ Hears(c)
  /\ loop' = [loop EXCEPT ![c] = "replying"]
  /\ fresh' = fresh \union {c}
  /\ UNCHANGED <<socket, asked, denied, channels, roles, registryVars, sweep,
                 granted, pubVars>>
  /\ Track

\* A message without a type, or of another one, does not count as a ping.
Babble(c) ==
  /\ Hears(c)
  /\ loop' = [loop EXCEPT ![c] = "replying"]
  /\ UNCHANGED <<socket, asked, denied, channels, fresh, roles, registryVars,
                 sweep, granted, pubVars>>
  /\ Track

Subscribe(c, S) ==
  /\ Hears(c)
  /\ loop' = [loop EXCEPT ![c] = IF S = {} THEN "replying" ELSE "checking"]
  /\ asked' = [asked EXCEPT ![c] = S]
  /\ denied' = [denied EXCEPT ![c] = {}]
  /\ fresh' = fresh \union {c}
  /\ UNCHANGED <<socket, channels, roles, registryVars, sweep, granted, pubVars>>
  /\ Track

Unsubscribe(c, S) ==
  /\ Hears(c)
  /\ loop' = [loop EXCEPT ![c] = "replying"]
  /\ channels' = [channels EXCEPT ![c] = @ \ S]
  /\ fresh' = fresh \union {c}
  /\ UNCHANGED <<socket, asked, denied, roles, registryVars, sweep, granted, pubVars>>
  /\ Track

\* _can_subscribe(): the dataset must be of the user's tenant, and readable
\* by the roles loaded at authentication.
CanSubscribeAnywhere(c, ch) ==
  \/ ch \in DatasetChannels /\ ch \in roles[c]
  \/ ch \in OpenChannels
CanSubscribeInTenant(c, ch) ==
  \/ ch \in DatasetChannels /\ Owner[ch] = TenantOf[c]
  \/ ch \in OpenChannels
CanSubscribe(c, ch) ==
  \/ ch \in DatasetChannels /\ Owner[ch] = TenantOf[c] /\ ch \in roles[c]
  \/ ch \in OpenChannels

\* One channel of a subscribe message.  A failing query denies the channel
\* and leaves the session, which nothing rolls back, failing from then on.
CheckChannel(c, ch) ==
  /\ loop[c] = "checking" /\ ch \in asked[c]
  /\ asked' = [asked EXCEPT ![c] = @ \ {ch}]
  /\ loop' = [loop EXCEPT ![c] = IF asked[c] = {ch} THEN "replying" ELSE @]
  /\ \/ /\ CanSubscribe(c, ch)
        /\ channels' = [channels EXCEPT ![c] = @ \union {ch}]
        /\ UNCHANGED <<denied, roles>>
     \/ /\ ~CanSubscribe(c, ch)
        /\ denied' = [denied EXCEPT ![c] = @ \union {ch}]
        /\ UNCHANGED <<channels, roles>>
     \/ /\ ch \in DatasetChannels
        /\ denied' = [denied EXCEPT ![c] = @ \union {ch}]
        /\ roles' = [roles EXCEPT ![c] = {}]
        /\ UNCHANGED channels
  /\ UNCHANGED <<socket, fresh, registryVars, sweep, granted, pubVars>>
  /\ Track

\* The answer is sent; it waits for as long as the peer does not read.
Reply(c) ==
  /\ loop[c] = "replying" /\ socket[c] = "open"
  /\ loop' = [loop EXCEPT ![c] = "receiving"]
  /\ denied' = [denied EXCEPT ![c] = {}]
  /\ UNCHANGED <<socket, asked, channels, fresh, roles, registryVars, sweep,
                 granted, pubVars>>
  /\ Track

\* Nothing was received for PING_TIMEOUT_S, so no ping either.
ReceiveTimeout(c) ==
  /\ Hears(c) /\ c \notin fresh
  /\ socket' = [socket EXCEPT ![c] = "closed"]
  /\ UNCHANGED <<loop, asked, denied, channels, fresh, roles, registryVars,
                 sweep, granted, pubVars>>
  /\ Track

\* The endpoint's finally.  Nothing looks at the connection's channels, roles
\* and pings any more; its session has still to be closed.
Leave(c) ==
  /\ loop' = [loop EXCEPT ![c] = "leaving"]
  /\ Disconnect(c)
  /\ asked' = [asked EXCEPT ![c] = {}]
  /\ denied' = [denied EXCEPT ![c] = {}]
  /\ channels' = [channels EXCEPT ![c] = {}]
  /\ roles' = [roles EXCEPT ![c] = {}]
  /\ fresh' = fresh \ {c}
  /\ UNCHANGED <<socket, sweep, granted, pubVars>>
  /\ Track

\* Receiving or sending on the closed socket raises, or the receive timeout
\* has closed it.
LoopEnds(c) ==
  /\ loop[c] \in {"receiving", "replying"} /\ socket[c] = "closed"
  /\ Leave(c)

\* The loop also ends on an open socket: receive_json() raises on a frame that
\* is not JSON, and so does the handling of a message at a channel name that
\* cannot be a key, the first one or the next after a check.
LoopBreaks(c) ==
  /\ Hears(c) \/ loop[c] = "checking"
  /\ Leave(c)

\* The session is closed, the endpoint returns and the server closes the
\* socket.
EndpointReturns(c) ==
  /\ loop[c] = "leaving"
  /\ loop' = [loop EXCEPT ![c] = "ended"]
  /\ socket' = [socket EXCEPT ![c] = "closed"]
  /\ UNCHANGED <<asked, denied, channels, fresh, roles, registryVars, sweep,
                 granted, pubVars>>
  /\ Track

-----------------------------------------------------------------------------
(* Clients, the network and administrators.                                *)

SocketTurns(c, from, to) ==
  /\ socket[c] = from
  /\ socket' = [socket EXCEPT ![c] = to]
  /\ UNCHANGED <<loop, asked, denied, channels, fresh, roles, registryVars,
                 sweep, granted, pubVars>>
  /\ Track

ClientCloses(c) == SocketTurns(c, "open", "closed")
ClientStalls(c) == SocketTurns(c, "open", "stalled")
ClientRecovers(c) == SocketTurns(c, "stalled", "open")

\* PING_TIMEOUT passes without a ping, subscribe or unsubscribe message.
Age(c) ==
  /\ c \in fresh \intersect Registered
  /\ fresh' = fresh \ {c}
  /\ UNCHANGED <<socket, loop, asked, denied, channels, roles, registryVars,
                 sweep, granted, pubVars>>
  /\ Track

ChangeRoles(g) ==
  /\ granted' = IF g \in granted THEN granted \ {g} ELSE granted \union {g}
  /\ UNCHANGED <<connVars, registryVars, sweep, pubVars>>
  /\ Track

-----------------------------------------------------------------------------
(* The background task.                                                    *)

\* The next connection of the snapshot is closed as it is, pinged meanwhile
\* or not.
CloseNextSkipped(stale) ==
  \/ /\ stale = {}
     /\ sweep' = [stale |-> {}, closing |-> NoConn]
     /\ UNCHANGED socket
  \/ \E c \in stale : /\ sweep' = [stale |-> stale \ {c}, closing |-> c]
                      /\ UNCHANGED socket
CloseNext(stale) ==
  \/ /\ stale = {}
     /\ sweep' = [stale |-> {}, closing |-> NoConn]
     /\ UNCHANGED socket
  \/ \E c \in stale : /\ sweep' = [stale |-> stale \ {c}, closing |-> c]
                      /\ socket' = [socket EXCEPT ![c] = "closed"]

SweepStartsAlive ==
  /\ sweep.closing = NoConn
  /\ Registered \intersect fresh # {}
  /\ CloseNext(Registered \intersect fresh)
  /\ UNCHANGED <<loop, asked, denied, channels, fresh, roles, registryVars,
                 granted, pubVars>>
  /\ Track
SweepStarts ==
  /\ sweep.closing = NoConn
  /\ Registered \ fresh # {}
  /\ CloseNext(Registered \ fresh)
  /\ UNCHANGED <<loop, asked, denied, channels, fresh, roles, registryVars,
                 granted, pubVars>>
  /\ Track

\* close() has returned.
SweepGoesOn(c) ==
  /\ sweep.closing = c
  /\ Disconnect(c)
  /\ CloseNext(sweep.stale)
  /\ UNCHANGED <<loop, asked, denied, channels, fresh, roles, granted, pubVars>>
  /\ Track

-----------------------------------------------------------------------------
(* publish(): one task per registered callback, and in each of them one    *)
(* task per connection that listens.                                       *)

Publish(e) ==
  /\ ~pub[e].started
  /\ pub' = [pub EXCEPT ![e].started = TRUE, ![e].calls = subscribers[EventTenant[e]]]
  /\ UNCHANGED <<connVars, registryVars, sweep, granted, delivered>>
  /\ Track

HandleEventUncalled(e) ==
  /\ pub[e].started
  /\ pub' = [pub EXCEPT
               ![e].calls = @ - 1,
               ![e].sends = [c \in Conns |->
                               @[c] + IF c \in Recipients(ChannelOf[e]) THEN 1 ELSE 0]]
  /\ UNCHANGED <<connVars, registryVars, sweep, granted, delivered>>
  /\ Track
HandleEvent(e) ==
  /\ pub[e].calls > 0
  /\ pub' = [pub EXCEPT
               ![e].calls = @ - 1,
               ![e].sends = [c \in Conns |->
                               @[c] + IF c \in Recipients(ChannelOf[e]) THEN 1 ELSE 0]]
  /\ UNCHANGED <<connVars, registryVars, sweep, granted, delivered>>
  /\ Track

\* A send waits while the peer does not read; on a closed socket it fails.
Send(e, c) ==
  /\ pub[e].sends[c] > 0 /\ socket[c] # "stalled"
  /\ pub' = [pub EXCEPT ![e].sends[c] = @ - 1]
  /\ delivered' = IF socket[c] = "open" THEN [delivered EXCEPT ![e][c] = @ + 1]
                  ELSE delivered
  /\ UNCHANGED <<connVars, registryVars, sweep, granted>>
  /\ Track

\* gather() has every result: the publisher goes on.
FinishedUnawaited(e) == pub[e].started /\ pub[e].calls = 0
Finished(e) ==
  pub[e].started /\ pub[e].calls = 0 /\ \A c \in Conns : pub[e].sends[c] = 0

-----------------------------------------------------------------------------
ConnNext(c) ==
  \/ Authenticate(c) \/ Register(c)
  \/ Ping(c) \/ Babble(c)
  \/ \E S \in SUBSET Channels : Subscribe(c, S) \/ Unsubscribe(c, S)
  \/ \E ch \in Channels : CheckChannel(c, ch)
  \/ Reply(c) \/ ReceiveTimeout(c)
  \/ LoopEnds(c) \/ LoopBreaks(c) \/ EndpointReturns(c)

ClientNext(c) == ClientCloses(c) \/ ClientStalls(c) \/ ClientRecovers(c) \/ Age(c)

SweepNext == SweepStarts \/ \E c \in Conns : SweepGoesOn(c)

PublishNext ==
  \E e \in Events : Publish(e) \/ HandleEvent(e) \/ \E c \in Conns : Send(e, c)

ServerNext == (\E c \in Conns : ConnNext(c) \/ ClientNext(c)) \/ SweepNext \/ PublishNext

RoleNext == \E g \in Conns \X DatasetChannels : ChangeRoles(g)

Next == ServerNext \/ RoleNext

\* Roles stay as they are.
ServerSpec == Init /\ [][ServerNext]_vars

Spec == Init /\ [][Next]_vars
=============================================================================
