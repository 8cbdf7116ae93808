------------------------- MODULE RealtimeProperties -------------------------
(***************************************************************************)
(* What live events promise.                                               *)
(***************************************************************************)
EXTENDS Realtime

TypeOK ==
  /\ socket \in [Conns -> {"new", "open", "stalled", "closed"}]
  /\ loop \in [Conns -> {"idle", "accepting", "receiving", "checking",
                         "replying", "leaving", "ended"}]
  /\ asked \in [Conns -> SUBSET Channels]
  /\ denied \in [Conns -> SUBSET Channels]
  /\ channels \in [Conns -> SUBSET (DatasetChannels \union OpenChannels)]
  /\ fresh \subseteq Conns
  /\ connections \in [Tenants -> SUBSET Conns]
  /\ subscribedTenants \subseteq Tenants
  /\ subscribers \in [Tenants -> Nat]
  /\ sweep \in [stale : SUBSET Conns, closing : Conns \union {NoConn}]
  /\ granted \subseteq Conns \X DatasetChannels
  /\ roles \in [Conns -> SUBSET DatasetChannels]
  /\ pub \in [Events -> [started : BOOLEAN, calls : Nat, sends : [Conns -> Nat]]]
  /\ delivered \in [Events -> [Conns -> Nat]]
  /\ steady \in [Events -> SUBSET Conns]
  /\ readable \in [Conns -> SUBSET DatasetChannels]

\* The bus holds exactly one callback of the manager for a tenant with
\* connections and none for the others, whatever order connections come and
\* go in and however often one is disconnected (WSManager.connect,
\* disconnect).
BusFollowsRegistry ==
  \A t \in Tenants :
    /\ subscribers[t] = IF connections[t] = {} THEN 0 ELSE 1
    /\ t \in subscribedTenants <=> connections[t] # {}

\* A client whose socket is up is registered, so that it gets its events, but
\* for the moment an endpoint takes to return after its finally; an endpoint
\* that is leaving or has ended is not in the registry, and what has ended
\* keeps no socket open.  Sweep, time-outs, clients and frames that break the
\* loop take socket and registration away one before the other, in any order
\* (websocket_endpoint, cleanup_stale_connections).
ServedIsRegistered ==
  \A c \in Conns :
    /\ socket[c] \in {"open", "stalled"} =>
         c \in connections[TenantOf[c]] \/ loop[c] = "leaving"
    /\ loop[c] \in {"leaving", "ended"} => c \notin Registered
    /\ loop[c] = "ended" => socket[c] = "closed"

\* No client gets the same event twice.
AtMostOnce == \A e \in Events, c \in Conns : delivered[e][c] <= 1

\* An event reaches clients of its own tenant only, although the manager
\* looks for listeners among the connections of all tenants.
TenantIsolation ==
  \A e \in Events, c \in Conns :
    delivered[e][c] > 0 => TenantOf[c] = EventTenant[e]

\* An event of a dataset reaches only clients whose user could read the
\* dataset at the handshake (_can_subscribe, asked once and answered from the
\* roles loaded then), whatever roles are granted or revoked later: nothing
\* looks at permissions when the event is published, handed to the listeners
\* or sent.
ReadersOnly ==
  \A e \in Events, c \in Conns :
    delivered[e][c] > 0 => ChannelOf[e] \in readable[c]

\* When publish() returns, every client that has listened to the channel
\* since before the call has the event, whoever else came or went meanwhile.
ListenersServed ==
  \A e \in Events : Finished(e) => \A c \in steady[e] : delivered[e][c] = 1

-----------------------------------------------------------------------------
(* The bus and the manager implement Publication.                          *)

Stage(e) ==
  CASE ~pub[e].started -> "unpublished"
    [] Finished(e) -> "done"
    [] OTHER -> "under way"

Outbox == INSTANCE Publication WITH
  listening <- [e \in Events |-> Listening(e)],
  state <- [e \in Events |-> Stage(e)],
  owed <- steady,
  got <- delivered

\* Each step of callbacks, tasks, sockets, sweep and endpoints is a step of
\* the abstract publication or leaves it alone (EventBus.publish,
\* WSManager._handle_event, _safe_send): an event reaches its tenant's
\* connections once, while publish() is awaited and not later, and publish()
\* returns when those that listened throughout have it.
ImplementsPublication == Outbox!Spec

-----------------------------------------------------------------------------
(* Liveness.                                                               *)

PublishFairness ==
  \A e \in Events :
    /\ WF_vars(HandleEvent(e))
    /\ \A c \in Conns : SF_vars(Send(e, c))

\* Queries answer, a loop on a closed socket notices, and a session closes.
LoopFairness ==
  \A c \in Conns :
    /\ WF_vars(\E ch \in Channels : CheckChannel(c, ch))
    /\ WF_vars(LoopEnds(c))
    /\ WF_vars(EndpointReturns(c))

SweepFairness ==
  /\ WF_vars(SweepStarts)
  /\ WF_vars(\E c \in Conns : SweepGoesOn(c))

Pinged(c) ==
  Ping(c) \/ \E S \in SUBSET Channels : Subscribe(c, S) \/ Unsubscribe(c, S)

\* The clock: a connection that was pinged in time is pinged again, or
\* PING_TIMEOUT passes.
ClockFairness ==
  \A c \in Conns : WF_vars(c \in fresh /\ (Pinged(c) \/ Age(c)))

FairSpec ==
  ServerSpec /\ PublishFairness /\ LoopFairness /\ SweepFairness /\ ClockFairness

\* publish() returns, although the request that calls it waits for the
\* slowest client: a client that stops reading stops pinging too, for its
\* loop waits for the same socket, and is evicted.
PublicationEnds == \A e \in Events : pub[e].started ~> Finished(e)

\* "Server disconnects if no ping for 30s" (PING_TIMEOUT): a connection that
\* stays silent leaves the registry.
SilentIsEvicted ==
  \A c \in Conns :
    (c \in Registered \ fresh) ~> (c \in fresh \/ c \notin Registered)

-----------------------------------------------------------------------------
(* What comments say and the code does not do.                             *)

\* "approvals - always allowed" (_can_subscribe's docstring).
ApprovalsAllowed == \A c \in Conns : "approvals" \notin denied[c]
=============================================================================
