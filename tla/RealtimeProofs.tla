--------------------------- MODULE RealtimeProofs ---------------------------
(***************************************************************************)
(* Live events for any number of tenants, connections, channels and        *)
(* events: the registry and the bus stay in step, no client gets an event  *)
(* twice or one of another tenant, and whoever listens gets it.            *)
(***************************************************************************)
EXTENDS RealtimeProperties, TLAPS

-----------------------------------------------------------------------------
(* What a step does to the parts of the state that matter here.            *)

\* Only connect() and disconnect() touch the registry.
LEMMA RegistryStep ==
  ASSUME [Next]_vars
  PROVE  \/ UNCHANGED registryVars
         \/ \E c \in Conns : Connect(c) \/ Disconnect(c)
<1>1. CASE UNCHANGED vars BY <1>1 DEF vars
<1>2. CASE \E c \in Conns : ConnNext(c)
  <2>1. PICK c \in Conns : ConnNext(c) BY <1>2
  <2>2. CASE Register(c) BY <2>2 DEF Register
  <2>3. CASE LoopEnds(c) \/ LoopBreaks(c) BY <2>3 DEF LoopEnds, LoopBreaks, Leave
  <2>4. CASE Authenticate(c) BY <2>4 DEF Authenticate
  <2>5. CASE Ping(c) \/ Babble(c) \/ Reply(c) \/ ReceiveTimeout(c) \/ EndpointReturns(c)
    BY <2>5 DEF Ping, Babble, Reply, ReceiveTimeout, EndpointReturns
  <2>6. CASE \E S \in SUBSET Channels : Subscribe(c, S) \/ Unsubscribe(c, S)
    BY <2>6 DEF Subscribe, Unsubscribe
  <2>7. CASE \E ch \in Channels : CheckChannel(c, ch) BY <2>7 DEF CheckChannel
  <2> QED BY <2>1, <2>2, <2>3, <2>4, <2>5, <2>6, <2>7 DEF ConnNext
<1>3. CASE \E c \in Conns : ClientNext(c)
  BY <1>3 DEF ClientNext, ClientCloses, ClientStalls, ClientRecovers, SocketTurns, Age
<1>4. CASE SweepNext BY <1>4 DEF SweepNext, SweepStarts, SweepGoesOn
<1>5. CASE PublishNext BY <1>5 DEF PublishNext, Publish, HandleEvent, Send
<1>6. CASE RoleNext BY <1>6 DEF RoleNext, ChangeRoles
<1> QED BY <1>1, <1>2, <1>3, <1>4, <1>5, <1>6 DEF Next, ServerNext

\* Only the tasks of publish() touch an event's counters.
LEMMA PublishStep ==
  ASSUME [Next]_vars
  PROVE  UNCHANGED pubVars \/ PublishNext
<1>1. CASE UNCHANGED vars BY <1>1 DEF vars
<1>2. CASE \E c \in Conns : ConnNext(c)
  <2>1. PICK c \in Conns : ConnNext(c) BY <1>2
  <2>2. CASE Register(c) \/ LoopEnds(c) \/ LoopBreaks(c) \/ Authenticate(c)
    BY <2>2 DEF Register, LoopEnds, LoopBreaks, Leave, Authenticate
  <2>3. CASE Ping(c) \/ Babble(c) \/ Reply(c) \/ ReceiveTimeout(c) \/ EndpointReturns(c)
    BY <2>3 DEF Ping, Babble, Reply, ReceiveTimeout, EndpointReturns
  <2>4. CASE \E S \in SUBSET Channels : Subscribe(c, S) \/ Unsubscribe(c, S)
    BY <2>4 DEF Subscribe, Unsubscribe
  <2>5. CASE \E ch \in Channels : CheckChannel(c, ch) BY <2>5 DEF CheckChannel
  <2> QED BY <2>1, <2>2, <2>3, <2>4, <2>5 DEF ConnNext
<1>3. CASE \E c \in Conns : ClientNext(c)
  BY <1>3 DEF ClientNext, ClientCloses, ClientStalls, ClientRecovers, SocketTurns, Age
<1>4. CASE SweepNext BY <1>4 DEF SweepNext, SweepStarts, SweepGoesOn
<1>5. CASE RoleNext BY <1>5 DEF RoleNext, ChangeRoles
<1> QED BY <1>1, <1>2, <1>3, <1>4, <1>5 DEF Next, ServerNext

\* A step that follows the protocol keeps the history variable.
LEMMA TrackStep == ASSUME Next PROVE Track
<1>1. CASE \E c \in Conns : ConnNext(c)
  <2>1. PICK c \in Conns : ConnNext(c) BY <1>1
  <2>2. CASE Register(c) \/ LoopEnds(c) \/ LoopBreaks(c) \/ Authenticate(c)
    BY <2>2 DEF Register, LoopEnds, LoopBreaks, Leave, Authenticate
  <2>3. CASE Ping(c) \/ Babble(c) \/ Reply(c) \/ ReceiveTimeout(c) \/ EndpointReturns(c)
    BY <2>3 DEF Ping, Babble, Reply, ReceiveTimeout, EndpointReturns
  <2>4. CASE \E S \in SUBSET Channels : Subscribe(c, S) \/ Unsubscribe(c, S)
    BY <2>4 DEF Subscribe, Unsubscribe
  <2>5. CASE \E ch \in Channels : CheckChannel(c, ch) BY <2>5 DEF CheckChannel
  <2> QED BY <2>1, <2>2, <2>3, <2>4, <2>5 DEF ConnNext
<1>2. CASE \E c \in Conns : ClientNext(c)
  BY <1>2 DEF ClientNext, ClientCloses, ClientStalls, ClientRecovers, SocketTurns, Age
<1>3. CASE SweepNext BY <1>3 DEF SweepNext, SweepStarts, SweepGoesOn
<1>4. CASE PublishNext BY <1>4 DEF PublishNext, Publish, HandleEvent, Send
<1>5. CASE RoleNext BY <1>5 DEF RoleNext, ChangeRoles
<1> QED BY <1>1, <1>2, <1>3, <1>4, <1>5 DEF Next, ServerNext

-----------------------------------------------------------------------------
(* The registry.                                                           *)

RegistryInv ==
  /\ connections \in [Tenants -> SUBSET Conns]
  /\ subscribers \in [Tenants -> Nat]
  /\ subscribedTenants \subseteq Tenants
  /\ \A t \in Tenants : \A c \in connections[t] : TenantOf[c] = t
  /\ BusFollowsRegistry

LEMMA ConnectKeeps ==
  ASSUME RegistryInv, NEW c \in Conns, Connect(c) PROVE RegistryInv'
<1> DEFINE t == TenantOf[c]
<1>1. t \in Tenants BY ConnAssumption
<1>2. /\ connections' = [connections EXCEPT ![t] = @ \union {c}]
      /\ subscribedTenants' = subscribedTenants \union {t}
      /\ subscribers' = IF t \in subscribedTenants THEN subscribers
                        ELSE [subscribers EXCEPT ![t] = @ + 1]
  BY DEF Connect
<1>3. subscribers[t] = IF t \in subscribedTenants THEN 1 ELSE 0
  BY <1>1 DEF RegistryInv, BusFollowsRegistry
<1> QED BY <1>1, <1>2, <1>3 DEF RegistryInv, BusFollowsRegistry

LEMMA DisconnectKeeps ==
  ASSUME RegistryInv, NEW c \in Conns, Disconnect(c) PROVE RegistryInv'
<1> DEFINE t == TenantOf[c]
           last == connections[t] # {} /\ connections[t] \ {c} = {}
<1>1. t \in Tenants BY ConnAssumption
<1>2. connections' = [connections EXCEPT ![t] = @ \ {c}] BY DEF Disconnect
<1>3. CASE last
  <2>1. t \in subscribedTenants /\ subscribers[t] = 1
    BY <1>1, <1>3 DEF RegistryInv, BusFollowsRegistry
  <2>2. /\ subscribers' = [subscribers EXCEPT ![t] = 0]
        /\ subscribedTenants' = subscribedTenants \ {t}
    BY <1>3, <2>1 DEF Disconnect, Unsubscribed
  <2> QED BY <1>1, <1>2, <1>3, <2>1, <2>2 DEF RegistryInv, BusFollowsRegistry
<1>4. CASE ~last
  <2>1. UNCHANGED <<subscribers, subscribedTenants>> BY <1>4 DEF Disconnect
  <2>2. connections'[t] = {} <=> connections[t] = {}
    BY <1>1, <1>2, <1>4 DEF RegistryInv
  <2> QED BY <1>1, <1>2, <2>1, <2>2 DEF RegistryInv, BusFollowsRegistry
<1> QED BY <1>3, <1>4

LEMMA RegistryKept == ASSUME RegistryInv, [Next]_vars PROVE RegistryInv'
<1>1. CASE UNCHANGED registryVars
  BY <1>1 DEF registryVars, RegistryInv, BusFollowsRegistry
<1> QED BY <1>1, RegistryStep, ConnectKeeps, DisconnectKeeps

LEMMA RegistryStarts == Init => RegistryInv
BY DEF Init, RegistryInv, BusFollowsRegistry

\* For every tenant the bus holds exactly one callback while the manager has
\* a connection of the tenant, and none otherwise (WSManager.connect and
\* disconnect, called any number of times in any order).
THEOREM BusStaysInStep == Spec => []BusFollowsRegistry
<1>1. RegistryInv => BusFollowsRegistry BY DEF RegistryInv
<1> QED BY <1>1, RegistryStarts, RegistryKept, PTL DEF Spec

-----------------------------------------------------------------------------
(* The counters of an event.                                               *)

PubRow == [started : BOOLEAN, calls : Nat, sends : [Conns -> Nat]]

PubType ==
  /\ pub \in [Events -> PubRow]
  /\ delivered \in [Events -> [Conns -> Nat]]

\* What is under way for connection c, or done.
Copies(e, c) == pub[e].calls + pub[e].sends[c] + delivered[e][c]

LEMMA PublishFacts ==
  ASSUME PubType, RegistryInv, NEW e \in Events, Publish(e)
  PROVE  /\ PubType'
         /\ UNCHANGED delivered
         /\ \A f \in Events \ {e} : pub'[f] = pub[f]
         /\ pub'[e].started
         /\ pub'[e].calls = subscribers[EventTenant[e]]
         /\ pub'[e].sends = pub[e].sends
<1>1. subscribers[EventTenant[e]] \in Nat BY EventAssumption DEF RegistryInv
<1>2. pub[e] \in PubRow BY DEF PubType
<1> DEFINE row == [pub[e] EXCEPT !.started = TRUE, !.calls = subscribers[EventTenant[e]]]
<1>3. row \in PubRow /\ row.started /\ row.sends = pub[e].sends
      /\ row.calls = subscribers[EventTenant[e]]
  BY <1>1, <1>2 DEF PubRow
<1>4. pub' = [pub EXCEPT ![e] = row] BY <1>2 DEF Publish, PubType, PubRow
<1>5. UNCHANGED delivered BY DEF Publish
<1> HIDE DEF row
<1> QED BY <1>3, <1>4, <1>5 DEF PubType

Handled(r, n, sent) == [r EXCEPT !.calls = n, !.sends = sent]

LEMMA RowUpdate ==
  ASSUME NEW r \in PubRow, NEW n \in Nat, NEW sent \in [Conns -> Nat]
  PROVE  /\ Handled(r, n, sent) \in PubRow
         /\ Handled(r, n, sent).started = r.started
         /\ Handled(r, n, sent).calls = n
         /\ Handled(r, n, sent).sends = sent
BY DEF PubRow, Handled

LEMMA HandleEventFacts ==
  ASSUME PubType, NEW e \in Events, HandleEvent(e)
  PROVE  /\ PubType'
         /\ UNCHANGED delivered
         /\ \A f \in Events \ {e} : pub'[f] = pub[f]
         /\ pub'[e].started = pub[e].started
         /\ pub[e].calls > 0 /\ pub'[e].calls = pub[e].calls - 1
         /\ \A c \in Conns :
              pub'[e].sends[c] =
                pub[e].sends[c] + IF c \in Recipients(ChannelOf[e]) THEN 1 ELSE 0
<1> DEFINE sent == [c \in Conns |-> pub[e].sends[c]
                      + IF c \in Recipients(ChannelOf[e]) THEN 1 ELSE 0]
           row == Handled(pub[e], pub[e].calls - 1, sent)
<1>1. pub[e] \in PubRow /\ pub[e].calls > 0 BY DEF PubType, HandleEvent
<1>2. sent \in [Conns -> Nat] BY <1>1 DEF PubRow
<1>3. pub' = [pub EXCEPT ![e] = row] BY <1>1 DEF HandleEvent, PubType, PubRow, Handled
<1>4. \A c \in Conns : sent[c] = pub[e].sends[c]
        + IF c \in Recipients(ChannelOf[e]) THEN 1 ELSE 0
  OBVIOUS
<1> HIDE DEF sent
<1>5. row \in PubRow /\ row.started = pub[e].started
      /\ row.calls = pub[e].calls - 1 /\ row.sends = sent
  <2>1. pub[e].calls \in Nat /\ pub[e].calls - 1 \in Nat BY <1>1 DEF PubRow
  <2> QED BY <1>1, <1>2, <2>1, RowUpdate
<1> HIDE DEF row
<1>6. UNCHANGED delivered BY DEF HandleEvent
<1> QED BY <1>1, <1>3, <1>4, <1>5, <1>6 DEF PubType

LEMMA SendFacts ==
  ASSUME PubType, NEW e \in Events, NEW c \in Conns, Send(e, c)
  PROVE  /\ PubType'
         /\ \A f \in Events \ {e} : pub'[f] = pub[f] /\ delivered'[f] = delivered[f]
         /\ pub'[e].started = pub[e].started /\ pub'[e].calls = pub[e].calls
         /\ \A d \in Conns \ {c} : /\ pub'[e].sends[d] = pub[e].sends[d]
                                   /\ delivered'[e][d] = delivered[e][d]
         /\ pub[e].sends[c] > 0 /\ pub'[e].sends[c] = pub[e].sends[c] - 1
         /\ delivered'[e][c] = delivered[e][c] + IF socket[c] = "open" THEN 1 ELSE 0
<1> DEFINE sent == [pub[e].sends EXCEPT ![c] = @ - 1]
           row == [pub[e] EXCEPT !.sends = sent]
<1>1. pub[e] \in PubRow /\ pub[e].sends[c] > 0 BY DEF PubType, Send
<1>2. sent \in [Conns -> Nat] /\ sent[c] = pub[e].sends[c] - 1
      /\ \A d \in Conns \ {c} : sent[d] = pub[e].sends[d]
  BY <1>1 DEF PubRow
<1>3. pub' = [pub EXCEPT ![e] = row] BY <1>1 DEF Send, PubType, PubRow
<1> HIDE DEF sent
<1>4. row \in PubRow /\ row.started = pub[e].started /\ row.calls = pub[e].calls
      /\ row.sends = sent
  BY <1>1, <1>2 DEF PubRow
<1> HIDE DEF row
<1>5. delivered' = IF socket[c] = "open" THEN [delivered EXCEPT ![e][c] = @ + 1]
                   ELSE delivered
  BY DEF Send
<1>14. delivered \in [Events -> [Conns -> Nat]] BY DEF PubType
<1>15. delivered' \in [Events -> [Conns -> Nat]] BY <1>5, <1>14
<1>6. pub' \in [Events -> PubRow] /\ pub'[e] = row
      /\ \A f \in Events \ {e} : pub'[f] = pub[f]
  BY <1>3, <1>4 DEF PubType
<1>7. PubType' BY <1>4, <1>6, <1>15 DEF PubType
<1>8. pub'[e].started = pub[e].started /\ pub'[e].calls = pub[e].calls
      /\ pub'[e].sends = sent
  BY <1>4, <1>6
<1>9. \A f \in Events \ {e} : pub'[f] = pub[f] /\ delivered'[f] = delivered[f]
  BY <1>5, <1>6, <1>14
<1>10. \A d \in Conns \ {c} : pub'[e].sends[d] = pub[e].sends[d] BY <1>2, <1>8
<1>11. \A d \in Conns \ {c} : delivered'[e][d] = delivered[e][d] BY <1>5, <1>14
<1>12. pub[e].sends[c] > 0 /\ pub'[e].sends[c] = pub[e].sends[c] - 1
  BY <1>1, <1>2, <1>8
<1>13. delivered'[e][c] = delivered[e][c] + IF socket[c] = "open" THEN 1 ELSE 0
  BY <1>5, <1>14
<1> QED BY <1>7, <1>8, <1>9, <1>10, <1>11, <1>12, <1>13

-----------------------------------------------------------------------------
(* At most once.                                                           *)

CountInv ==
  /\ PubType
  /\ \A e \in Events, c \in Conns :
       /\ Copies(e, c) <= 1
       /\ ~pub[e].started => Copies(e, c) = 0
  /\ \A e \in Events : ~pub[e].started => pub[e].calls = 0

LEMMA CountKept ==
  ASSUME RegistryInv, CountInv, [Next]_vars PROVE CountInv'
<1>1. CASE UNCHANGED pubVars BY <1>1 DEF pubVars, CountInv, PubType, Copies
<1>2. ASSUME NEW e \in Events, Publish(e) PROVE CountInv'
  <2>1. /\ PubType' /\ UNCHANGED delivered
        /\ \A f \in Events \ {e} : pub'[f] = pub[f]
        /\ pub'[e].started /\ pub'[e].calls = subscribers[EventTenant[e]]
        /\ pub'[e].sends = pub[e].sends
    BY <1>2, PublishFacts DEF CountInv
  <2>2. subscribers[EventTenant[e]] \in {0, 1}
    BY EventAssumption DEF RegistryInv, BusFollowsRegistry
  <2>3. \A c \in Conns : pub[e].sends[c] = 0 /\ delivered[e][c] = 0
    <3>1. ~pub[e].started BY <1>2 DEF Publish
    <3>2. /\ pub[e].calls \in Nat /\ pub[e].sends \in [Conns -> Nat]
          /\ delivered[e] \in [Conns -> Nat]
      BY DEF CountInv, PubType, PubRow
    <3>3. \A c \in Conns : pub[e].calls + pub[e].sends[c] + delivered[e][c] = 0
      BY <3>1 DEF CountInv, Copies
    <3> QED
      <4> TAKE c \in Conns
      <4>1. pub[e].sends[c] \in Nat /\ delivered[e][c] \in Nat BY <3>2
      <4>2. pub[e].calls + pub[e].sends[c] + delivered[e][c] = 0 BY <3>3
      <4> QED BY <3>2, <4>1, <4>2
  <2> QED BY <2>1, <2>2, <2>3 DEF CountInv, Copies
<1>3. ASSUME NEW e \in Events, HandleEvent(e) PROVE CountInv'
  <2>1. /\ PubType' /\ UNCHANGED delivered
        /\ \A f \in Events \ {e} : pub'[f] = pub[f]
        /\ pub'[e].started = pub[e].started
        /\ pub[e].calls > 0 /\ pub'[e].calls = pub[e].calls - 1
        /\ \A c \in Conns :
             pub'[e].sends[c] =
               pub[e].sends[c] + IF c \in Recipients(ChannelOf[e]) THEN 1 ELSE 0
    BY <1>3, HandleEventFacts DEF CountInv
  <2>2. \A c \in Conns : pub[e].sends[c] \in Nat /\ delivered[e][c] \in Nat /\ pub[e].calls \in Nat
    BY DEF CountInv, PubType, PubRow
  <2> QED BY <2>1, <2>2 DEF CountInv, Copies
<1>4. ASSUME NEW e \in Events, NEW c \in Conns, Send(e, c) PROVE CountInv'
  <2>1. /\ PubType'
        /\ \A f \in Events \ {e} : pub'[f] = pub[f] /\ delivered'[f] = delivered[f]
        /\ pub'[e].started = pub[e].started /\ pub'[e].calls = pub[e].calls
        /\ \A d \in Conns \ {c} : /\ pub'[e].sends[d] = pub[e].sends[d]
                                  /\ delivered'[e][d] = delivered[e][d]
        /\ pub[e].sends[c] > 0 /\ pub'[e].sends[c] = pub[e].sends[c] - 1
        /\ delivered'[e][c] = delivered[e][c] + IF socket[c] = "open" THEN 1 ELSE 0
    BY <1>4, SendFacts DEF CountInv
  <2>2. pub[e].sends[c] \in Nat /\ delivered[e][c] \in Nat /\ pub[e].calls \in Nat
    BY DEF CountInv, PubType, PubRow
  <2>3. \A f \in Events : ~pub'[f].started => pub'[f].calls = 0
    BY <2>1 DEF CountInv
  <2>4. ASSUME NEW f \in Events, NEW d \in Conns, f # e \/ d # c
        PROVE  Copies(f, d)' = Copies(f, d) /\ pub'[f].started = pub[f].started
    BY <2>1, <2>4 DEF Copies
  <2>5. Copies(e, c)' <= Copies(e, c) /\ Copies(e, c) \in Nat /\ Copies(e, c)' \in Nat
    BY <2>1, <2>2 DEF Copies
  <2>6. \A f \in Events, d \in Conns : /\ Copies(f, d)' <= 1
                                       /\ ~pub'[f].started => Copies(f, d)' = 0
    <3> TAKE f \in Events, d \in Conns
    <3>1. CASE f = e /\ d = c BY <2>1, <2>5, <3>1 DEF CountInv
    <3>2. CASE f # e \/ d # c BY <2>4, <3>2 DEF CountInv
    <3> QED BY <3>1, <3>2
  <2> QED BY <2>1, <2>3, <2>6 DEF CountInv
<1> QED BY <1>1, <1>2, <1>3, <1>4, PublishStep DEF PublishNext

LEMMA CountStarts == Init => CountInv
BY DEF Init, CountInv, PubType, PubRow, Copies

\* No client ever gets the same event twice (EventBus.publish and
\* WSManager._handle_event, with at most one callback for a tenant).
THEOREM NobodyTwice == Spec => []AtMostOnce
<1>1. CountInv => AtMostOnce BY DEF CountInv, Copies, AtMostOnce, PubType, PubRow
<1> QED BY <1>1, RegistryStarts, RegistryKept, CountStarts, CountKept, PTL DEF Spec

-----------------------------------------------------------------------------
(* Tenants.                                                                *)

ChannelInv ==
  /\ channels \in [Conns -> SUBSET (DatasetChannels \union OpenChannels)]
  /\ \A c \in Conns : \A ch \in channels[c] \intersect DatasetChannels :
       Owner[ch] = TenantOf[c]

\* Channels are left, or joined after the check.
LEMMA ChannelStep ==
  ASSUME [Next]_vars
  PROVE  \/ UNCHANGED channels
         \/ \E c \in Conns : \E left \in SUBSET channels[c] :
              channels' = [channels EXCEPT ![c] = left]
         \/ \E c \in Conns, ch \in Channels :
              CanSubscribe(c, ch) /\ channels' = [channels EXCEPT ![c] = @ \union {ch}]
<1>1. CASE UNCHANGED vars BY <1>1 DEF vars, connVars
<1>2. CASE \E c \in Conns : ConnNext(c)
  <2>1. PICK c \in Conns : ConnNext(c) BY <1>2
  <2>2. CASE Register(c) \/ Authenticate(c) BY <2>2 DEF Register, Authenticate
  <2>3. CASE Ping(c) \/ Babble(c) \/ Reply(c) \/ ReceiveTimeout(c) \/ EndpointReturns(c)
    BY <2>3 DEF Ping, Babble, Reply, ReceiveTimeout, EndpointReturns
  <2>4. CASE \E S \in SUBSET Channels : Subscribe(c, S) BY <2>4 DEF Subscribe
  <2>5. CASE \E S \in SUBSET Channels : Unsubscribe(c, S)
    <3>1. PICK S \in SUBSET Channels : channels' = [channels EXCEPT ![c] = @ \ S]
      BY <2>5 DEF Unsubscribe
    <3>2. channels[c] \ S \in SUBSET channels[c] OBVIOUS
    <3> QED BY <3>1, <3>2
  <2>6. CASE \E ch \in Channels : CheckChannel(c, ch) BY <2>6 DEF CheckChannel
  <2>7. CASE LoopEnds(c) \/ LoopBreaks(c)
    <3>1. channels' = [channels EXCEPT ![c] = {}] BY <2>7 DEF LoopEnds, LoopBreaks, Leave
    <3> QED BY <3>1
  <2> QED BY <2>1, <2>2, <2>3, <2>4, <2>5, <2>6, <2>7 DEF ConnNext
<1>3. CASE \E c \in Conns : ClientNext(c)
  BY <1>3 DEF ClientNext, ClientCloses, ClientStalls, ClientRecovers, SocketTurns, Age
<1>4. CASE SweepNext BY <1>4 DEF SweepNext, SweepStarts, SweepGoesOn
<1>5. CASE PublishNext BY <1>5 DEF PublishNext, Publish, HandleEvent, Send, connVars
<1>6. CASE RoleNext BY <1>6 DEF RoleNext, ChangeRoles, connVars
<1> QED BY <1>1, <1>2, <1>3, <1>4, <1>5, <1>6 DEF Next, ServerNext

LEMMA ChannelKept == ASSUME ChannelInv, [Next]_vars PROVE ChannelInv'
<1>1. CASE UNCHANGED channels BY <1>1 DEF ChannelInv
<1>2. ASSUME NEW c \in Conns, NEW left \in SUBSET channels[c],
             channels' = [channels EXCEPT ![c] = left]
      PROVE  ChannelInv'
  BY <1>2 DEF ChannelInv
<1>3. ASSUME NEW c \in Conns, NEW ch \in Channels, CanSubscribe(c, ch),
             channels' = [channels EXCEPT ![c] = @ \union {ch}]
      PROVE  ChannelInv'
  <2>1. ch \in DatasetChannels \union OpenChannels BY <1>3 DEF CanSubscribe
  <2>2. ch \in DatasetChannels => Owner[ch] = TenantOf[c]
    BY <1>3, ChannelAssumption DEF CanSubscribe
  <2> QED BY <1>3, <2>1, <2>2 DEF ChannelInv
<1> QED BY <1>1, <1>2, <1>3, ChannelStep

LEMMA RecipientsAreTenants ==
  ASSUME RegistryInv, ChannelInv, NEW e \in Events,
         NEW c \in Recipients(ChannelOf[e])
  PROVE  /\ c \in Conns /\ TenantOf[c] = EventTenant[e]
         /\ c \in connections[EventTenant[e]]
         /\ ChannelOf[e] \in channels[c] \intersect DatasetChannels
<1>1. PICK t \in Tenants : c \in connections[t] BY DEF Recipients, Registered
<1>2. c \in Conns /\ TenantOf[c] = t BY <1>1 DEF RegistryInv
<1>3. ChannelOf[e] \in DatasetChannels \union PlainChannels BY EventAssumption
<1>4. ChannelOf[e] \in channels[c] BY DEF Recipients
<1>5. ChannelOf[e] \in DatasetChannels BY <1>2, <1>3, <1>4, ChannelAssumption DEF ChannelInv
<1>6. Owner[ChannelOf[e]] = TenantOf[c] BY <1>2, <1>4, <1>5 DEF ChannelInv
<1> QED BY <1>1, <1>2, <1>4, <1>5, <1>6, EventAssumption

\* Connection c has event e, or is being sent it.
Addressed(e, c) == pub[e].sends[c] > 0 \/ delivered[e][c] > 0

\* Nobody is sent an event but those _handle_event() finds listening.
LEMMA OnlyRecipients ==
  ASSUME RegistryInv, CountInv, [Next]_vars,
         NEW e \in Events, NEW c \in Conns, Addressed(e, c)'
  PROVE  Addressed(e, c) \/ c \in Recipients(ChannelOf[e])
<1> USE DEF CountInv, Addressed
<1>1. CASE UNCHANGED pubVars BY <1>1 DEF pubVars
<1>2. ASSUME NEW f \in Events, Publish(f) PROVE Addressed(e, c)
  <2>1. UNCHANGED delivered /\ (f # e => pub'[e] = pub[e]) BY <1>2, PublishFacts
  <2>2. f = e => pub'[e].sends = pub[e].sends BY <1>2, PublishFacts
  <2> QED BY <2>1, <2>2
<1>3. ASSUME NEW f \in Events, HandleEvent(f), c \notin Recipients(ChannelOf[e])
      PROVE  Addressed(e, c)
  <2>1. UNCHANGED delivered /\ (f # e => pub'[e] = pub[e]) BY <1>3, HandleEventFacts
  <2>2. CASE f = e
    <3>1. pub'[e].sends[c] = pub[e].sends[c] + 0 BY <1>3, <2>2, HandleEventFacts
    <3>2. pub[e].sends[c] \in Nat BY DEF PubType, PubRow
    <3> QED BY <2>1, <3>1, <3>2
  <2> QED BY <2>1, <2>2
<1>4. ASSUME NEW f \in Events, NEW d \in Conns, Send(f, d) PROVE Addressed(e, c)
  <2>1. CASE f = e /\ d = c BY <1>4, <2>1, SendFacts
  <2>2. CASE f # e \/ d # c BY <1>4, <2>2, SendFacts
  <2> QED BY <2>1, <2>2
<1> QED BY <1>1, <1>2, <1>3, <1>4, PublishStep DEF PublishNext

IsolationInv ==
  \A e \in Events, c \in Conns : Addressed(e, c) => TenantOf[c] = EventTenant[e]

LEMMA IsolationKept ==
  ASSUME RegistryInv, CountInv, ChannelInv, IsolationInv, [Next]_vars
  PROVE  IsolationInv'
<1> SUFFICES ASSUME NEW e \in Events, NEW c \in Conns, Addressed(e, c)'
             PROVE  TenantOf[c] = EventTenant[e]
  BY DEF IsolationInv
<1> QED BY OnlyRecipients, RecipientsAreTenants DEF IsolationInv

LEMMA IsolationStarts == Init => ChannelInv /\ IsolationInv
BY DEF Init, ChannelInv, IsolationInv, Addressed

\* An event is delivered to connections of its tenant only: the listeners of
\* a dataset's channel are all of the dataset's tenant (_can_subscribe), and
\* nobody listens on "approvals".
THEOREM TenantsIsolated == Spec => []TenantIsolation
<1>1. IsolationInv => TenantIsolation BY DEF IsolationInv, Addressed, TenantIsolation
<1> QED BY <1>1, RegistryStarts, RegistryKept, CountStarts, CountKept, ChannelKept,
        IsolationStarts, IsolationKept, PTL DEF Spec

-----------------------------------------------------------------------------
(* Whoever listens gets the event.                                         *)

ListenInv ==
  /\ steady \in [Events -> SUBSET Conns]
  /\ \A e \in Events : \A c \in steady[e] :
       c \in Listening(e) /\ pub[e].started /\ Copies(e, c) = 1

LEMMA ListenKept ==
  ASSUME RegistryInv, CountInv, ChannelInv, ListenInv, [Next]_vars
  PROVE  ListenInv'
<1>1. CASE UNCHANGED vars
  BY <1>1 DEF vars, connVars, registryVars, pubVars, historyVars, ListenInv, Listening, Recipients,
              Registered, Copies
<1>2. CASE Next
  <2>1. steady' = [e \in Events |->
                     IF pub[e].started THEN steady[e] \intersect Listening(e)'
                     ELSE IF pub[e].started' THEN Listening(e) \intersect Listening(e)'
                     ELSE {}]
    BY <1>2, TrackStep DEF Track
  <2>2. \A e \in Events : \A c \in Listening(e) :
          c \in Conns /\ TenantOf[c] = EventTenant[e] /\ c \in connections[EventTenant[e]]
    BY RecipientsAreTenants DEF Listening
  <2>3. steady' \in [Events -> SUBSET Conns] BY <2>1, <2>2 DEF ListenInv
  <2> SUFFICES ASSUME NEW e \in Events, NEW c \in steady'[e]
               PROVE  c \in Listening(e)' /\ pub'[e].started /\ Copies(e, c)' = 1
    BY <2>3 DEF ListenInv
  <2>4. c \in Conns BY <2>3
  <2>5. c \in Listening(e)' /\ c \in Listening(e)
    BY <2>1 DEF ListenInv
  <2>6. \/ pub[e].started /\ c \in steady[e] /\ Copies(e, c) = 1
        \/ ~pub[e].started /\ pub'[e].started
    BY <2>1 DEF ListenInv
  <2>7. /\ pub[e].calls \in Nat /\ pub[e].sends[c] \in Nat /\ delivered[e][c] \in Nat
    BY <2>4 DEF CountInv, PubType, PubRow
  <2>8. CASE UNCHANGED <<pub[e], delivered[e]>>
    BY <2>5, <2>6, <2>8 DEF Copies
  <2>9. CASE Publish(e)
    <3>1. ~pub[e].started /\ Copies(e, c) = 0
      BY <2>4, <2>9 DEF Publish, CountInv
    <3>2. pub[e].sends[c] = 0 /\ delivered[e][c] = 0 BY <2>7, <3>1 DEF Copies
    <3>3. subscribers[EventTenant[e]] = 1
      BY <2>2, <2>5, EventAssumption DEF RegistryInv, BusFollowsRegistry
    <3>4. /\ UNCHANGED delivered /\ pub'[e].started
          /\ pub'[e].calls = 1 /\ pub'[e].sends = pub[e].sends
      BY <2>9, <3>3, PublishFacts DEF CountInv
    <3> QED BY <2>5, <3>2, <3>4 DEF Copies
  <2>10. CASE HandleEvent(e)
    <3>1. pub[e].calls > 0 BY <2>10 DEF HandleEvent
    <3>2. pub[e].started /\ Copies(e, c) = 1
      BY <2>4, <2>6, <2>7, <3>1 DEF CountInv, Copies
    <3>3. c \in Recipients(ChannelOf[e]) BY <2>5 DEF Listening
    <3>4. /\ UNCHANGED delivered /\ pub'[e].started = pub[e].started
          /\ pub'[e].calls = pub[e].calls - 1
          /\ pub'[e].sends[c] = pub[e].sends[c] + 1
      BY <2>4, <2>10, <3>3, HandleEventFacts DEF CountInv
    <3> QED BY <2>5, <2>7, <3>2, <3>4 DEF Copies
  <2>11. ASSUME NEW d \in Conns, Send(e, d)
         PROVE  c \in Listening(e)' /\ pub'[e].started /\ Copies(e, c)' = 1
    <3>1. pub'[e].started = pub[e].started /\ pub'[e].calls = pub[e].calls
      BY <2>11, SendFacts DEF CountInv
    <3>2. pub[e].started /\ Copies(e, c) = 1 BY <2>6, <3>1
    <3>3. CASE c = d
      <4>1. socket[c] = "open" BY <2>5 DEF Listening
      <4>2. pub'[e].sends[c] = pub[e].sends[c] - 1 /\ delivered'[e][c] = delivered[e][c] + 1
        BY <2>11, <3>3, <4>1, SendFacts DEF CountInv
      <4> QED BY <2>5, <2>7, <3>1, <3>2, <4>2 DEF Copies
    <3>4. CASE c # d
      <4>1. pub'[e].sends[c] = pub[e].sends[c] /\ delivered'[e][c] = delivered[e][c]
        BY <2>4, <2>11, <3>4, SendFacts DEF CountInv
      <4> QED BY <2>5, <3>1, <3>2, <4>1 DEF Copies
    <3> QED BY <3>3, <3>4
  <2>12. ASSUME NEW f \in Events \ {e}, \/ Publish(f) \/ HandleEvent(f)
                                        \/ \E d \in Conns : Send(f, d)
         PROVE  UNCHANGED <<pub[e], delivered[e]>>
    BY <2>12, PublishFacts, HandleEventFacts, SendFacts DEF CountInv
  <2>13. CASE UNCHANGED pubVars BY <2>8, <2>13 DEF pubVars
  <2> QED BY <2>8, <2>9, <2>10, <2>11, <2>12, <2>13, PublishStep DEF PublishNext
<1> QED BY <1>1, <1>2

LEMMA ListenStarts == Init => ListenInv
BY DEF Init, ListenInv

LEMMA FinishedServed == CountInv /\ ListenInv => ListenersServed
<1> SUFFICES ASSUME CountInv, ListenInv, NEW e \in Events, Finished(e), NEW c \in steady[e]
             PROVE  delivered[e][c] = 1
  BY DEF ListenersServed
<1>1. c \in Conns /\ Copies(e, c) = 1 BY DEF ListenInv
<1>2. delivered[e][c] \in Nat BY <1>1 DEF CountInv, PubType
<1> QED BY <1>1, <1>2 DEF Finished, Copies

\* When publish() returns, every connection that has listened to the channel
\* since before the call has got the event, exactly once, whatever the other
\* connections of the tenant did meanwhile (the second disconnect of an
\* evicted one included).
THEOREM ListenersGetIt == Spec => []ListenersServed
BY FinishedServed, RegistryStarts, RegistryKept, CountStarts, CountKept, ChannelKept,
   IsolationStarts, ListenStarts, ListenKept, PTL DEF Spec

-----------------------------------------------------------------------------
(* Publications, step by step.                                             *)

OutboxInv == RegistryInv /\ CountInv /\ ChannelInv /\ IsolationInv /\ ListenInv

LEMMA OutboxKept == OutboxInv /\ [Next]_vars => OutboxInv'
BY RegistryKept, CountKept, ChannelKept, IsolationKept, ListenKept DEF OutboxInv

LEMMA ListenersInAudience ==
  RegistryInv /\ ChannelInv => \A e \in Events : Listening(e) \subseteq Outbox!Audience(e)
BY RecipientsAreTenants DEF Listening, Outbox!Audience

\* The tasks of publish() leave the listeners alone, and so those that have
\* listened throughout; a publication that begins has all of them.
LEMMA TasksTrack ==
  ASSUME ListenInv, Next, PublishNext
  PROVE  /\ \A e \in Events : Listening(e)' = Listening(e)
         /\ steady' = [e \in Events |-> IF ~pub[e].started /\ pub'[e].started
                                        THEN Listening(e) ELSE steady[e]]
<1>1. UNCHANGED <<connVars, registryVars>>
  BY DEF PublishNext, Publish, HandleEvent, Send
<1>2. \A e \in Events : Listening(e)' = Listening(e)
  BY <1>1 DEF connVars, registryVars, Listening, Recipients, Registered
<1>3. steady' = [e \in Events |->
                   IF pub[e].started THEN steady[e] \intersect Listening(e)'
                   ELSE IF pub[e].started' THEN Listening(e) \intersect Listening(e)'
                   ELSE {}]
  BY TrackStep DEF Track
<1>4. \A e \in Events : /\ steady[e] \subseteq Listening(e)
                        /\ ~pub[e].started => steady[e] = {}
  BY DEF ListenInv
<1> QED BY <1>2, <1>3, <1>4

\* An event whose counters have moved is under way, or done when everybody
\* it is owed to has it.
LEMMA StageMoves ==
  ASSUME NEW e \in Events, pub'[e].started,
         \A f \in Events \ {e} : pub'[f] = pub[f],
         Finished(e)' => \A c \in steady'[e] : delivered'[e][c] = 1
  PROVE  Outbox!Progress(e)
<1> DEFINE stages == [f \in Events |-> Stage(f)]
<1>1. \A f \in Events \ {e} : Stage(f)' = Stage(f) BY DEF Stage, Finished
<1>2. Stage(e)' = IF Finished(e)' THEN "done" ELSE "under way" BY DEF Stage
<1>3. stages' = [stages EXCEPT ![e] = Stage(e)'] BY <1>1
<1> QED BY <1>2, <1>3 DEF Outbox!Progress, Outbox!Served

LEMMA OutboxStarts == Init => Outbox!Init
BY DEF Init, Outbox!Init, Listening, Recipients, Registered, Stage, Finished

LEMMA OutboxStep ==
  ASSUME OutboxInv, [Next]_vars PROVE Outbox!Next \/ UNCHANGED Outbox!vars
<1>1. CASE UNCHANGED vars
  <2>1. \A e \in Events : Listening(e)' = Listening(e) /\ Stage(e)' = Stage(e)
    BY <1>1 DEF vars, connVars, registryVars, pubVars, Listening, Recipients, Registered,
                Stage, Finished
  <2> QED BY <1>1, <2>1 DEF vars, pubVars, historyVars, Outbox!vars
<1>2. CASE Next /\ UNCHANGED pubVars
  <2>1. \A e \in Events : Listening(e)' \subseteq Outbox!Audience(e)
    <3>1. (RegistryInv /\ ChannelInv)' =>
            (\A e \in Events : Listening(e) \subseteq Outbox!Audience(e))'
      BY ListenersInAudience, PTL
    <3> QED BY <3>1, OutboxKept DEF OutboxInv, Outbox!Audience
  <2>2. [e \in Events |-> Listening(e)]' \in [Events -> SUBSET Conns]
    BY <2>1 DEF Outbox!Audience
  <2>3. steady' = [e \in Events |-> steady[e] \intersect Listening(e)']
    <3>1. \A e \in Events : ~pub[e].started => steady[e] = {}
      BY DEF OutboxInv, ListenInv
    <3> QED BY <1>2, <3>1, TrackStep DEF Track, pubVars
  <2>4. \A e \in Events : Stage(e)' = Stage(e)
    BY <1>2 DEF pubVars, Stage, Finished
  <2>5. Outbox!Turn BY <1>2, <2>1, <2>2, <2>3, <2>4 DEF Outbox!Turn, pubVars
  <2> QED BY <2>5 DEF Outbox!Next
<1>3. ASSUME Next, PublishNext PROVE Outbox!Next \/ UNCHANGED Outbox!vars
  <2>1. /\ \A e \in Events : Listening(e)' = Listening(e)
        /\ steady' = [e \in Events |-> IF ~pub[e].started /\ pub'[e].started
                                       THEN Listening(e) ELSE steady[e]]
    BY <1>3, TasksTrack DEF OutboxInv
  <2>2. \A e \in Events : Finished(e)' => \A c \in steady'[e] : delivered'[e][c] = 1
    <3>1. (CountInv /\ ListenInv)' => ListenersServed' BY FinishedServed, PTL
    <3> QED BY <1>3, <3>1, OutboxKept DEF OutboxInv, ListenersServed
  <2>3. steady \in [Events -> SUBSET Conns] BY DEF OutboxInv, ListenInv
  <2>4. ASSUME NEW e \in Events, Publish(e) PROVE Outbox!Start(e)
    <3>1. /\ ~pub[e].started /\ pub'[e].started /\ UNCHANGED delivered
          /\ \A f \in Events \ {e} : pub'[f] = pub[f]
      BY <2>4, PublishFacts DEF OutboxInv, CountInv, Publish
    <3>2. steady' = [steady EXCEPT ![e] = Listening(e)]
      <4>1. \A f \in Events \ {e} : ~(~pub[f].started /\ pub'[f].started) BY <3>1
      <4> QED BY <2>1, <2>3, <3>1, <4>1
    <3>3. Outbox!Progress(e) BY <2>2, <3>1, StageMoves
    <3>4. Stage(e) = "unpublished" BY <3>1 DEF Stage, Finished
    <3> QED BY <2>1, <3>1, <3>2, <3>3, <3>4 DEF Outbox!Start
  <2>5. ASSUME NEW e \in Events, HandleEvent(e) PROVE Outbox!Finish(e)
    <3>1. /\ pub[e].started /\ pub'[e].started /\ UNCHANGED delivered
          /\ \A f \in Events \ {e} : pub'[f] = pub[f]
          /\ ~Finished(e)
      <4>1. pub[e].calls \in Nat /\ pub[e].calls > 0
        BY <2>5 DEF OutboxInv, CountInv, PubType, PubRow, HandleEvent
      <4> QED BY <2>5, <4>1, HandleEventFacts DEF OutboxInv, CountInv, Finished
    <3>2. UNCHANGED steady BY <2>1, <2>3, <3>1
    <3>3. Outbox!Progress(e) BY <2>2, <3>1, StageMoves
    <3>4. Stage(e) = "under way" BY <3>1 DEF Stage
    <3> QED BY <2>1, <3>1, <3>2, <3>3, <3>4 DEF Outbox!Finish
  <2>6. ASSUME NEW e \in Events, NEW c \in Conns, Send(e, c)
        PROVE  Outbox!Reach(e, c) \/ Outbox!Finish(e)
    <3>1. /\ pub[e].sends[c] \in Nat /\ pub[e].sends[c] > 0
          /\ delivered[e][c] \in Nat /\ pub[e].calls \in Nat
          /\ delivered \in [Events -> [Conns -> Nat]]
      BY <2>6 DEF OutboxInv, CountInv, PubType, PubRow, Send
    <3>2. pub[e].started /\ delivered[e][c] = 0 /\ ~Finished(e)
      <4>1. Copies(e, c) <= 1 /\ (~pub[e].started => Copies(e, c) = 0)
        BY DEF OutboxInv, CountInv
      <4> DEFINE calls == pub[e].calls
                 sends == pub[e].sends[c]
                 had == delivered[e][c]
      <4>2. Copies(e, c) # 0 /\ (Copies(e, c) <= 1 => had = 0)
        <5>1. Copies(e, c) = calls + sends + had BY DEF Copies
        <5>2. calls \in Nat /\ sends \in Nat /\ sends > 0 /\ had \in Nat BY <3>1
        <5> HIDE DEF calls, sends, had
        <5> QED BY <5>1, <5>2
      <4>3. ~Finished(e) BY <3>1 DEF Finished
      <4> QED BY <4>1, <4>2, <4>3
    <3>3. pub'[e].started /\ \A f \in Events \ {e} : pub'[f] = pub[f]
      BY <2>6, <3>2, SendFacts DEF OutboxInv, CountInv
    <3>4. UNCHANGED steady BY <2>1, <2>3, <3>2, <3>3
    <3>5. Outbox!Progress(e) BY <2>2, <3>3, StageMoves
    <3>6. Stage(e) = "under way" BY <3>2 DEF Stage
    <3>7. CASE socket[c] = "open"
      <4>1. delivered' = [delivered EXCEPT ![e][c] = 1]
        BY <2>6, <3>1, <3>2, <3>7 DEF Send
      <4>2. c \in Outbox!Audience(e)
        BY <3>1 DEF OutboxInv, IsolationInv, Addressed, Outbox!Audience
      <4> QED BY <2>1, <3>2, <3>4, <3>5, <3>6, <4>1, <4>2 DEF Outbox!Reach
    <3>8. CASE socket[c] # "open"
      <4>1. UNCHANGED delivered BY <2>6, <3>8 DEF Send
      <4> QED BY <2>1, <3>4, <3>5, <3>6, <4>1 DEF Outbox!Finish
    <3> QED BY <3>7, <3>8
  <2> QED BY <1>3, <2>4, <2>5, <2>6 DEF PublishNext, Outbox!Next
<1> QED BY <1>1, <1>2, <1>3, PublishStep

\* Callbacks, tasks, sockets, sweep and endpoints together implement the
\* abstract publication, whatever connections do in between.
THEOREM PublicationIsImplemented == Spec => ImplementsPublication
<1>1. Init => OutboxInv
  BY RegistryStarts, CountStarts, IsolationStarts, ListenStarts DEF OutboxInv
<1>2. OutboxInv /\ [Next]_vars => [Outbox!Next]_(Outbox!vars)
  BY OutboxStep
<1> QED BY <1>1, <1>2, OutboxKept, OutboxStarts, PTL
     DEF Spec, ImplementsPublication, Outbox!Spec

-----------------------------------------------------------------------------
(* The life of a connection.                                               *)

Listed(c) == c \in connections[TenantOf[c]]

LEMMA ListedAlone ==
  ASSUME RegistryInv, NEW c \in Conns PROVE Listed(c) <=> c \in Registered
<1>1. TenantOf[c] \in Tenants BY ConnAssumption
<1> QED BY <1>1 DEF RegistryInv, Listed, Registered

LEMMA ConnectLists ==
  ASSUME RegistryInv, NEW c \in Conns, Connect(c)
  PROVE  \A d \in Conns : Listed(d)' <=> Listed(d) \/ d = c
<1>1. TenantOf \in [Conns -> Tenants] BY ConnAssumption
<1>2. connections' = [connections EXCEPT ![TenantOf[c]] = @ \union {c}] BY DEF Connect
<1> QED BY <1>1, <1>2 DEF RegistryInv, Listed

LEMMA DisconnectUnlists ==
  ASSUME RegistryInv, NEW c \in Conns, Disconnect(c)
  PROVE  \A d \in Conns : Listed(d)' <=> Listed(d) /\ d # c
<1>1. TenantOf \in [Conns -> Tenants] BY ConnAssumption
<1>2. connections' = [connections EXCEPT ![TenantOf[c]] = @ \ {c}] BY DEF Disconnect
<1> QED BY <1>1, <1>2 DEF RegistryInv, Listed

LifeType ==
  /\ socket \in [Conns -> {"new", "open", "stalled", "closed"}]
  /\ loop \in [Conns -> {"idle", "accepting", "receiving", "checking",
                         "replying", "leaving", "ended"}]
  /\ sweep \in [stale : SUBSET Conns, closing : Conns \union {NoConn}]

\* An open socket is listed until its endpoint leaves, and closed when it has
\* ended; the sweep holds no connection that has not been accepted, and only
\* closed ones in its hand.
Alive(c) ==
  /\ loop[c] \in {"idle", "accepting"} <=> socket[c] = "new"
  /\ loop[c] \in {"leaving", "ended"} => ~Listed(c)
  /\ loop[c] = "ended" => socket[c] = "closed"
  /\ socket[c] \in {"open", "stalled"} => Listed(c) \/ loop[c] = "leaving"
  /\ Listed(c) => socket[c] # "new"
  /\ c \in sweep.stale => socket[c] # "new"
  /\ sweep.closing = c => socket[c] = "closed"

LifeInv == LifeType /\ \A c \in Conns : Alive(c)

LEMMA LifeKept == ASSUME RegistryInv, LifeInv, [Next]_vars PROVE LifeInv'
<1> USE DEF LifeInv, LifeType, Alive
<1>1. CASE UNCHANGED vars
  BY <1>1 DEF vars, connVars, registryVars, Listed
<1>2. ASSUME NEW c \in Conns, Authenticate(c) PROVE LifeInv'
  <2>1. UNCHANGED <<registryVars, sweep>> BY <1>2 DEF Authenticate
  <2>2. \A d \in Conns : Listed(d)' <=> Listed(d) BY <2>1 DEF registryVars, Listed
  <2> QED BY <1>2, <2>1, <2>2 DEF Authenticate
<1>3. ASSUME NEW c \in Conns, Register(c) PROVE LifeInv'
  <2>1. \A d \in Conns : Listed(d)' <=> Listed(d) \/ d = c
    BY <1>3, ConnectLists DEF Register
  <2> QED BY <1>3, <2>1 DEF Register
<1>4. ASSUME NEW c \in Conns, LoopEnds(c) \/ LoopBreaks(c) PROVE LifeInv'
  <2>1. Leave(c) /\ loop[c] \in {"receiving", "replying", "checking"}
    BY <1>4 DEF LoopEnds, LoopBreaks, Hears
  <2>2. \A d \in Conns : Listed(d)' <=> Listed(d) /\ d # c
    BY <2>1, DisconnectUnlists DEF Leave
  <2> QED BY <2>1, <2>2 DEF Leave
<1>5. ASSUME NEW c \in Conns, \/ Ping(c) \/ Babble(c) \/ Reply(c) \/ ReceiveTimeout(c)
                              \/ \E S \in SUBSET Channels : Subscribe(c, S) \/ Unsubscribe(c, S)
                              \/ \E ch \in Channels : CheckChannel(c, ch)
      PROVE  LifeInv'
  <2>1. UNCHANGED <<registryVars, sweep>>
    BY <1>5 DEF Ping, Babble, Reply, ReceiveTimeout, Subscribe, Unsubscribe, CheckChannel
  <2>2. \A d \in Conns : Listed(d)' <=> Listed(d) BY <2>1 DEF registryVars, Listed
  <2>3. \/ UNCHANGED socket
        \/ socket[c] # "closed" /\ loop' = loop /\ socket' = [socket EXCEPT ![c] = "closed"]
    BY <1>5 DEF Ping, Babble, Reply, ReceiveTimeout, Subscribe, Unsubscribe, CheckChannel, Hears
  <2>4. /\ loop[c] \in {"receiving", "checking", "replying"}
        /\ \E l \in {"receiving", "checking", "replying"} : loop' = [loop EXCEPT ![c] = l]
    BY <1>5 DEF Ping, Babble, Reply, ReceiveTimeout, Subscribe, Unsubscribe, CheckChannel, Hears
  <2> QED BY <2>1, <2>2, <2>3, <2>4
<1>6. ASSUME NEW c \in Conns, ClientNext(c) PROVE LifeInv'
  <2>1. UNCHANGED <<registryVars, sweep, loop>>
    BY <1>6 DEF ClientNext, ClientCloses, ClientStalls, ClientRecovers, SocketTurns, Age
  <2>2. \A d \in Conns : Listed(d)' <=> Listed(d) BY <2>1 DEF registryVars, Listed
  <2>3. \/ UNCHANGED socket
        \/ /\ socket[c] \in {"open", "stalled"}
           /\ \E to \in {"open", "stalled", "closed"} : socket' = [socket EXCEPT ![c] = to]
    BY <1>6 DEF ClientNext, ClientCloses, ClientStalls, ClientRecovers, SocketTurns, Age
  <2>4. sweep.closing = c => UNCHANGED socket BY <2>3
  <2> QED BY <2>1, <2>2, <2>3, <2>4
<1>7. ASSUME NEW stale \in SUBSET Conns, CloseNext(stale), UNCHANGED loop,
             \A c \in stale : socket[c] # "new",
             \A d \in Conns : Listed(d)' => Listed(d),
             \A d \in Conns : Listed(d) /\ ~Listed(d)' => socket[d] = "closed"
      PROVE  LifeInv'
  <2>1. CASE UNCHANGED socket /\ sweep' = [stale |-> {}, closing |-> NoConn]
    BY <1>7, <2>1, ConnAssumption
  <2>2. ASSUME NEW c \in stale, sweep' = [stale |-> stale \ {c}, closing |-> c],
               socket' = [socket EXCEPT ![c] = "closed"]
        PROVE  LifeInv'
    BY <1>7, <2>2
  <2> QED BY <1>7, <2>1, <2>2 DEF CloseNext
<1>8. CASE SweepStarts
  <2>1. UNCHANGED <<registryVars, loop>> /\ CloseNext(Registered \ fresh)
    BY <1>8 DEF SweepStarts
  <2>2. \A d \in Conns : Listed(d)' <=> Listed(d) BY <2>1 DEF registryVars, Listed
  <2>3. Registered \subseteq Conns BY DEF Registered, RegistryInv
  <2>4. \A c \in Registered \ fresh : socket[c] # "new" BY <2>3, ListedAlone
  <2>5. Registered \ fresh \in SUBSET Conns BY <2>3
  <2> QED BY <1>7, <2>1, <2>2, <2>4, <2>5
<1>9. ASSUME NEW c \in Conns, SweepGoesOn(c) PROVE LifeInv'
  <2>1. UNCHANGED loop /\ CloseNext(sweep.stale) /\ sweep.closing = c
    BY <1>9 DEF SweepGoesOn
  <2>2. \A d \in Conns : Listed(d)' <=> Listed(d) /\ d # c
    BY <1>9, DisconnectUnlists DEF SweepGoesOn
  <2> QED BY <1>7, <2>1, <2>2
<1>10. CASE PublishNext \/ RoleNext
  <2>1. UNCHANGED <<connVars, registryVars, sweep>>
    BY <1>10 DEF PublishNext, Publish, HandleEvent, Send, RoleNext, ChangeRoles
  <2> QED BY <2>1 DEF connVars, registryVars, Listed
<1>11. ASSUME NEW c \in Conns, EndpointReturns(c) PROVE LifeInv'
  <2>1. UNCHANGED <<registryVars, sweep>> BY <1>11 DEF EndpointReturns
  <2>2. \A d \in Conns : Listed(d)' <=> Listed(d) BY <2>1 DEF registryVars, Listed
  <2> QED BY <1>11, <2>1, <2>2 DEF EndpointReturns
<1> QED BY <1>1, <1>2, <1>3, <1>4, <1>5, <1>6, <1>8, <1>9, <1>10, <1>11
     DEF Next, ServerNext, ConnNext, SweepNext

LEMMA LifeStarts == Init => LifeInv
BY ConnAssumption DEF Init, LifeInv, LifeType, Alive, Listed

\* A client whose socket is up is in the registry, but for the time between
\* its endpoint's finally and its return; an endpoint that leaves or has ended
\* is out of it, and has no open socket once it has ended
\* (websocket_endpoint, WSManager.cleanup_stale_connections).
THEOREM ServedAreRegistered == Spec => []ServedIsRegistered
<1>1. RegistryInv /\ LifeInv => ServedIsRegistered
  BY ListedAlone DEF LifeInv, Alive, Listed, ServedIsRegistered
<1> QED BY <1>1, RegistryStarts, RegistryKept, LifeStarts, LifeKept, PTL DEF Spec

-----------------------------------------------------------------------------
(* Types.                                                                  *)

\* What no other invariant has the type of.
SideType ==
  /\ asked \in [Conns -> SUBSET Channels]
  /\ denied \in [Conns -> SUBSET Channels]
  /\ fresh \subseteq Conns
  /\ granted \subseteq Conns \X DatasetChannels
  /\ roles \in [Conns -> SUBSET DatasetChannels]
  /\ steady \in [Events -> SUBSET Conns]
  /\ readable \in [Conns -> SUBSET DatasetChannels]

sideVars == <<asked, denied, fresh, granted, roles>>

LEMMA SideKept == ASSUME RegistryInv, RegistryInv', SideType, [Next]_vars PROVE SideType'
<1> USE DEF SideType
<1>1. /\ steady' \in [Events -> SUBSET Conns]
      /\ readable' \in [Conns -> SUBSET DatasetChannels]
  <2>1. CASE UNCHANGED vars BY <2>1 DEF vars, historyVars
  <2>2. CASE Next
    <3>1. Track BY <2>2, TrackStep
    <3>2. \A e \in Events : Listening(e) \subseteq Conns
      BY DEF Listening, Recipients, Registered, RegistryInv
    <3> QED BY <3>1, <3>2 DEF Track
  <2> QED BY <2>1, <2>2
<1>2. CASE UNCHANGED sideVars BY <1>1, <1>2 DEF sideVars
<1>3. ASSUME NEW c \in Conns, ConnNext(c) PROVE SideType'
  <2>1. CASE Authenticate(c) BY <1>1, <2>1 DEF Authenticate
  <2>2. CASE Register(c) \/ Ping(c) \/ Babble(c) \/ Reply(c) \/ ReceiveTimeout(c) \/ EndpointReturns(c)
    BY <1>1, <2>2 DEF Register, Ping, Babble, Reply, ReceiveTimeout, EndpointReturns
  <2>3. ASSUME NEW S \in SUBSET Channels, Subscribe(c, S) \/ Unsubscribe(c, S)
        PROVE  SideType'
    BY <1>1, <2>3 DEF Subscribe, Unsubscribe
  <2>4. ASSUME NEW ch \in Channels, CheckChannel(c, ch) PROVE SideType'
    BY <1>1, <2>4 DEF CheckChannel
  <2>5. CASE LoopEnds(c) \/ LoopBreaks(c)
    BY <1>1, <2>5 DEF LoopEnds, LoopBreaks, Leave
  <2> QED BY <1>3, <2>1, <2>2, <2>3, <2>4, <2>5 DEF ConnNext
<1>4. ASSUME NEW c \in Conns, ClientNext(c) PROVE SideType'
  BY <1>1, <1>4
     DEF ClientNext, ClientCloses, ClientStalls, ClientRecovers, SocketTurns, Age
<1>5. CASE SweepNext
  BY <1>2, <1>5 DEF SweepNext, SweepStarts, SweepGoesOn, sideVars
<1>6. CASE PublishNext
  BY <1>2, <1>6 DEF PublishNext, Publish, HandleEvent, Send, connVars, sideVars
<1>7. CASE RoleNext BY <1>1, <1>7 DEF RoleNext, ChangeRoles, connVars
<1>8. CASE UNCHANGED vars BY <1>2, <1>8 DEF vars, connVars, sideVars
<1> QED BY <1>3, <1>4, <1>5, <1>6, <1>7, <1>8 DEF Next, ServerNext

LEMMA SideStarts == Init => SideType
BY DEF Init, SideType

\* Every table of the bus and the manager holds what it is declared to hold.
THEOREM TypeCorrect == Spec => []TypeOK
<1>1. RegistryInv /\ CountInv /\ ChannelInv /\ LifeInv /\ SideType => TypeOK
  BY DEF RegistryInv, CountInv, PubType, PubRow, ChannelInv, LifeInv, LifeType,
         SideType, TypeOK
<1>2. RegistryInv /\ SideType /\ [Next]_vars => SideType'
  BY RegistryKept, SideKept
<1> QED BY <1>1, <1>2, RegistryStarts, RegistryKept, CountStarts, CountKept,
           IsolationStarts, ChannelKept, LifeStarts, LifeKept, SideStarts,
           PTL DEF Spec

-----------------------------------------------------------------------------
(* Who may read.                                                           *)

Granted(c) == {ch \in DatasetChannels : <<c, ch>> \in granted}

\* Only the handshake gives roles, and it comes once.
LEMMA HandshakeStep ==
  ASSUME LifeInv, SideType, [Next]_vars, NEW c \in Conns
  PROVE  /\ loop'[c] = "idle" => loop[c] = "idle"
         /\ readable[c] # readable'[c] => loop[c] = "idle"
         /\ \/ roles'[c] \subseteq roles[c]
            \/ roles'[c] = Granted(c) /\ readable'[c] = Granted(c)
<1> USE DEF LifeInv, LifeType, SideType
<1>1. CASE UNCHANGED vars BY <1>1 DEF vars, connVars, historyVars
<1>2. CASE Next
  <2>1. readable'[c] = IF loop[c] = "idle" /\ loop'[c] = "accepting" THEN Granted(c)
                       ELSE readable[c]
    BY <1>2, TrackStep DEF Track, Granted
  <2>2. ASSUME NEW d \in Conns, ConnNext(d)
        PROVE  /\ loop'[c] = "idle" => loop[c] = "idle"
               /\ \/ roles'[c] \subseteq roles[c]
                  \/ /\ loop[c] = "idle" /\ loop'[c] = "accepting"
                     /\ roles'[c] = Granted(c)
    <3>1. CASE Authenticate(d) BY <3>1 DEF Authenticate, Granted
    <3>2. CASE Register(d) \/ Ping(d) \/ Babble(d) \/ Reply(d) \/ ReceiveTimeout(d) \/ EndpointReturns(d)
      BY <3>2 DEF Register, Ping, Babble, Reply, ReceiveTimeout, EndpointReturns
    <3>3. CASE \E S \in SUBSET Channels : Subscribe(d, S) \/ Unsubscribe(d, S)
      BY <3>3 DEF Subscribe, Unsubscribe
    <3>4. ASSUME NEW ch \in Channels, CheckChannel(d, ch)
          PROVE  /\ loop'[c] = "idle" => loop[c] = "idle"
                 /\ roles'[c] \subseteq roles[c]
      BY <3>4 DEF CheckChannel
    <3>5. CASE LoopEnds(d) \/ LoopBreaks(d) BY <3>5 DEF LoopEnds, LoopBreaks, Leave
    <3> QED BY <2>2, <3>1, <3>2, <3>3, <3>4, <3>5 DEF ConnNext
  <2>3. CASE \E d \in Conns : ClientNext(d)
    BY <2>1, <2>3
       DEF ClientNext, ClientCloses, ClientStalls, ClientRecovers, SocketTurns, Age
  <2>4. CASE SweepNext BY <2>1, <2>4 DEF SweepNext, SweepStarts, SweepGoesOn
  <2>5. CASE PublishNext \/ RoleNext
    <3>1. UNCHANGED connVars
      BY <2>5 DEF PublishNext, Publish, HandleEvent, Send, RoleNext, ChangeRoles
    <3> QED BY <2>1, <3>1 DEF connVars
  <2> QED BY <1>2, <2>1, <2>2, <2>3, <2>4, <2>5 DEF Next, ServerNext
<1> QED BY <1>1, <1>2

\* What a connection holds, hears or is sent, its user could read.
AccessInv ==
  /\ \A c \in Conns :
       /\ loop[c] = "idle" => readable[c] = {}
       /\ roles[c] \subseteq readable[c]
       /\ channels[c] \intersect DatasetChannels \subseteq readable[c]
  /\ \A e \in Events, c \in Conns : Addressed(e, c) => ChannelOf[e] \in readable[c]

LEMMA AccessKept ==
  ASSUME RegistryInv, CountInv, ChannelInv, LifeInv, SideType, AccessInv, [Next]_vars
  PROVE  AccessInv'
<1>1. \A c \in Conns : readable[c] \subseteq readable'[c]
  BY HandshakeStep DEF AccessInv
<1>2. \A c \in Conns : loop'[c] = "idle" => readable'[c] = {}
  BY HandshakeStep, TrackStep DEF AccessInv, Track, vars, historyVars
<1>3. \A c \in Conns : roles'[c] \subseteq readable'[c]
  BY <1>1, HandshakeStep DEF AccessInv
<1>4. \A c \in Conns : channels'[c] \intersect DatasetChannels \subseteq readable'[c]
  <2>1. CASE UNCHANGED channels BY <1>1, <2>1 DEF AccessInv
  <2>2. ASSUME NEW d \in Conns, NEW left \in SUBSET channels[d],
               channels' = [channels EXCEPT ![d] = left], NEW c \in Conns
        PROVE  channels'[c] \intersect DatasetChannels \subseteq readable'[c]
    BY <1>1, <2>2 DEF AccessInv, ChannelInv
  <2>3. ASSUME NEW d \in Conns, NEW ch \in Channels, CanSubscribe(d, ch),
               channels' = [channels EXCEPT ![d] = @ \union {ch}], NEW c \in Conns
        PROVE  channels'[c] \intersect DatasetChannels \subseteq readable'[c]
    <3>1. ch \in DatasetChannels => ch \in roles[d]
      BY <2>3, ChannelAssumption DEF CanSubscribe
    <3> QED BY <1>1, <2>3, <3>1 DEF AccessInv, ChannelInv
  <2> QED BY <2>1, <2>2, <2>3, ChannelStep
<1>5. ASSUME NEW e \in Events, NEW c \in Conns, Addressed(e, c)'
      PROVE  ChannelOf[e] \in readable'[c]
  <2>1. CASE Addressed(e, c) BY <1>1, <2>1 DEF AccessInv
  <2>2. CASE c \in Recipients(ChannelOf[e])
    BY <1>1, <2>2, RecipientsAreTenants DEF AccessInv
  <2> QED BY <1>5, <2>1, <2>2, OnlyRecipients
<1> QED BY <1>2, <1>3, <1>4, <1>5 DEF AccessInv

LEMMA AccessStarts == Init => AccessInv
BY DEF Init, AccessInv, Addressed

\* An event of a dataset is delivered only to connections whose user could
\* read the dataset at the handshake, while roles come and go, queries fail
\* and connections are evicted with sends under way.
THEOREM OnlyReaders == Spec => []ReadersOnly
<1>1. AccessInv => ReadersOnly BY DEF AccessInv, Addressed, ReadersOnly
<1>2. RegistryInv /\ SideType /\ [Next]_vars => SideType'
  BY RegistryKept, SideKept
<1> QED BY <1>1, <1>2, RegistryStarts, RegistryKept, CountStarts, CountKept,
           IsolationStarts, ChannelKept, LifeStarts, LifeKept, SideStarts,
           AccessStarts, AccessKept, PTL DEF Spec
=============================================================================
