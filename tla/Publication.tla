----------------------------- MODULE Publication -----------------------------
(***************************************************************************)
(* What publish() promises, without bus, callbacks, tasks or sockets: a    *)
(* publication begins, reaches connections of the event's tenant, each at  *)
(* most once, and ends only when every connection has the event that       *)
(* listened when it began and still does.                                  *)
(***************************************************************************)
EXTENDS Naturals

CONSTANTS Events, Conns, TenantOf, EventTenant

VARIABLES
  listening,  \* per event, the connections that listen to its channel
  state,      \* per event, how far its publication is
  owed,       \* per event, those that have listened since it began
  got         \* per event and connection, how often it has arrived

vars == <<listening, state, owed, got>>

Audience(e) == {c \in Conns : TenantOf[c] = EventTenant[e]}

Init ==
  /\ listening = [e \in Events |-> {}]
  /\ state = [e \in Events |-> "unpublished"]
  /\ owed = [e \in Events |-> {}]
  /\ got = [e \in Events |-> [c \in Conns |-> 0]]

\* Connections come, subscribe, stop listening and go.
Turn ==
  /\ listening' \in [Events -> SUBSET Conns]
  /\ \A e \in Events : listening'[e] \subseteq Audience(e)
  /\ owed' = [e \in Events |-> owed[e] \intersect listening'[e]]
  /\ UNCHANGED <<state, got>>

\* Those a publication waits for have the event.
Served(e) == \A c \in owed'[e] : got'[e][c] = 1

Progress(e) ==
  \/ state' = [state EXCEPT ![e] = "under way"]
  \/ Served(e) /\ state' = [state EXCEPT ![e] = "done"]

Start(e) ==
  /\ state[e] = "unpublished"
  /\ owed' = [owed EXCEPT ![e] = listening[e]]
  /\ UNCHANGED <<listening, got>>
  /\ Progress(e)

\* A connection that began to listen, or stopped, since may still get it.
Reach(e, c) ==
  /\ state[e] = "under way"
  /\ c \in Audience(e) /\ got[e][c] = 0
  /\ got' = [got EXCEPT ![e][c] = 1]
  /\ UNCHANGED <<listening, owed>>
  /\ Progress(e)

Finish(e) ==
  /\ state[e] = "under way"
  /\ UNCHANGED <<listening, owed, got>>
  /\ Progress(e)

Next ==
  \/ Turn
  \/ \E e \in Events : Start(e) \/ Finish(e) \/ \E c \in Conns : Reach(e, c)

Spec == Init /\ [][Next]_vars
=============================================================================
