----------------------------- MODULE MCRealtime -----------------------------
(***************************************************************************)
(* Small instances of live events for TLC.                                 *)
(***************************************************************************)
EXTENDS RealtimeProperties, TLC

CONSTANTS c1, c2, c3, t1, t2, d1, e1

\* Two connections of one tenant, one of another.
Neighbours == (c1 :> t1) @@ (c2 :> t1) @@ (c3 :> t2)
Alone == (c1 :> t1)

DatasetOwner == (d1 :> t1)
NoOwner == <<>>

DatasetEvent == (e1 :> d1)
TenantEvent == (e1 :> t1)

\* Any two of the connections take part, colleagues or strangers.  Roles
\* change while the stranger is there, who keeps its role for the other
\* tenant's dataset.
TakePart == {c \in Conns : loop[c] # "idle"}
PairInit == Init /\ <<c3, d1>> \in granted
PairNext ==
  /\ ServerNext \/ (c3 \in TakePart /\ RoleNext)
  /\ Cardinality(TakePart') <= 2
  /\ <<c3, d1>> \in granted'
PairSpec == PairInit /\ [][PairNext]_vars

Symmetry == Permutations({c1, c2})
=============================================================================
