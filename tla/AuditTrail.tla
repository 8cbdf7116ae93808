----------------------------- MODULE AuditTrail -----------------------------
(***************************************************************************)
(* What the audit log promises about users, without requests, handlers and *)
(* transactions: the status of a user changes only together with an entry  *)
(* that names it, which is in the log at once or on its way there; an      *)
(* entry on its way arrives or goes missing; nothing else comes into the   *)
(* log, and nothing leaves it.                                             *)
(***************************************************************************)
CONSTANTS
  Users,
  Entries,     \* records with the user concerned, on, and the status
  Nothing,     \* an entry without a status
  FirstStatus  \* of the users there are to begin with

VARIABLES
  status,    \* of each user there is
  onTheWay,  \* entries that have been announced
  log,
  missing    \* entries that will never be in the log

vars == <<status, onTheWay, log, missing>>

Init ==
  /\ status = FirstStatus
  /\ onTheWay = {}
  /\ log = {}
  /\ missing = {}

\* New users are active, and leave no entry.
Join(u) ==
  /\ u \notin DOMAIN status
  /\ status' = [v \in DOMAIN status \union {u} |-> IF v = u THEN "active" ELSE status[v]]
  /\ UNCHANGED <<onTheWay, log, missing>>

\* What entry e is about happens; the entry may be in the log already.
Announce(e) ==
  /\ e.on \in DOMAIN status
  /\ status' = IF e.status = Nothing THEN status ELSE [status EXCEPT ![e.on] = e.status]
  /\ \/ onTheWay' = onTheWay \union {e} /\ UNCHANGED log
     \/ log' = log \union {e} /\ UNCHANGED onTheWay
  /\ UNCHANGED missing

\* A second entry like it may still be on its way.
Leaves(e) == e \in onTheWay /\ onTheWay' \in {onTheWay, onTheWay \ {e}}

Arrive(e) ==
  /\ Leaves(e)
  /\ log' = log \union {e}
  /\ UNCHANGED <<status, missing>>

GoMissing(e) ==
  /\ Leaves(e)
  /\ missing' = missing \union {e}
  /\ UNCHANGED <<status, log>>

Next ==
  \/ \E u \in Users : Join(u)
  \/ \E e \in Entries : Announce(e) \/ Arrive(e) \/ GoMissing(e)

Spec == Init /\ [][Next]_vars
=============================================================================
