--------------------------- MODULE RecordHistory ---------------------------
(***************************************************************************)
(* What the record store promises, without workflows, approvers or steps:  *)
(* every record is one line of changes, each proposed change takes effect  *)
(* at most once, and only on the very state it was proposed against; a     *)
(* deletion ends the line.                                                 *)
(***************************************************************************)
EXTENDS Integers, Sequences

CONSTANTS Records, Versions, NoRecord

VARIABLES
  log,       \* per record, the changes that took effect, in order
  proposal   \* per change, what is known of it

histVars == <<log, proposal>>

Nothing == [state |-> "none", op |-> "insert", target |-> NoRecord, base |-> 0]

HistInit ==
  /\ log = [r \in Records |-> <<>>]
  /\ proposal = [v \in Versions |-> Nothing]

Deleted(r) == /\ log[r] # <<>>
              /\ proposal[log[r][Len(log[r])]].op = "delete"

\* A change is proposed against a record as it stands.
Fresh(p) ==
  \/ /\ p.op = "insert" /\ p.target = NoRecord /\ p.base = 0
  \/ /\ p.op \in {"update", "delete"}
     /\ p.target \in Records
     /\ log[p.target] # <<>> /\ ~Deleted(p.target)
     /\ p.base = Len(log[p.target])

Become(v, p, state) == proposal' = [proposal EXCEPT ![v] = [p EXCEPT !.state = state]]

\* The change p, known as v, takes effect.
TakeEffect(v, p) ==
  \/ /\ p.op = "insert"
     /\ \E r \in Records :
          /\ log[r] = <<>>
          /\ log' = [log EXCEPT ![r] = <<v>>]
          /\ Become(v, [p EXCEPT !.target = r], "applied")
  \/ /\ p.op \in {"update", "delete"}
     /\ Len(log[p.target]) = p.base
     /\ log' = [log EXCEPT ![p.target] = Append(@, v)]
     /\ Become(v, p, "applied")

Propose(v) ==
  /\ proposal[v].state = "none"
  /\ \E op \in {"insert", "update", "delete"}, r \in Records \union {NoRecord} :
       LET p == [state |-> "open", op |-> op, target |-> r,
                 base |-> IF r = NoRecord THEN 0 ELSE Len(log[r])]
       IN  /\ Fresh(p)
           /\ \/ Become(v, p, "open") /\ UNCHANGED log
              \/ TakeEffect(v, p)

Settle(v) ==
  /\ proposal[v].state = "open"
  /\ \/ TakeEffect(v, proposal[v])
     \/ /\ proposal[v].op # "insert"
        /\ Len(log[proposal[v].target]) > proposal[v].base
        /\ Become(v, proposal[v], "stale")
        /\ UNCHANGED log
     \/ Become(v, proposal[v], "withdrawn") /\ UNCHANGED log

HistNext == \E v \in Versions : Propose(v) \/ Settle(v)

HistSpec == HistInit /\ [][HistNext]_histVars
=============================================================================
