---------------------- MODULE ApprovalRefinementProofs ----------------------
(***************************************************************************)
(* For every number of users, records and pending changes, and whatever    *)
(* administrators change meanwhile: the tables implement RecordHistory.    *)
(***************************************************************************)
EXTENDS ApprovalHistoryProofs

-----------------------------------------------------------------------------
(* The line of a record.                                                   *)

LineIsHistory ==
  \A r \in Records :
    /\ Line(r) \in Seq(Versions)
    /\ Len(Line(r)) = records[r].version
    /\ \A k \in 1 .. records[r].version :
         Line(r)[k] \in AppliedTo(r) /\ Produced(Line(r)[k]) = k

LEMMA LineFacts == TypeOK /\ SerialHistory => LineIsHistory
<1> SUFFICES ASSUME TypeOK, SerialHistory, NEW r \in Records
             PROVE  /\ Line(r) \in Seq(Versions)
                    /\ Len(Line(r)) = records[r].version
                    /\ \A k \in 1 .. records[r].version :
                         Line(r)[k] \in AppliedTo(r) /\ Produced(Line(r)[k]) = k
  BY DEF LineIsHistory
<1>1. records[r].version \in Nat
  BY DEF TypeOK, RecordRow
<1>2. ASSUME NEW k \in 1 .. records[r].version
      PROVE  Line(r)[k] \in AppliedTo(r) /\ Produced(Line(r)[k]) = k
  <2>1. \E v \in AppliedTo(r) : Produced(v) = k
    BY DEF SerialHistory
  <2>2. Line(r)[k] = CHOOSE v \in AppliedTo(r) : Produced(v) = k
    BY DEF Line
  <2> QED BY <2>1, <2>2
<1>3. \A k \in 1 .. records[r].version : Line(r)[k] \in Versions
  BY <1>2 DEF AppliedTo
<1>4. Line(r) \in [1 .. records[r].version -> Versions]
  BY <1>3 DEF Line
<1> QED BY <1>1, <1>2, <1>4

LEMMA NextLineFacts == TypeOK' /\ SerialHistory' => LineIsHistory'
BY LineFacts, PTL

\* A line holds at k the change that has produced version k.
LEMMA EntryOfLine ==
  ASSUME TypeOK', SerialHistory', NEW r \in Records, NEW k \in 1 .. records'[r].version,
         NEW w \in AppliedTo(r)', Produced(w)' = k
  PROVE  Line(r)'[k] = w
BY NextLineFacts DEF LineIsHistory, SerialHistory

\* A record that no change took effect on keeps its line.
LEMMA LineKept ==
  ASSUME TypeOK, TypeOK', SerialHistory, SerialHistory', NEW r \in Records,
         records'[r].version = records[r].version,
         \A w \in AppliedTo(r) : w \in AppliedTo(r)' /\ Produced(w)' = Produced(w)
  PROVE  Line(r)' = Line(r)
<1>1. /\ Line(r) \in Seq(Versions) /\ Line(r)' \in Seq(Versions)
      /\ Len(Line(r)) = records[r].version /\ Len(Line(r)') = records[r].version
  BY LineFacts, NextLineFacts DEF LineIsHistory
<1>2. \A k \in 1 .. records[r].version : Line(r)'[k] = Line(r)[k]
  BY LineFacts, EntryOfLine DEF LineIsHistory
<1> QED BY <1>1, <1>2

\* A record that the change v took effect on has v at the end of its line.
LEMMA LineExtended ==
  ASSUME TypeOK, TypeOK', SerialHistory, SerialHistory', NEW r \in Records, NEW v \in Versions,
         records'[r].version = records[r].version + 1,
         v \in AppliedTo(r)', Produced(v)' = records[r].version + 1,
         \A w \in AppliedTo(r) : w \in AppliedTo(r)' /\ Produced(w)' = Produced(w)
  PROVE  Line(r)' = Append(Line(r), v)
<1> DEFINE n == records[r].version
<1>1. /\ n \in Nat
      /\ Line(r) \in Seq(Versions) /\ Line(r)' \in Seq(Versions)
      /\ Len(Line(r)) = n /\ Len(Line(r)') = n + 1
  BY LineFacts, NextLineFacts DEF LineIsHistory, TypeOK, RecordRow
<1>2. \A k \in 1 .. n : Line(r)'[k] = Line(r)[k]
  BY <1>1, LineFacts, EntryOfLine DEF LineIsHistory
<1>3. Line(r)'[n + 1] = v
  BY <1>1, EntryOfLine
<1> HIDE DEF n
<1>4. \A k \in 1 .. n + 1 : Line(r)'[k] = Append(Line(r), v)[k]
  BY <1>1, <1>2, <1>3
<1>5. Append(Line(r), v) \in Seq(Versions) /\ Len(Append(Line(r), v)) = n + 1
  BY <1>1
<1> QED BY <1>1, <1>4, <1>5

-----------------------------------------------------------------------------
(* What a step does to the row of one change.                              *)

\* A row as RecordService writes it, and as apply() may leave it at once: it
\* was proposed against the record as it stands.
ProposedNow(row) ==
  IF row.op = "insert" THEN row.base = 0
  ELSE /\ row.record \in Records /\ records[row.record].status = "active"
       /\ row.base = records[row.record].version

\* A pending change keeps what was proposed; an insert gets its record when
\* it is applied.
Moves(v) ==
  LET old == versions[v]
      new == versions'[v]
  IN  \/ /\ old.state = "unused" /\ new.state \in {"pending", "applied"}
         /\ ProposedNow(new)
         /\ new.state = "pending" /\ new.op = "insert" => new.record = NoRecord
      \/ /\ old.state = "pending"
         /\ new.op = old.op /\ new.base = old.base
         /\ new.record = old.record \/ (new.op = "insert" /\ new.state = "applied")
         /\ new.state # "unused"
         /\ new.state = "superseded" => new.op # "insert"

LEMMA ApplyMoves ==
  ASSUME TypeOK, NEW v \in Versions, NEW row \in VersionRow, Apply(v, row)
  PROVE  LET new == versions'[v]
         IN  /\ new.op = row.op /\ new.base = row.base
             /\ new.record = row.record \/ (new.op = "insert" /\ new.state = "applied")
             /\ \/ new.state = "applied"
                \/ new.state = "superseded" /\ new.op # "insert" /\ ~BaseIsCurrent(row)
             /\ Alone(v)
<1>1. versions \in [Versions -> VersionRow]
  BY DEF TypeOK
<1>2. ASSUME NEW other \in VersionRow, NEW state, Decide(v, other, state)
      PROVE  /\ versions'[v].state = state /\ versions'[v].op = other.op
             /\ versions'[v].base = other.base /\ versions'[v].record = other.record
             /\ Alone(v)
  BY <1>1, <1>2 DEF Decide, VersionRow, Alone
<1>3. CASE ApplyInsert(v, row)
  <2>1. PICK r \in Records : Decide(v, [row EXCEPT !.record = r], "applied")
    BY <1>3 DEF ApplyInsert
  <2> DEFINE other == [row EXCEPT !.record = r]
  <2>2. other \in VersionRow /\ other.op = row.op /\ other.base = row.base
    BY DEF VersionRow
  <2> HIDE DEF other
  <2>3. /\ versions'[v].state = "applied" /\ versions'[v].op = other.op
        /\ versions'[v].base = other.base /\ Alone(v)
    BY <1>2, <2>1, <2>2 DEF other
  <2>4. row.op = "insert"
    BY <1>3 DEF ApplyInsert
  <2> QED BY <2>2, <2>3, <2>4
<1>4. CASE ApplyUpdate(v, row)
  BY <1>2, <1>4 DEF ApplyUpdate
<1>5. CASE ApplyDelete(v, row)
  BY <1>2, <1>5 DEF ApplyDelete
<1>6. CASE Supersede(v, row)
  BY <1>2, <1>6 DEF Supersede
<1> QED BY <1>3, <1>4, <1>5, <1>6 DEF Apply

\* A row that was written just now is not stale.
LEMMA SubmitMoves ==
  ASSUME TypeOK, NEW v \in Versions, NEW row \in VersionRow, row.state = "pending",
         ProposedNow(row), row.op = "insert" => row.record = NoRecord, Submit(v, row)
  PROVE  Moves(v) /\ Alone(v)
<1>1. versions[v].state = "unused" /\ versions \in [Versions -> VersionRow]
  BY DEF Submit, TypeOK
<1>2. ASSUME NEW other \in VersionRow, Apply(v, other),
             other.op = row.op, other.base = row.base, other.record = row.record
      PROVE  Moves(v) /\ Alone(v)
  <2>1. other.op # "insert" => BaseIsCurrent(other)
    BY <1>2 DEF ProposedNow, BaseIsCurrent
  <2> QED BY <1>1, <1>2, <2>1, ApplyMoves DEF Moves, ProposedNow
<1>3. CASE SubmitAuto(v, row)
  BY <1>2, <1>3 DEF SubmitAuto
<1>4. CASE SubmitUnopposed(v, row)
  <2> DEFINE other == [row EXCEPT !.workflow = datasetWorkflow]
  <2>1. other \in VersionRow
    BY RowUpdateType DEF TypeOK
  <2>2. other.op = row.op /\ other.base = row.base /\ other.record = row.record
    BY DEF VersionRow
  <2>3. Apply(v, other)
    BY <1>4 DEF SubmitUnopposed
  <2> HIDE DEF other
  <2> QED BY <1>2, <2>1, <2>2, <2>3
<1>5. CASE SubmitPending(v, row)
  <2> DEFINE first == FirstStep(row)
             c == Candidates(steps[datasetWorkflow][first], grants)
             other == [row EXCEPT !.workflow = datasetWorkflow, !.step = first,
                         !.snapshot[first] = c]
  <2>1. versions' = [versions EXCEPT ![v] = other]
    BY <1>5 DEF SubmitPending
  <2> HIDE DEF first, c
  <2>2. /\ other.op = row.op /\ other.record = row.record /\ other.base = row.base
        /\ other.state = "pending"
    BY DEF VersionRow
  <2> HIDE DEF other
  <2>3. versions'[v] = other /\ Alone(v)
    BY <1>1, <2>1 DEF Alone
  <2> QED BY <1>1, <2>2, <2>3 DEF Moves, ProposedNow
<1> QED BY <1>3, <1>4, <1>5 DEF Submit

\* Whatever the step, at most one row moves.
LEMMA StepMoves ==
  ASSUME TypeInv, HistoryInv, [Next]_vars
  PROVE  \/ versions' = versions
         \/ \E v \in Versions : Moves(v) /\ Alone(v)
<1>1. TypeOK /\ AbsentUnversioned /\ versions \in [Versions -> VersionRow]
  BY DEF TypeInv, TypeOK, HistoryInv
<1>2. ASSUME NEW op \in Ops, NEW r \in Records \union {NoRecord}, NEW v \in Versions,
             NEW after \in Payloads \union {NoPayload}, NEW expected \in Nat, NEW u \in Users,
             op = "insert" <=> r = NoRecord,
             op # "insert" => records[r].status = "active",
             op = "update" => records[r].version = expected,
             Submit(v, ProposedRow(op, r, after, expected, u))
      PROVE  Moves(v) /\ Alone(v)
  <2> DEFINE row == ProposedRow(op, r, after, expected, u)
  <2>1. row \in VersionRow /\ row.state = "pending"
    BY <1>1, <1>2, ProposedRowSound
  <2>2. /\ row.op = op /\ row.record = r
        /\ row.base = IF r = NoRecord THEN 0 ELSE records[r].version
    BY DEF ProposedRow, UnusedRow
  <2>3. Submit(v, row)
    BY <1>2
  <2> HIDE DEF row
  <2>4. ProposedNow(row) /\ (row.op = "insert" => row.record = NoRecord)
    BY <1>2, <2>2 DEF ProposedNow
  <2> QED BY <1>1, <2>1, <2>3, <2>4, SubmitMoves
<1>3. CASE Propose
  <2>1. ASSUME NEW u \in Users, NEW v \in Versions, NEW after \in Payloads,
               CreateRecord(u, v, after)
        PROVE  Moves(v) /\ Alone(v)
    <3>1. "insert" \in Ops /\ NoRecord \in Records \union {NoRecord} /\ 0 \in Nat
          /\ after \in Payloads \union {NoPayload}
      BY DEF Ops
    <3> QED BY <1>2, <2>1, <3>1 DEF CreateRecord
  <2>2. ASSUME NEW u \in Users, NEW v \in Versions, NEW r \in Records,
               NEW after \in Payloads, NEW expected \in 1 .. records[r].version,
               UpdateRecord(u, v, r, after, expected)
        PROVE  Moves(v) /\ Alone(v)
    <3>1. "update" \in Ops /\ r \in Records \union {NoRecord} /\ r # NoRecord
          /\ expected \in Nat /\ after \in Payloads \union {NoPayload}
      BY <1>1, IdAssumption DEF Ops, TypeOK, RecordRow
    <3> QED BY <1>2, <2>2, <3>1 DEF UpdateRecord
  <2>3. ASSUME NEW u \in Users, NEW v \in Versions, NEW r \in Records,
               DeleteRecord(u, v, r)
        PROVE  Moves(v) /\ Alone(v)
    <3>1. "delete" \in Ops /\ r \in Records \union {NoRecord} /\ r # NoRecord
          /\ 0 \in Nat /\ NoPayload \in Payloads \union {NoPayload}
      BY IdAssumption DEF Ops
    <3> QED BY <1>2, <2>3, <3>1 DEF DeleteRecord
  <2> QED BY <1>3, <2>1, <2>2, <2>3 DEF Propose
<1>4. ASSUME NEW v \in Versions, versions[v].state = "pending", Apply(v, versions[v])
      PROVE  Moves(v) /\ Alone(v)
  BY <1>1, <1>4, ApplyMoves DEF Moves
<1>5. ASSUME NEW v \in Versions, NEW state \in {"rejected", "cancelled"},
             versions[v].state = "pending",
             versions' = [versions EXCEPT ![v].state = state]
      PROVE  Moves(v) /\ Alone(v)
  <2>1. /\ versions'[v].state = state /\ versions'[v].op = versions[v].op
        /\ versions'[v].base = versions[v].base /\ versions'[v].record = versions[v].record
        /\ Alone(v)
    BY <1>1, <1>5 DEF VersionRow, Alone
  <2> QED BY <1>5, <2>1 DEF Moves
<1>6. ASSUME NEW v \in Versions, versions[v].state = "pending", AdvanceStep(v)
      PROVE  Moves(v) /\ Alone(v)
  <2>1. /\ versions'[v].state = "pending" /\ versions'[v].op = versions[v].op
        /\ versions'[v].base = versions[v].base /\ versions'[v].record = versions[v].record
        /\ Alone(v)
    BY <1>1, <1>6 DEF AdvanceStep, VersionRow, Alone
  <2> QED BY <1>6, <2>1 DEF Moves
<1>7. CASE Review
  <2>1. ASSUME NEW u \in Users, NEW v \in Versions, Approve(u, v)
        PROVE  versions' = versions \/ (Moves(v) /\ Alone(v))
    BY <1>4, <1>6, <2>1 DEF Approve, MayDecide, ApproveOnly, ApproveLast
  <2>2. ASSUME NEW u \in Users, NEW v \in Versions, Reject(u, v) \/ Cancel(u, v)
        PROVE  Moves(v) /\ Alone(v)
    BY <1>5, <2>2 DEF Reject, Cancel, MayDecide
  <2> QED BY <1>7, <2>1, <2>2 DEF Review
<1>8. CASE ConfigNext \/ UNCHANGED vars
  BY <1>8 DEF ConfigNext, RoleNext, UpdateWorkflow, SetDatasetWorkflow, AssignRole,
       RevokeRole, vars
<1> QED BY <1>3, <1>7, <1>8 DEF Next, EngineNext

\* A change takes effect, is shelved, or nothing happens to the two tables;
\* and the row moves as it may.
LEMMA StepOfChange ==
  ASSUME TypeInv, HistoryInv, [Next]_vars, ~UNCHANGED <<records, versions>>
  PROVE  \E v \in Versions :
           /\ Undecided(v)
           /\ (\E r \in Records : TookEffect(v, r)) \/ Shelved(v)
           /\ Moves(v) \/ versions' = versions
<1>1. versions \in [Versions -> VersionRow] /\ versions' \in [Versions -> VersionRow]
  BY TypeStep DEF TypeInv, TypeOK
<1>2. PICK v \in Versions :
        /\ Undecided(v)
        /\ (\E r \in Records : TookEffect(v, r)) \/ Shelved(v)
  BY StepShape
<1>3. Alone(v)
  BY <1>2 DEF TookEffect, Shelved
<1>4. CASE versions' # versions
  <2>1. PICK w \in Versions : Moves(w) /\ Alone(w)
    BY <1>4, StepMoves
  <2>2. CASE v = w
    BY <1>2, <2>1, <2>2
  <2>3. CASE v # w
    <3>1. \A x \in Versions : versions'[x] = versions[x]
      BY <1>3, <2>1, <2>3 DEF Alone
    <3> QED BY <1>1, <1>4, <3>1
  <2> QED BY <2>2, <2>3
<1> QED BY <1>2, <1>4

-----------------------------------------------------------------------------
(* The lines and the proposals after a step.                               *)

\* A change that is not in effect is on no line, and the others stay.
LEMMA OthersKept ==
  ASSUME NEW v \in Versions, Undecided(v), Alone(v)
  PROVE  /\ \A q \in Records : \A w \in AppliedTo(q) :
              w \in AppliedTo(q)' /\ Produced(w)' = Produced(w)
         /\ \A w \in Versions \ {v} : ProposalOf(w)' = ProposalOf(w)
<1>1. \A q \in Records : v \notin AppliedTo(q)
  BY DEF Undecided, AppliedTo
<1>2. \A w \in Versions \ {v} : versions'[w] = versions[w]
  BY DEF Alone
<1> QED BY <1>1, <1>2 DEF AppliedTo, Produced, ProposalOf

LEMMA EffectLines ==
  ASSUME TypeOK, TypeOK', SerialHistory, SerialHistory', NEW v \in Versions,
         NEW r \in Records, Undecided(v), TookEffect(v, r)
  PROVE  /\ Line(r)' = Append(Line(r), v)
         /\ \A q \in Records \ {r} : Line(q)' = Line(q)
<1>1. \A q \in Records : \A w \in AppliedTo(q) :
        w \in AppliedTo(q)' /\ Produced(w)' = Produced(w)
  BY OthersKept DEF TookEffect
<1>2. /\ v \in AppliedTo(r)' /\ records'[r].version = records[r].version + 1
      /\ Produced(v)' = records[r].version + 1
  BY DEF TookEffect, AppliedTo, Produced
<1>3. Line(r)' = Append(Line(r), v)
  BY <1>1, <1>2, LineExtended
<1>4. ASSUME NEW q \in Records \ {r}
      PROVE  Line(q)' = Line(q)
  <2>1. records'[q].version = records[q].version
    BY DEF TookEffect
  <2> QED BY <1>1, <2>1, LineKept
<1> QED BY <1>3, <1>4

LEMMA ShelvedLines ==
  ASSUME TypeOK, TypeOK', SerialHistory, SerialHistory', NEW v \in Versions,
         Undecided(v), Shelved(v)
  PROVE  \A q \in Records : Line(q)' = Line(q)
<1>1. \A q \in Records : \A w \in AppliedTo(q) :
        w \in AppliedTo(q)' /\ Produced(w)' = Produced(w)
  BY OthersKept DEF Shelved
<1>2. \A q \in Records : records'[q].version = records[q].version
  BY DEF Shelved
<1> QED BY <1>1, <1>2, LineKept

-----------------------------------------------------------------------------
(* The tables as the abstract history sees them.                           *)

Log == [r \in Records |-> Line(r)]
Proposal == [v \in Versions |-> ProposalOf(v)]

\* An active record has a line, and its last change is no deletion.
LEMMA ActiveNotDeleted ==
  ASSUME TypeOK, HistoryInv, NEW r \in Records, records[r].status = "active"
  PROVE  Line(r) # <<>> /\ ~History!Deleted(r)
<1> DEFINE n == records[r].version
           w == Line(r)[n]
<1>1. n \in Nat /\ n # 0
  BY DEF TypeOK, RecordRow, HistoryInv, AbsentUnversioned
<1>2. /\ Line(r) \in Seq(Versions) /\ Len(Line(r)) = n
      /\ w \in AppliedTo(r) /\ Produced(w) = n
  BY <1>1, LineFacts DEF HistoryInv, LineIsHistory
<1>3. versions[w].op # "delete"
  BY <1>2 DEF HistoryInv, RecordIsLastWrite
<1>4. Proposal[w].op = versions[w].op
  BY <1>2 DEF Proposal, ProposalOf, AppliedTo
<1>5. Log[r] = Line(r)
  BY DEF Log
<1> QED BY <1>1, <1>2, <1>3, <1>4, <1>5 DEF History!Deleted, Log, Proposal

\* A change moved alone: so did what is known of it.
LEMMA ProposalsMove ==
  ASSUME NEW v \in Versions, Undecided(v), Alone(v)
  PROVE  Proposal' = [Proposal EXCEPT ![v] = ProposalOf(v)']
BY OthersKept DEF Proposal

LEMMA LogExtended ==
  ASSUME TypeOK, TypeOK', SerialHistory, SerialHistory', NEW v \in Versions,
         NEW r \in Records, Undecided(v), TookEffect(v, r)
  PROVE  Log' = [Log EXCEPT ![r] = Append(Line(r), v)]
BY EffectLines DEF Log

LEMMA LogKept ==
  ASSUME TypeOK, TypeOK', SerialHistory, SerialHistory', NEW v \in Versions,
         Undecided(v), Shelved(v)
  PROVE  Log' = Log
BY ShelvedLines DEF Log

LEMMA StagesApart ==
  /\ Stage("unused") = "none" /\ Stage("pending") = "open"
  /\ Stage("applied") = "applied" /\ Stage("superseded") = "stale"
  /\ Stage("rejected") = "withdrawn" /\ Stage("cancelled") = "withdrawn"
BY DEF Stage

-----------------------------------------------------------------------------
(* Each step is a step of the abstract history, or nothing there.          *)

\* The change v takes effect there as well: on the record it names, or, an
\* insert, on a record that has no line yet.
LEMMA EffectIsTakeEffect ==
  ASSUME TypeOK, TypeOK', SerialHistory, SerialHistory', NEW v \in Versions,
         NEW r \in Records, Undecided(v), TookEffect(v, r),
         NEW state,
         NEW target, target = r \/ versions'[v].op = "insert"
  PROVE  LET p == [state |-> state, op |-> versions'[v].op, target |-> target,
                   base |-> versions'[v].base]
         IN  History!TakeEffect(v, p)
<1> DEFINE op == versions'[v].op
           base == versions'[v].base
           p == [state |-> state, op |-> op, target |-> target, base |-> base]
<1>1. op \in Ops
  BY DEF TypeOK, VersionRow
<1>2. Log' = [Log EXCEPT ![r] = Append(Line(r), v)] /\ Log[r] = Line(r)
  BY LogExtended DEF Log
<1>3. Proposal' = [Proposal EXCEPT ![v] = ProposalOf(v)']
  BY ProposalsMove DEF TookEffect
<1>4. ProposalOf(v)' = [state |-> "applied", op |-> op, target |-> r, base |-> base]
  BY StagesApart DEF ProposalOf, TookEffect
<1>5. /\ Len(Line(r)) = records[r].version /\ Line(r) \in Seq(Versions)
      /\ records[r].version = IF op = "insert" THEN 0 ELSE base
  BY LineFacts DEF LineIsHistory, TookEffect
<1> HIDE DEF op, base
<1>6. CASE op = "insert"
  <2>1. Line(r) = <<>> /\ Append(Line(r), v) = <<v>>
    BY <1>5, <1>6
  <2>2. [[p EXCEPT !.target = r] EXCEPT !.state = "applied"] = ProposalOf(v)'
    <3>1. [p EXCEPT !.target = r] = [state |-> state, op |-> op, target |-> r, base |-> base]
      OBVIOUS
    <3>2. [[state |-> state, op |-> op, target |-> r, base |-> base]
             EXCEPT !.state = "applied"] = ProposalOf(v)'
      BY <1>4
    <3> HIDE DEF p
    <3> QED BY <3>1, <3>2
  <2>3. Log[r] = <<>> /\ Log' = [Log EXCEPT ![r] = <<v>>]
    BY <1>2, <2>1
  <2>4. History!Become(v, [p EXCEPT !.target = r], "applied")
    BY <1>3, <2>2 DEF History!Become, Proposal
  <2>5. History!TakeEffect(v, p)
    BY <1>6, <2>3, <2>4 DEF History!TakeEffect, Log
  <2> QED BY <2>5 DEF op, base
<1>7. CASE op # "insert"
  <2>1. op \in {"update", "delete"} /\ target = r
    BY <1>1, <1>7 DEF Ops, op
  <2>2. [p EXCEPT !.state = "applied"] = ProposalOf(v)'
    BY <1>4, <2>1
  <2>3. Len(Log[r]) = base /\ Log' = [Log EXCEPT ![r] = Append(@, v)]
    BY <1>2, <1>5, <1>7
  <2>4. History!Become(v, p, "applied")
    BY <1>3, <2>2 DEF History!Become, Proposal
  <2>5. History!TakeEffect(v, p)
    BY <2>1, <2>3, <2>4 DEF History!TakeEffect, Log
  <2> QED BY <2>5 DEF op, base
<1> QED BY <1>6, <1>7 DEF op, base

\* A change that is written, with the effect it may have at once, is proposed
\* there.
LEMMA WrittenIsProposed ==
  ASSUME TypeOK, TypeOK', HistoryInv, HistoryInv', NEW v \in Versions,
         versions[v].state = "unused", Moves(v),
         (\E r \in Records : TookEffect(v, r)) \/ Shelved(v)
  PROVE  History!Propose(v)
<1> DEFINE new == versions'[v]
<1>1. /\ Undecided(v) /\ SerialHistory /\ SerialHistory'
      /\ new.op \in Ops /\ Proposal[v].state = "none"
  BY StagesApart DEF Undecided, HistoryInv, TypeOK, VersionRow, Proposal, ProposalOf
<1>2. /\ new.state \in {"pending", "applied"} /\ ProposedNow(new)
      /\ (new.state = "pending" /\ new.op = "insert" => new.record = NoRecord)
  BY DEF Moves
<1> DEFINE target == IF new.op = "insert" THEN NoRecord ELSE new.record
           p == [state |-> "open", op |-> new.op, target |-> target, base |-> new.base]
<1>3. /\ target \in Records \union {NoRecord}
      /\ new.base = IF target = NoRecord THEN 0 ELSE Len(Log[target])
      /\ History!Fresh(p)
  <2>1. CASE new.op = "insert"
    BY <1>2, <2>1 DEF ProposedNow, History!Fresh
  <2>2. CASE new.op # "insert"
    <3>1. /\ new.op \in {"update", "delete"} /\ target = new.record
          /\ target \in Records /\ target # NoRecord
          /\ records[target].status = "active" /\ new.base = records[target].version
      BY <1>1, <1>2, <2>2, IdAssumption DEF Ops, ProposedNow
    <3> HIDE DEF target
    <3>2. Log[target] = Line(target) /\ Len(Line(target)) = new.base
      BY <1>1, <3>1, LineFacts DEF Log, LineIsHistory
    <3>3. Line(target) # <<>> /\ ~History!Deleted(target)
      BY <3>1, ActiveNotDeleted
    <3> QED BY <3>1, <3>2, <3>3 DEF History!Fresh, Log
  <2> QED BY <2>1, <2>2
<1>4. History!TakeEffect(v, p) \/ (History!Become(v, p, "open") /\ Log' = Log)
  <2>1. ASSUME NEW r \in Records, TookEffect(v, r)
        PROVE  History!TakeEffect(v, p)
    <3>1. target = r \/ new.op = "insert"
      BY <2>1 DEF TookEffect
    <3> HIDE DEF target
    <3> QED BY <1>1, <2>1, <3>1, EffectIsTakeEffect
  <2>2. CASE Shelved(v)
    <3>1. new.state = "pending" /\ Alone(v) /\ new.record = target
      BY <1>2, <2>2 DEF Shelved
    <3>2. ProposalOf(v)' = [p EXCEPT !.state = "open"]
      BY <3>1, StagesApart DEF ProposalOf
    <3>3. Proposal' = [Proposal EXCEPT ![v] = ProposalOf(v)']
      BY <1>1, <3>1, ProposalsMove
    <3>4. Log' = Log
      BY <1>1, <2>2, LogKept
    <3> QED BY <3>2, <3>3, <3>4 DEF History!Become, Proposal
  <2> QED BY <2>1, <2>2
<1>5. new.op \in {"insert", "update", "delete"}
  BY <1>1 DEF Ops
<1>6. p = [state |-> "open", op |-> new.op, target |-> target,
           base |-> IF target = NoRecord THEN 0 ELSE Len(Log[target])]
  BY <1>3
<1> HIDE DEF target
<1> QED BY <1>1, <1>3, <1>4, <1>5, <1>6 DEF History!Propose, Log, Proposal

\* A pending change that is decided is settled there; one that only moved to
\* another approval step stays as it was.
LEMMA DecidedIsSettled ==
  ASSUME TypeOK, TypeOK', HistoryInv, HistoryInv', NEW v \in Versions,
         versions[v].state = "pending", Moves(v),
         (\E r \in Records : TookEffect(v, r)) \/ Shelved(v)
  PROVE  History!Settle(v) \/ (Log' = Log /\ Proposal' = Proposal)
<1> DEFINE old == versions[v]
           new == versions'[v]
<1>1. /\ Undecided(v) /\ SerialHistory /\ SerialHistory'
      /\ new.state \in {"pending", "rejected", "applied", "superseded", "cancelled"}
      /\ new.op = old.op /\ new.base = old.base
      /\ new.record = old.record \/ (new.op = "insert" /\ new.state = "applied")
      /\ new.state = "superseded" => new.op # "insert"
  BY DEF Undecided, HistoryInv, TypeOK, VersionRow, Moves
<1>2. Proposal[v] = [state |-> "open", op |-> old.op, target |-> old.record,
                     base |-> old.base]
  BY StagesApart DEF Proposal, ProposalOf
<1>3. ASSUME NEW r \in Records, TookEffect(v, r)
      PROVE  History!Settle(v)
  <2>1. old.record = r \/ new.op = "insert"
    BY <1>1, <1>3 DEF TookEffect
  <2>2. History!TakeEffect(v, Proposal[v])
    BY <1>1, <1>2, <1>3, <2>1, EffectIsTakeEffect
  <2> QED BY <1>2, <2>2 DEF History!Settle, Proposal
<1>4. CASE Shelved(v)
  <2>1. /\ new.state # "applied" /\ new.record = old.record
        /\ Log' = Log /\ Proposal' = [Proposal EXCEPT ![v] = ProposalOf(v)']
    BY <1>1, <1>4, LogKept, ProposalsMove DEF Shelved
  <2>2. ProposalOf(v)' = [Proposal[v] EXCEPT !.state = Stage(new.state)]
    BY <1>1, <1>2, <2>1 DEF ProposalOf
  <2> HIDE DEF old, new
  <2>3. ASSUME NEW state, Stage(new.state) = state
        PROVE  History!Become(v, Proposal[v], state)
    <3>1. Proposal' = [Proposal EXCEPT ![v] = [Proposal[v] EXCEPT !.state = state]]
      BY <2>1, <2>2, <2>3
    <3> QED BY <3>1 DEF History!Become, Proposal
  <2>4. CASE new.state = "pending"
    <3>1. ProposalOf(v)' = Proposal[v]
      BY <1>2, <2>2, <2>4, StagesApart
    <3> QED BY <2>1, <3>1 DEF Proposal
  <2>5. CASE new.state = "superseded"
    <3>1. /\ old.record \in Records /\ records[old.record].version > old.base
          /\ old.op # "insert"
      BY <1>1, <1>4, <2>1, <2>5 DEF Shelved, new
    <3>2. Len(Log[old.record]) > old.base
      BY <1>1, <3>1, LineFacts DEF Log, LineIsHistory
    <3>3. History!Become(v, Proposal[v], "stale")
      BY <2>5, <2>3, StagesApart
    <3> QED BY <1>2, <2>1, <3>1, <3>2, <3>3 DEF History!Settle, Log, Proposal
  <2>6. CASE new.state \in {"rejected", "cancelled"}
    <3>1. History!Become(v, Proposal[v], "withdrawn")
      BY <2>6, <2>3, StagesApart
    <3> QED BY <1>2, <2>1, <3>1 DEF History!Settle, Log, Proposal
  <2> QED BY <1>1, <2>1, <2>4, <2>5, <2>6
<1> QED BY <1>3, <1>4

LEMMA ChangeRefines ==
  ASSUME TypeOK, TypeOK', HistoryInv, HistoryInv', NEW v \in Versions, Undecided(v),
         Moves(v) \/ versions' = versions,
         (\E r \in Records : TookEffect(v, r)) \/ Shelved(v)
  PROVE  History!HistNext \/ (Log' = Log /\ Proposal' = Proposal)
<1>1. CASE versions' = versions
  <2>1. Shelved(v)
    BY <1>1 DEF TookEffect, Undecided
  <2>2. Log' = Log
    BY <2>1, LogKept DEF HistoryInv
  <2>3. Proposal' = Proposal
    BY <1>1 DEF Proposal, ProposalOf
  <2> QED BY <2>2, <2>3
<1>2. CASE Moves(v)
  <2>1. CASE versions[v].state = "unused"
    BY <1>2, <2>1, WrittenIsProposed DEF History!HistNext
  <2>2. CASE versions[v].state = "pending"
    BY <1>2, <2>2, DecidedIsSettled DEF History!HistNext
  <2> QED BY <2>1, <2>2 DEF Undecided
<1> QED BY <1>1, <1>2

LEMMA StepRefines == FullInv /\ [Next]_vars => [History!HistNext]_(History!histVars)
<1> SUFFICES ASSUME FullInv, [Next]_vars
             PROVE  [History!HistNext]_(History!histVars)
  OBVIOUS
<1>1. /\ TypeInv /\ HistoryInv /\ TypeOK /\ TypeOK' /\ HistoryInv'
  BY FullStep DEF FullInv, TypeInv
<1>2. History!HistNext \/ (Log' = Log /\ Proposal' = Proposal)
  <2>1. CASE UNCHANGED <<records, versions>>
    <3>1. \A r \in Records : Line(r)' = Line(r)
      BY <2>1 DEF Line, AppliedTo, Produced
    <3>2. \A v \in Versions : ProposalOf(v)' = ProposalOf(v)
      BY <2>1 DEF ProposalOf
    <3> QED BY <3>1, <3>2 DEF Log, Proposal
  <2>2. CASE ~UNCHANGED <<records, versions>>
    <3>1. PICK v \in Versions :
            /\ Undecided(v)
            /\ (\E r \in Records : TookEffect(v, r)) \/ Shelved(v)
            /\ Moves(v) \/ versions' = versions
      BY <1>1, <2>2, StepOfChange
    <3> QED BY <1>1, <3>1, ChangeRefines
  <2> QED BY <2>1, <2>2
<1> QED BY <1>2 DEF History!histVars, Log, Proposal

LEMMA InitRefines == Init => History!HistInit
<1> SUFFICES ASSUME Init PROVE History!HistInit
  OBVIOUS
<1>1. ASSUME NEW r \in Records
      PROVE  Line(r) = <<>>
  <2>1. records[r].version = 0
    BY DEF Init, AbsentRecord
  <2>2. Line(r) = [k \in 1 .. 0 |-> CHOOSE v \in AppliedTo(r) : Produced(v) = k]
    BY <2>1 DEF Line
  <2> QED BY <2>2
<1>2. ASSUME NEW v \in Versions
      PROVE  ProposalOf(v) = History!Nothing
  <2>1. /\ versions[v].state = "unused" /\ versions[v].op = "insert"
        /\ versions[v].record = NoRecord /\ versions[v].base = 0
    BY DEF Init, UnusedRow
  <2> QED BY <2>1, StagesApart DEF ProposalOf, History!Nothing
<1> QED BY <1>1, <1>2 DEF History!HistInit

\* The two tables are one line of changes per record: whatever approvers and
\* administrators do, each change takes effect at most once, and only on the
\* state of the record it was proposed against.
THEOREM HistoryIsImplemented == Spec => ImplementsHistory
BY FullInvariant, StepRefines, InitRefines, PTL
   DEF Spec, ImplementsHistory, History!HistSpec
=============================================================================
