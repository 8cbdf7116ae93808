----------------------- MODULE ApprovalHistoryProofs -----------------------
(***************************************************************************)
(* For every number of users, records and pending changes: the history of  *)
(* a record is one line, and a change takes effect only on the state it    *)
(* was proposed against.                                                   *)
(***************************************************************************)
EXTENDS ApprovalWorkflowProofs

-----------------------------------------------------------------------------
(* The inductive invariant.                                                *)

\* What a change that may still be applied remembers of its record: its base
\* is a version the record has had, and while the record still has that
\* version it is active and holds the payload the change was proposed
\* against.
Sound(row) ==
  /\ row.op = "insert" => row.record = NoRecord
  /\ row.op # "insert" =>
       /\ row.record \in Records
       /\ row.base \in 1 .. records[row.record].version
       /\ row.base = records[row.record].version =>
            /\ records[row.record].status = "active"
            /\ records[row.record].payload = row.before
  /\ row.op = "update" => row.expected = row.base

PendingSound ==
  \A v \in Versions : versions[v].state = "pending" => Sound(versions[v])

AbsentUnversioned ==
  \A r \in Records : records[r].status = "absent" <=> records[r].version = 0

SupersededTarget ==
  \A v \in Versions : versions[v].state = "superseded" => versions[v].record \in Records

HistoryInv ==
  /\ SerialHistory
  /\ RecordIsLastWrite
  /\ SupersededWasStale
  /\ PendingSound
  /\ AbsentUnversioned
  /\ SupersededTarget

-----------------------------------------------------------------------------
(* What a step does to the two tables: one change takes effect on one      *)
(* record, or one change is shelved and no record is touched.              *)

Alone(v) == \A w \in Versions \ {v} : versions'[w] = versions[w]

TookEffect(v, r) ==
  LET row == versions'[v]
  IN  /\ Alone(v)
      /\ \A q \in Records \ {r} : records'[q] = records[q]
      /\ row.state = "applied" /\ row.record = r
      /\ records'[r].version = records[r].version + 1
      /\ records[r].version = IF row.op = "insert" THEN 0 ELSE row.base
      /\ row.op # "insert" => /\ records[r].status = "active"
                              /\ records[r].payload = row.before
      /\ row.op = "update" => records[r].version = row.expected
      /\ IF row.op = "delete"
         THEN records'[r].status = "soft_deleted" /\ records'[r].payload = row.before
         ELSE records'[r].status = "active" /\ records'[r].payload = row.after

Shelved(v) ==
  LET row == versions'[v]
  IN  /\ Alone(v)
      /\ UNCHANGED records
      /\ row.state # "applied"
      /\ row.state = "pending" => Sound(row)
      /\ row.state = "superseded" => /\ row.record \in Records
                                     /\ records[row.record].version > row.base

Undecided(v) == versions[v].state \in {"unused", "pending"}

\* apply() makes a sound change take effect, or shelves it.
LEMMA ApplyShape ==
  ASSUME TypeOK, AbsentUnversioned, NEW v \in Versions, NEW row \in VersionRow,
         Sound(row), Apply(v, row)
  PROVE  (\E r \in Records : TookEffect(v, r)) \/ Shelved(v)
<1>1. /\ records \in [Records -> RecordRow]
      /\ versions \in [Versions -> VersionRow]
  BY DEF TypeOK
<1>2. CASE ApplyInsert(v, row)
  <2>1. PICK r \in Records :
          /\ records[r].status = "absent"
          /\ records' = [records EXCEPT ![r] =
               [status |-> "active", version |-> 1, payload |-> row.after]]
          /\ versions' = [versions EXCEPT ![v] =
               [[row EXCEPT !.record = r] EXCEPT !.state = "applied"]]
    BY <1>2 DEF ApplyInsert, Decide
  <2>2. /\ versions'[v].state = "applied" /\ versions'[v].record = r
        /\ versions'[v].op = "insert" /\ versions'[v].after = row.after
        /\ Alone(v)
    BY <1>1, <1>2, <2>1 DEF ApplyInsert, VersionRow, Alone
  <2>3. /\ records[r].version = 0
        /\ records'[r] = [status |-> "active", version |-> 1, payload |-> row.after]
        /\ \A q \in Records \ {r} : records'[q] = records[q]
    BY <1>1, <2>1 DEF AbsentUnversioned
  <2>4. TookEffect(v, r)
    BY <2>2, <2>3 DEF TookEffect
  <2>5. QED
    BY <2>4
<1>3. ASSUME NEW state \in {"applied", "superseded"}, Decide(v, row, state)
      PROVE  /\ versions'[v].state = state
             /\ versions'[v].op = row.op /\ versions'[v].record = row.record
             /\ versions'[v].base = row.base /\ versions'[v].before = row.before
             /\ versions'[v].after = row.after /\ versions'[v].expected = row.expected
             /\ Alone(v)
  BY <1>1, <1>3 DEF Decide, VersionRow, Alone
<1>4. CASE ApplyUpdate(v, row)
  <2> DEFINE r == row.record
  <2>1. /\ r \in Records /\ row.op = "update"
        /\ records[r].version = row.base /\ row.expected = row.base
        /\ records[r].status = "active" /\ records[r].payload = row.before
    BY <1>4 DEF ApplyUpdate, BaseIsCurrent, Sound
  <2>2. /\ records'[r].version = records[r].version + 1
        /\ records'[r].payload = row.after
        /\ records'[r].status = records[r].status
        /\ \A q \in Records \ {r} : records'[q] = records[q]
    BY <1>1, <1>4, <2>1 DEF ApplyUpdate, RecordRow
  <2>3. TookEffect(v, r)
    BY <1>3, <1>4, <2>1, <2>2 DEF TookEffect, ApplyUpdate
  <2>4. QED
    BY <2>1, <2>3
<1>5. CASE ApplyDelete(v, row)
  <2> DEFINE r == row.record
  <2>1. /\ r \in Records /\ row.op = "delete"
        /\ records[r].version = row.base
        /\ records[r].status = "active" /\ records[r].payload = row.before
    BY <1>5 DEF ApplyDelete, BaseIsCurrent, Sound
  <2>2. /\ records'[r].version = records[r].version + 1
        /\ records'[r].payload = records[r].payload
        /\ records'[r].status = "soft_deleted"
        /\ \A q \in Records \ {r} : records'[q] = records[q]
    BY <1>1, <1>5, <2>1 DEF ApplyDelete, RecordRow
  <2>3. TookEffect(v, r)
    BY <1>3, <1>5, <2>1, <2>2 DEF TookEffect, ApplyDelete
  <2>4. QED
    BY <2>1, <2>3
<1>6. CASE Supersede(v, row)
  <2>1. /\ row.record \in Records
        /\ row.base \in 1 .. records[row.record].version
        /\ records[row.record].version # row.base
    BY <1>6 DEF Supersede, BaseIsCurrent, Sound
  <2>2. records[row.record].version > row.base
    BY <1>1, <2>1 DEF RecordRow
  <2>3. QED
    BY <1>3, <1>6, <2>1, <2>2 DEF Supersede, Shelved
<1>7. QED
  BY <1>2, <1>4, <1>5, <1>6 DEF Apply

\* A change that takes effect extends the history of its record by one
\* version and leaves every other history and every pending change sound.
LEMMA EffectHistory ==
  ASSUME TypeOK, TypeOK', HistoryInv, NEW v \in Versions, NEW r \in Records,
         Undecided(v), TookEffect(v, r)
  PROVE  HistoryInv'
<1>1. /\ \A q \in Records : records[q].version \in Nat
      /\ \A w \in Versions : versions[w].base \in Nat
      /\ \A w \in Versions : Produced(w) \in Nat
  BY DEF TypeOK, RecordRow, VersionRow, Produced
<1>2. \A w \in Versions \ {v} : versions'[w] = versions[w] /\ Produced(w)' = Produced(w)
  BY DEF TookEffect, Alone, Produced
<1>3. /\ Produced(v)' = records'[r].version
      /\ records'[r].version = records[r].version + 1
  BY DEF TookEffect, Produced
<1>4. /\ AppliedTo(r)' = AppliedTo(r) \union {v} /\ v \notin AppliedTo(r)
      /\ \A q \in Records \ {r} : AppliedTo(q)' = AppliedTo(q) /\ v \notin AppliedTo(q)
  BY <1>2 DEF TookEffect, AppliedTo, Undecided
<1>5. \A q \in Records \ {r} : records'[q] = records[q]
  BY DEF TookEffect
<1>6. SerialHistory'
  <2>1. ASSUME NEW q \in Records \ {r}
        PROVE  /\ \A k \in 1 .. records'[q].version : \E w \in AppliedTo(q)' : Produced(w)' = k
               /\ \A w \in AppliedTo(q)' : Produced(w)' \in 1 .. records'[q].version
               /\ \A w, x \in AppliedTo(q)' : Produced(w)' = Produced(x)' => w = x
    <3>1. AppliedTo(q) \subseteq Versions \ {v}
      BY <1>4 DEF AppliedTo
    <3>2. QED
      BY <1>2, <1>4, <1>5, <3>1 DEF HistoryInv, SerialHistory
  <2>2. AppliedTo(r) \subseteq Versions \ {v}
    BY <1>4 DEF AppliedTo
  <2>3. records'[r].version = records[r].version + 1 /\ records[r].version \in Nat
    BY <1>1, <1>3
  <2>4. ASSUME NEW k \in 1 .. records'[r].version
        PROVE  \E w \in AppliedTo(r)' : Produced(w)' = k
    <3>1. CASE k = records'[r].version
      BY <1>3, <1>4, <3>1
    <3>2. CASE k # records'[r].version
      <4>1. k \in 1 .. records[r].version
        BY <2>3, <3>2
      <4>2. PICK w \in AppliedTo(r) : Produced(w) = k
        BY <4>1 DEF HistoryInv, SerialHistory
      <4>3. QED
        BY <1>2, <1>4, <2>2, <4>2
    <3>3. QED
      BY <3>1, <3>2
  <2>5. \A w \in AppliedTo(r) : Produced(w) \in 1 .. records[r].version
    BY DEF HistoryInv, SerialHistory
  <2>6. \A w \in AppliedTo(r)' : Produced(w)' \in 1 .. records'[r].version
    BY <1>1, <1>2, <1>3, <1>4, <2>2, <2>3, <2>5
  <2>7. ASSUME NEW w \in AppliedTo(r)', NEW x \in AppliedTo(r)', Produced(w)' = Produced(x)'
        PROVE  w = x
    <3>1. \A y \in AppliedTo(r) : Produced(y)' # Produced(v)'
      BY <1>2, <1>3, <2>2, <2>3, <2>5
    <3>2. CASE w = v \/ x = v
      BY <1>4, <2>7, <3>1, <3>2
    <3>3. CASE w # v /\ x # v
      BY <1>2, <1>4, <2>2, <2>7, <3>3 DEF HistoryInv, SerialHistory
    <3>4. QED
      BY <3>2, <3>3
  <2>8. QED
    BY <2>1, <2>4, <2>6, <2>7 DEF SerialHistory
<1>7. RecordIsLastWrite'
  <2>1. ASSUME NEW q \in Records, NEW w \in AppliedTo(q)',
               Produced(w)' = records'[q].version
        PROVE  IF versions'[w].op = "delete"
               THEN /\ records'[q].status = "soft_deleted"
                    /\ records'[q].payload = versions'[w].before
               ELSE /\ records'[q].status = "active"
                    /\ records'[q].payload = versions'[w].after
    <3>1. CASE w = v
      <4>1. q = r
        BY <3>1 DEF AppliedTo, TookEffect
      <4>2. QED
        BY <3>1, <4>1 DEF TookEffect
    <3>2. CASE w # v
      <4>1. w \in AppliedTo(q) /\ w \in Versions \ {v}
        BY <1>4, <3>2 DEF AppliedTo
      <4>2. q # r
        <5>1. Produced(w) \in 1 .. records[q].version /\ Produced(w)' = Produced(w)
          BY <1>2, <4>1 DEF HistoryInv, SerialHistory
        <5>2. Produced(w) # records[q].version + 1
          BY <1>1, <5>1
        <5>3. QED
          BY <1>3, <2>1, <5>1, <5>2
      <4>3. records'[q] = records[q] /\ versions'[w] = versions[w]
        BY <1>2, <1>5, <4>1, <4>2
      <4>4. Produced(w) = records[q].version
        BY <1>2, <2>1, <4>1, <4>3
      <4>5. QED
        BY <4>1, <4>3, <4>4 DEF HistoryInv, RecordIsLastWrite
    <3>3. QED
      BY <3>1, <3>2
  <2>2. QED
    BY <2>1 DEF RecordIsLastWrite
<1>8. ASSUME NEW q \in Records
      PROVE  records'[q].version >= records[q].version
  <2>1. CASE q = r
    BY <1>1, <1>3, <2>1
  <2>2. CASE q # r
    BY <1>1, <1>5, <2>2
  <2>3. QED
    BY <2>1, <2>2
<1>9. \A q \in Records : records'[q].version \in Nat
  BY DEF TypeOK, RecordRow
<1>10. SupersededTarget' /\ SupersededWasStale'
  <2>1. ASSUME NEW w \in Versions, versions'[w].state = "superseded"
        PROVE  /\ versions'[w].record \in Records
               /\ records'[versions'[w].record].version > versions'[w].base
    <3>1. w # v
      BY <2>1 DEF TookEffect
    <3>2. /\ versions'[w] = versions[w] /\ versions[w].record \in Records
          /\ records[versions[w].record].version > versions[w].base
      BY <1>2, <2>1, <3>1 DEF HistoryInv, SupersededTarget, SupersededWasStale
    <3>3. QED
      BY <1>1, <1>8, <1>9, <3>2
  <2>2. QED
    BY <2>1 DEF SupersededTarget, SupersededWasStale
<1>11. PendingSound'
  <2>1. ASSUME NEW w \in Versions, versions'[w].state = "pending"
        PROVE  Sound(versions[w])'
    <3>1. w # v
      BY <2>1 DEF TookEffect
    <3>2. versions'[w] = versions[w] /\ Sound(versions[w])
      BY <1>2, <2>1, <3>1 DEF HistoryInv, PendingSound
    <3>3. CASE versions[w].record = r
      <4>1. records[r].version \in Nat /\ versions[w].base \in Nat
        BY <1>1
      <4>2. versions[w].op # "insert" =>
              /\ versions[w].base \in 1 .. records'[r].version
              /\ versions[w].base # records'[r].version
        BY <1>3, <3>2, <3>3, <4>1 DEF Sound
      <4>3. QED
        BY <3>2, <3>3, <4>2 DEF Sound
    <3>4. CASE versions[w].record # r
      BY <1>5, <3>2, <3>4 DEF Sound
    <3>5. QED
      BY <3>3, <3>4
  <2>2. QED
    BY <2>1 DEF PendingSound
<1>12. AbsentUnversioned'
  <2>1. records'[r].status # "absent" /\ records'[r].version # 0
    BY <1>1, <1>3 DEF TookEffect
  <2>2. QED
    BY <1>5, <2>1 DEF HistoryInv, AbsentUnversioned
<1>13. QED
  BY <1>6, <1>7, <1>10, <1>11, <1>12 DEF HistoryInv

\* A change that is shelved leaves every history as it was.
LEMMA ShelvedHistory ==
  ASSUME HistoryInv, NEW v \in Versions, Undecided(v), Shelved(v)
  PROVE  HistoryInv'
<1>1. records' = records /\ \A w \in Versions \ {v} : versions'[w] = versions[w]
  BY DEF Shelved, Alone
<1>2. \A r \in Records : AppliedTo(r)' = AppliedTo(r) /\ v \notin AppliedTo(r)
  BY <1>1 DEF AppliedTo, Shelved, Undecided
<1>3. \A w \in Versions \ {v} : Produced(w)' = Produced(w)
  BY <1>1 DEF Produced
<1>4. \A r \in Records : AppliedTo(r) \subseteq Versions \ {v}
  BY <1>2 DEF AppliedTo
<1>5. SerialHistory'
  <2>1. ASSUME NEW r \in Records
        PROVE  /\ \A k \in 1 .. records'[r].version : \E w \in AppliedTo(r)' : Produced(w)' = k
               /\ \A w \in AppliedTo(r)' : Produced(w)' \in 1 .. records'[r].version
               /\ \A w, x \in AppliedTo(r)' : Produced(w)' = Produced(x)' => w = x
    BY <1>1, <1>2, <1>3, <1>4 DEF HistoryInv, SerialHistory
  <2>2. QED
    BY <2>1 DEF SerialHistory
<1>6. RecordIsLastWrite'
  <2>1. ASSUME NEW r \in Records, NEW w \in AppliedTo(r)',
               Produced(w)' = records'[r].version
        PROVE  IF versions'[w].op = "delete"
               THEN /\ records'[r].status = "soft_deleted"
                    /\ records'[r].payload = versions'[w].before
               ELSE /\ records'[r].status = "active"
                    /\ records'[r].payload = versions'[w].after
    <3>1. w \in AppliedTo(r) /\ w \in Versions \ {v}
      BY <1>2, <1>4
    <3>2. versions'[w] = versions[w] /\ Produced(w) = records[r].version
      BY <1>1, <1>3, <2>1, <3>1
    <3>3. QED
      BY <1>1, <3>1, <3>2 DEF HistoryInv, RecordIsLastWrite
  <2>2. QED
    BY <2>1 DEF RecordIsLastWrite
<1>7. SupersededTarget' /\ SupersededWasStale'
  BY <1>1 DEF HistoryInv, SupersededTarget, SupersededWasStale, Shelved
<1>8. PendingSound'
  <2>1. ASSUME NEW w \in Versions, versions'[w].state = "pending"
        PROVE  Sound(versions[w])'
    <3>1. CASE w = v
      BY <1>1, <2>1, <3>1 DEF Shelved, Sound
    <3>2. CASE w # v
      BY <1>1, <2>1, <3>2 DEF HistoryInv, PendingSound, Sound
    <3>3. QED
      BY <3>1, <3>2
  <2>2. QED
    BY <2>1 DEF PendingSound
<1>9. AbsentUnversioned'
  BY <1>1 DEF HistoryInv, AbsentUnversioned
<1>10. QED
  BY <1>5, <1>6, <1>7, <1>8, <1>9 DEF HistoryInv

-----------------------------------------------------------------------------
(* Each step of the engine.                                                *)

\* The columns Sound speaks of are those submit() and approve() leave alone.
LEMMA SoundColumns ==
  ASSUME NEW row \in VersionRow, NEW other \in VersionRow, Sound(row),
         other.op = row.op, other.record = row.record, other.base = row.base,
         other.before = row.before, other.expected = row.expected
  PROVE  Sound(other)
BY DEF Sound

\* A row in state "pending" that a step stores without touching a record.
LEMMA PendingShelved ==
  ASSUME NEW v \in Versions, NEW row \in VersionRow, Sound(row),
         versions \in [Versions -> VersionRow],
         versions' = [versions EXCEPT ![v] = row], UNCHANGED records,
         row.state = "pending"
  PROVE  Shelved(v)
<1>1. versions'[v] = row /\ Alone(v)
  BY DEF Alone
<1>2. Sound(row)
  OBVIOUS
<1>3. QED
  BY <1>1, <1>2 DEF Shelved

\* A submitted sound row takes effect or is shelved.
LEMMA SubmitShape ==
  ASSUME TypeOK, AbsentUnversioned, NEW v \in Versions, NEW row \in VersionRow,
         row.state = "pending", Sound(row), Submit(v, row)
  PROVE  (\E r \in Records : TookEffect(v, r)) \/ Shelved(v)
<1>1. CASE SubmitAuto(v, row)
  BY <1>1, ApplyShape DEF SubmitAuto
<1>2. CASE SubmitUnopposed(v, row)
  <2> DEFINE other == [row EXCEPT !.workflow = datasetWorkflow]
  <2>1. other \in VersionRow
    BY RowUpdateType DEF TypeOK
  <2>2. /\ other.op = row.op /\ other.record = row.record /\ other.base = row.base
        /\ other.before = row.before /\ other.expected = row.expected
    BY DEF VersionRow
  <2>3. Apply(v, other)
    BY <1>2 DEF SubmitUnopposed
  <2> HIDE DEF other
  <2>4. Sound(other)
    BY <2>1, <2>2, SoundColumns
  <2>5. QED
    BY <2>1, <2>3, <2>4, ApplyShape
<1>3. CASE SubmitPending(v, row)
  <2> DEFINE first == FirstStep(row)
             c == Candidates(steps[datasetWorkflow][first], grants)
             other == [row EXCEPT !.workflow = datasetWorkflow, !.step = first,
                         !.snapshot[first] = c]
  <2>1. other \in VersionRow
    BY <1>3, PendingRowType DEF SubmitPending
  <2>2. versions' = [versions EXCEPT ![v] = other] /\ UNCHANGED records
    BY <1>3 DEF SubmitPending
  <2> HIDE DEF first, c
  <2>3. /\ other.op = row.op /\ other.record = row.record /\ other.base = row.base
        /\ other.before = row.before /\ other.expected = row.expected
        /\ other.state = "pending"
    BY DEF VersionRow
  <2> HIDE DEF other
  <2>4. Sound(other)
    BY <2>1, <2>3, SoundColumns
  <2>5. QED
    BY <2>1, <2>2, <2>3, <2>4, PendingShelved DEF TypeOK
<1>4. QED
  BY <1>1, <1>2, <1>3 DEF Submit

\* What RecordService proposes is sound: the record is read in the same
\* transaction, and an update has compared its version with the client's.
LEMMA ProposedRowSound ==
  ASSUME TypeOK, AbsentUnversioned,
         NEW op \in Ops, NEW r \in Records \union {NoRecord},
         NEW after \in Payloads \union {NoPayload}, NEW expected \in Nat,
         NEW u \in Users,
         op = "insert" <=> r = NoRecord,
         op # "insert" => records[r].status = "active",
         op = "update" => records[r].version = expected
  PROVE  /\ ProposedRow(op, r, after, expected, u) \in VersionRow
         /\ ProposedRow(op, r, after, expected, u).state = "pending"
         /\ Sound(ProposedRow(op, r, after, expected, u))
<1> DEFINE row == ProposedRow(op, r, after, expected, u)
<1>1. row \in VersionRow
  BY ProposedRowType
<1>2. /\ row.state = "pending" /\ row.op = op /\ row.record = r
      /\ row.before = IF r = NoRecord THEN NoPayload ELSE records[r].payload
      /\ row.base = IF r = NoRecord THEN 0 ELSE records[r].version
      /\ row.expected = expected
  BY DEF ProposedRow, UnusedRow
<1> HIDE DEF row
<1>3. ASSUME op = "insert" PROVE Sound(row)
  BY <1>2, <1>3 DEF Sound
<1>4. ASSUME op # "insert" PROVE Sound(row)
  <2>1. r \in Records /\ r # NoRecord
    BY <1>4, IdAssumption
  <2>2. records[r].version \in Nat /\ records[r].version # 0
    BY <1>4, <2>1 DEF TypeOK, RecordRow, AbsentUnversioned
  <2>3. QED
    BY <1>2, <1>4, <2>1, <2>2 DEF Sound
<1>5. QED
  BY <1>1, <1>2, <1>3, <1>4 DEF row

\* A step leaves both tables alone, or one undecided change takes effect on
\* one record, or one undecided change is shelved.
LEMMA StepShape ==
  ASSUME TypeInv, HistoryInv, [Next]_vars
  PROVE  \/ UNCHANGED <<records, versions>>
         \/ \E v \in Versions :
              /\ Undecided(v)
              /\ (\E r \in Records : TookEffect(v, r)) \/ Shelved(v)
<1>1. TypeOK /\ AbsentUnversioned /\ versions \in [Versions -> VersionRow]
  BY DEF TypeInv, TypeOK, HistoryInv
<1>2. ASSUME NEW v \in Versions, NEW row \in VersionRow, row.state = "pending",
             Sound(row), Submit(v, row)
      PROVE  /\ Undecided(v)
             /\ (\E r \in Records : TookEffect(v, r)) \/ Shelved(v)
  BY <1>1, <1>2, SubmitShape DEF Submit, Undecided
<1>3. CASE Propose
  <2>1. ASSUME NEW u \in Users, NEW v \in Versions, NEW after \in Payloads,
               CreateRecord(u, v, after)
        PROVE  \E row \in VersionRow :
                 row.state = "pending" /\ Sound(row) /\ Submit(v, row)
    <3>1. "insert" \in Ops /\ NoRecord \in Records \union {NoRecord} /\ 0 \in Nat
          /\ after \in Payloads \union {NoPayload}
      BY DEF Ops
    <3>2. QED
      BY <1>1, <2>1, <3>1, ProposedRowSound DEF CreateRecord
  <2>2. ASSUME NEW u \in Users, NEW v \in Versions, NEW r \in Records,
               NEW after \in Payloads, NEW expected \in 1 .. records[r].version,
               UpdateRecord(u, v, r, after, expected)
        PROVE  \E row \in VersionRow :
                 row.state = "pending" /\ Sound(row) /\ Submit(v, row)
    <3>1. "update" \in Ops /\ r \in Records \union {NoRecord} /\ r # NoRecord
          /\ expected \in Nat /\ after \in Payloads \union {NoPayload}
      BY <1>1, IdAssumption DEF Ops, TypeOK, RecordRow
    <3>2. QED
      BY <1>1, <2>2, <3>1, ProposedRowSound DEF UpdateRecord
  <2>3. ASSUME NEW u \in Users, NEW v \in Versions, NEW r \in Records,
               DeleteRecord(u, v, r)
        PROVE  \E row \in VersionRow :
                 row.state = "pending" /\ Sound(row) /\ Submit(v, row)
    <3>1. "delete" \in Ops /\ r \in Records \union {NoRecord} /\ r # NoRecord
          /\ 0 \in Nat /\ NoPayload \in Payloads \union {NoPayload}
      BY IdAssumption DEF Ops
    <3>2. QED
      BY <1>1, <2>3, <3>1, ProposedRowSound DEF DeleteRecord
  <2>4. QED
    BY <1>2, <1>3, <2>1, <2>2, <2>3 DEF Propose
<1>4. ASSUME NEW u \in Users, NEW v \in Versions, Approve(u, v)
      PROVE  \/ UNCHANGED <<records, versions>>
             \/ /\ Undecided(v)
                /\ (\E r \in Records : TookEffect(v, r)) \/ Shelved(v)
  <2> DEFINE row == versions[v]
  <2>1. MayDecide(u, v) /\ row.state = "pending" /\ Undecided(v) /\ row \in VersionRow
    BY <1>1, <1>4 DEF Approve, MayDecide, Undecided
  <2>2. Sound(row)
    BY <2>1 DEF HistoryInv, PendingSound
  <2>3. CASE ApproveOnly(v)
    BY <2>3 DEF ApproveOnly
  <2>4. CASE AdvanceStep(v)
    <3> DEFINE other == [row EXCEPT !.step = StepAfter(v)]
    <3>1. other \in VersionRow
      BY <2>1, StepAfterType, RowUpdateType
    <3>2. /\ other.op = row.op /\ other.record = row.record /\ other.base = row.base
          /\ other.before = row.before /\ other.expected = row.expected
          /\ other.state = "pending"
      BY <2>1 DEF VersionRow
    <3>3. versions' = [versions EXCEPT ![v] = other] /\ UNCHANGED records
      BY <2>4 DEF AdvanceStep
    <3> HIDE DEF other
    <3>4. Sound(other)
      BY <2>1, <2>2, <3>1, <3>2, SoundColumns
    <3>5. QED
      BY <1>1, <2>1, <3>1, <3>2, <3>3, <3>4, PendingShelved
  <2>5. CASE ApproveLast(v)
    BY <1>1, <2>1, <2>2, <2>5, ApplyShape DEF ApproveLast
  <2>6. QED
    BY <1>4, <2>3, <2>4, <2>5 DEF Approve
<1>5. ASSUME NEW v \in Versions, NEW state \in {"rejected", "cancelled"},
             versions[v].state = "pending", UNCHANGED records,
             versions' = [versions EXCEPT ![v].state = state]
      PROVE  Undecided(v) /\ Shelved(v)
  <2>1. versions[v] \in VersionRow
    BY <1>1
  <2>2. versions'[v].state = state /\ Alone(v)
    BY <1>1, <1>5, <2>1 DEF VersionRow, Alone
  <2>3. QED
    BY <1>5, <2>2 DEF Shelved, Undecided
<1>6. ASSUME NEW u \in Users, NEW v \in Versions, Reject(u, v) \/ Cancel(u, v)
      PROVE  Undecided(v) /\ Shelved(v)
  BY <1>5, <1>6 DEF Reject, Cancel, MayDecide
<1>7. CASE ConfigNext \/ UNCHANGED vars
  BY <1>7 DEF ConfigNext, RoleNext, UpdateWorkflow, SetDatasetWorkflow, AssignRole,
       RevokeRole, vars
<1>8. QED
  BY <1>3, <1>4, <1>6, <1>7 DEF Next, EngineNext, Review

-----------------------------------------------------------------------------
(* The theorems.                                                           *)

FullInv == TypeInv /\ HistoryInv

LEMMA FullInit == Init => FullInv
<1> SUFFICES ASSUME Init PROVE HistoryInv
  BY TypeInit DEF FullInv
<1>1. /\ \A r \in Records : records[r] = AbsentRecord
      /\ \A v \in Versions : versions[v] = UnusedRow
  BY DEF Init
<1>2. /\ AbsentRecord.version = 0 /\ AbsentRecord.status = "absent"
      /\ UnusedRow.state = "unused"
  BY DEF AbsentRecord, UnusedRow
<1>3. \A r \in Records : AppliedTo(r) = {}
  BY <1>1, <1>2 DEF AppliedTo
<1>4. QED
  BY <1>1, <1>2, <1>3 DEF HistoryInv, SerialHistory, RecordIsLastWrite,
       SupersededWasStale, PendingSound, AbsentUnversioned, SupersededTarget

LEMMA FullStep == FullInv /\ [Next]_vars => FullInv'
<1> SUFFICES ASSUME FullInv, [Next]_vars PROVE FullInv'
  OBVIOUS
<1>1. TypeInv /\ HistoryInv /\ TypeInv'
  BY TypeStep DEF FullInv
<1>2. CASE UNCHANGED <<records, versions>>
  BY <1>1, <1>2 DEF FullInv, HistoryInv, SerialHistory, RecordIsLastWrite,
       SupersededWasStale, PendingSound, AbsentUnversioned, SupersededTarget,
       AppliedTo, Produced, Sound
<1>3. ASSUME NEW v \in Versions, NEW r \in Records, Undecided(v), TookEffect(v, r)
      PROVE  FullInv'
  BY <1>1, <1>3, EffectHistory DEF FullInv, TypeInv
<1>4. ASSUME NEW v \in Versions, Undecided(v), Shelved(v)
      PROVE  FullInv'
  BY <1>1, <1>4, ShelvedHistory DEF FullInv
<1>5. QED
  BY <1>1, <1>2, <1>3, <1>4, StepShape

LEMMA FullInvariant == Spec => []FullInv
BY FullInit, FullStep, PTL DEF Spec

\* The applied changes of a record form one line without gap or fork.
THEOREM HistoryIsSerial == Spec => []SerialHistory
<1>1. FullInv => SerialHistory
  BY DEF FullInv, HistoryInv
<1>2. QED
  BY <1>1, FullInvariant, PTL

\* A record holds what its last applied change put there.
THEOREM RecordHoldsLastWrite == Spec => []RecordIsLastWrite
<1>1. FullInv => RecordIsLastWrite
  BY DEF FullInv, HistoryInv
<1>2. QED
  BY <1>1, FullInvariant, PTL

\* No change is given up as superseded while its base was still current.
THEOREM SupersededIsStale == Spec => []SupersededWasStale
<1>1. FullInv => SupersededWasStale
  BY DEF FullInv, HistoryInv
<1>2. QED
  BY <1>1, FullInvariant, PTL

\* A change that becomes applied in a step took effect in that step.
LEMMA AppliedTookEffect ==
  ASSUME TypeInv, HistoryInv, [Next]_vars, NEW v \in Versions,
         versions[v].state # "applied", versions'[v].state = "applied"
  PROVE  \E r \in Records : TookEffect(v, r)
<1>1. ~UNCHANGED <<records, versions>>
  OBVIOUS
<1>2. PICK w \in Versions :
        (\E r \in Records : TookEffect(w, r)) \/ Shelved(w)
  BY <1>1, StepShape
<1>3. w = v
  BY <1>2 DEF TookEffect, Shelved, Alone
<1>4. QED
  BY <1>2, <1>3 DEF Shelved

\* A change takes effect exactly as it was shown to its approvers.
THEOREM AppliedIsReviewed == Spec => AppliedAsReviewed
<1>1. FullInv /\ [Next]_vars =>
        [\A v \in Versions :
           /\ versions[v].state # "applied"
           /\ versions'[v].state = "applied"
           /\ versions'[v].op # "insert"
           => LET r == versions'[v].record
              IN  /\ records[r].status = "active"
                  /\ records[r].payload = versions'[v].before
                  /\ records'[r].version = records[r].version + 1]_vars
  BY AppliedTookEffect DEF FullInv, TookEffect
<1>2. QED
  BY <1>1, FullInvariant, PTL DEF Spec, AppliedAsReviewed

\* An update replaces exactly the version its proposer had read.
THEOREM UpdateIsNotLost == Spec => NoLostUpdate
<1>1. FullInv /\ [Next]_vars =>
        [\A v \in Versions :
           /\ versions[v].state # "applied"
           /\ versions'[v].state = "applied"
           /\ versions'[v].op = "update"
           => records[versions'[v].record].version = versions'[v].expected]_vars
  BY AppliedTookEffect DEF FullInv, TookEffect
<1>2. QED
  BY <1>1, FullInvariant, PTL DEF Spec, NoLostUpdate
=============================================================================
