----------------------- MODULE ApprovalWorkflowProofs -----------------------
(***************************************************************************)
(* What the approval workflow guarantees for every number of users,        *)
(* records, changes and workflows: the proofs.                             *)
(***************************************************************************)
EXTENDS ApprovalProperties, FiniteSetTheorems, TLAPS

-----------------------------------------------------------------------------
(* Lemmas about the helpers.                                               *)

\* A nonempty set of naturals has a least element.
LEMMA LeastElement ==
  ASSUME NEW S, S \subseteq Nat, S # {}
  PROVE  \E i \in S : \A j \in S : i <= j
<1> DEFINE T == {0 .. i : i \in S}
<1>1. IsWellFoundedOn(StrictSubsetOrdering(Nat), FiniteSubsetsOf(Nat))
  BY FS_StrictSubsetOrderingWellFounded
<1>2. T \subseteq FiniteSubsetsOf(Nat)
  <2>1. ASSUME NEW i \in S PROVE 0 .. i \in FiniteSubsetsOf(Nat)
    <3>1. i \in Int /\ 0 .. i \in SUBSET Nat
      OBVIOUS
    <3>2. IsFiniteSet(0 .. i)
      BY <3>1, FS_Interval
    <3>3. QED
      BY <3>1, <3>2 DEF FiniteSubsetsOf
  <2>2. QED
    BY <2>1
<1>3. \E t \in T : \A y \in T : <<y, t>> \notin StrictSubsetOrdering(Nat)
  <2>1. T # {}
    OBVIOUS
  <2> HIDE DEF T
  <2>2. QED
    BY <1>1, <1>2, <2>1, WFMin
<1>4. PICK i \in S : \A y \in T : <<y, 0 .. i>> \notin StrictSubsetOrdering(Nat)
  BY <1>3
<1>5. ASSUME NEW j \in S, j < i
      PROVE  FALSE
  <2>1. 0 .. j \subseteq 0 .. i /\ i \in 0 .. i /\ i \notin 0 .. j
    BY <1>5
  <2>2. <<0 .. j, 0 .. i>> \in StrictSubsetOrdering(Nat)
    BY <2>1 DEF StrictSubsetOrdering
  <2>3. QED
    BY <2>2, <1>4
<1>6. QED
  BY <1>5

\* The search for the next step finds the first step of the list, from start
\* on, whose condition holds for the change; 0 says that there is none.
LEMMA NextApplicableFirst ==
  ASSUME NEW list, NEW op, NEW after, NEW start \in Nat \ {0}, Len(list) \in Nat
  PROVE  LET n == NextApplicable(list, op, after, start)
         IN  \/ /\ n = 0
                /\ \A j \in start .. Len(list) : ~Applicable(list[j], op, after)
             \/ /\ n \in start .. Len(list)
                /\ Applicable(list[n], op, after)
                /\ \A j \in start .. Len(list) :
                     j < n => ~Applicable(list[j], op, after)
<1> DEFINE hits == {i \in start .. Len(list) : Applicable(list[i], op, after)}
<1>1. CASE hits = {}
  BY <1>1 DEF NextApplicable
<1>2. CASE hits # {}
  <2> DEFINE n == CHOOSE i \in hits : \A j \in hits : i <= j
  <2>1. \E i \in hits : \A j \in hits : i <= j
    BY <1>2, LeastElement, hits \subseteq Nat
  <2>2. n \in hits /\ \A j \in hits : n <= j
    BY <2>1
  <2>3. NextApplicable(list, op, after, start) = n
    BY <1>2 DEF NextApplicable
  <2> HIDE DEF n
  <2>4. QED
    BY <2>2, <2>3
<1>3. QED
  BY <1>1, <1>2

\* The candidates of a step are entries of its list.
LEMMA CandidatesType ==
  ASSUME NEW step \in Step, NEW table
  PROVE  Candidates(step, table) \in SUBSET Entries
BY DEF Candidates, Step

\* A step list is a sequence of at most MaxSteps steps.
LEMMA StepListType ==
  ASSUME NEW list \in StepList
  PROVE  /\ Len(list) \in 0 .. MaxSteps
         /\ \A i \in 1 .. Len(list) : list[i] \in Step
BY MaxStepsAssumption DEF StepList

\* Rows stay rows when the columns the engine writes are written.
LEMMA RowUpdateType ==
  ASSUME NEW row \in VersionRow
  PROVE  /\ \A s \in {"pending", "rejected", "applied", "superseded", "cancelled"} :
              [row EXCEPT !.state = s] \in VersionRow
         /\ \A r \in Records : [row EXCEPT !.record = r] \in VersionRow
         /\ \A w \in Workflows \union {AutoApprove} : [row EXCEPT !.workflow = w] \in VersionRow
         /\ \A i \in 0 .. MaxSteps : [row EXCEPT !.step = i] \in VersionRow
         /\ \A f \in [1 .. MaxSteps -> SUBSET Entries] :
              [row EXCEPT !.snapshot = f] \in VersionRow
<1>1. ASSUME NEW s \in {"pending", "rejected", "applied", "superseded", "cancelled"}
      PROVE  [row EXCEPT !.state = s] \in VersionRow
  BY DEF VersionRow
<1>2. ASSUME NEW r \in Records PROVE [row EXCEPT !.record = r] \in VersionRow
  BY DEF VersionRow
<1>3. ASSUME NEW w \in Workflows \union {AutoApprove}
      PROVE  [row EXCEPT !.workflow = w] \in VersionRow
  BY DEF VersionRow
<1>4. ASSUME NEW i \in 0 .. MaxSteps PROVE [row EXCEPT !.step = i] \in VersionRow
  BY DEF VersionRow
<1>5. ASSUME NEW f \in [1 .. MaxSteps -> SUBSET Entries]
      PROVE  [row EXCEPT !.snapshot = f] \in VersionRow
  BY DEF VersionRow
<1>6. QED
  BY <1>1, <1>2, <1>3, <1>4, <1>5

LEMMA RecordUpdateType ==
  ASSUME NEW row \in RecordRow
  PROVE  /\ [row EXCEPT !.version = @ + 1] \in RecordRow
         /\ [row EXCEPT !.status = "soft_deleted"] \in RecordRow
         /\ \A p \in Payloads \union {NoPayload} :
              [row EXCEPT !.payload = p] \in RecordRow
<1>1. [row EXCEPT !.version = @ + 1] \in RecordRow
  BY DEF RecordRow
<1>2. [row EXCEPT !.status = "soft_deleted"] \in RecordRow
  BY DEF RecordRow
<1>3. ASSUME NEW p \in Payloads \union {NoPayload}
      PROVE  [row EXCEPT !.payload = p] \in RecordRow
  BY DEF RecordRow
<1>4. QED
  BY <1>1, <1>2, <1>3

\* A change is proposed as a row of the table.
LEMMA ProposedRowType ==
  ASSUME TypeOK,
         NEW op \in Ops, NEW r \in Records \union {NoRecord},
         NEW after \in Payloads \union {NoPayload}, NEW expected \in Nat,
         NEW u \in Users
  PROVE  /\ ProposedRow(op, r, after, expected, u) \in VersionRow
         /\ ProposedRow(op, r, after, expected, u).state = "pending"
         /\ ProposedRow(op, r, after, expected, u).step = 0
         /\ ProposedRow(op, r, after, expected, u).snapshot = NoSnapshot
<1>1. /\ (IF r = NoRecord THEN NoPayload ELSE records[r].payload)
            \in Payloads \union {NoPayload}
      /\ (IF r = NoRecord THEN 0 ELSE records[r].version) \in Nat
  BY DEF TypeOK, RecordRow
<1>2. NoSnapshot \in [1 .. MaxSteps -> SUBSET Entries] /\ 0 \in 0 .. MaxSteps
  BY MaxStepsAssumption DEF NoSnapshot
<1>3. ProposedRow(op, r, after, expected, u) \in VersionRow
  BY <1>1, <1>2 DEF ProposedRow, UnusedRow, VersionRow
<1>4. QED
  BY <1>3 DEF ProposedRow, UnusedRow

\* apply() leaves rows in both tables.
LEMMA ApplyType ==
  ASSUME TypeOK, NEW v \in Versions, NEW row \in VersionRow, Apply(v, row)
  PROVE  /\ records' \in [Records -> RecordRow]
         /\ versions' \in [Versions -> VersionRow]
<1>1. CASE ApplyInsert(v, row)
  <2>1. PICK r \in Records :
          /\ records' = [records EXCEPT ![r] =
               [status |-> "active", version |-> 1, payload |-> row.after]]
          /\ Decide(v, [row EXCEPT !.record = r], "applied")
    BY <1>1 DEF ApplyInsert
  <2>2. [status |-> "active", version |-> 1, payload |-> row.after] \in RecordRow
    BY DEF VersionRow, RecordRow
  <2>3. [[row EXCEPT !.record = r] EXCEPT !.state = "applied"] \in VersionRow
    BY RowUpdateType
  <2>4. QED
    BY <2>1, <2>2, <2>3 DEF TypeOK, Decide
<1>2. CASE ApplyUpdate(v, row)
  <2>1. records' \in [Records -> RecordRow]
    <3>1. ASSUME NEW r \in Records
          PROVE  /\ [records[r] EXCEPT !.version = @ + 1] \in RecordRow
                 /\ [[records[r] EXCEPT !.version = @ + 1] EXCEPT !.payload = row.after]
                      \in RecordRow
      <4>1. records[r] \in RecordRow /\ row.after \in Payloads \union {NoPayload}
        BY DEF TypeOK, VersionRow
      <4>2. QED
        BY <4>1, RecordUpdateType
    <3>2. QED
      BY <1>2, <3>1 DEF ApplyUpdate, TypeOK
  <2>2. QED
    BY <1>2, <2>1, RowUpdateType DEF ApplyUpdate, Decide, TypeOK
<1>3. CASE ApplyDelete(v, row)
  <2>1. records' \in [Records -> RecordRow]
    <3>1. ASSUME NEW r \in Records
          PROVE  [[records[r] EXCEPT !.version = @ + 1] EXCEPT !.status = "soft_deleted"]
                   \in RecordRow
      BY RecordUpdateType DEF TypeOK
    <3>2. QED
      BY <1>3, <3>1 DEF ApplyDelete, TypeOK
  <2>2. QED
    BY <1>3, <2>1, RowUpdateType DEF ApplyDelete, Decide, TypeOK
<1>4. CASE Supersede(v, row)
  BY <1>4, RowUpdateType DEF Supersede, Decide, TypeOK
<1>5. QED
  BY <1>1, <1>2, <1>3, <1>4 DEF Apply

\* The row submit() stores is a row, with the first step that applies.
LEMMA PendingRowType ==
  ASSUME TypeOK, NEW row \in VersionRow, datasetWorkflow # AutoApprove,
         FirstStep(row) # 0
  PROVE  /\ datasetWorkflow \in Workflows
         /\ FirstStep(row) \in 1 .. MaxSteps
         /\ [row EXCEPT !.workflow = datasetWorkflow, !.step = FirstStep(row),
               !.snapshot[FirstStep(row)] =
                  Candidates(steps[datasetWorkflow][FirstStep(row)], grants)]
              \in VersionRow
<1> DEFINE first == FirstStep(row)
           list == steps[datasetWorkflow]
           c == Candidates(list[first], grants)
<1>1. datasetWorkflow \in Workflows /\ list \in StepList
  BY StepListsAssumption DEF TypeOK
<1>2. first \in 1 .. Len(list)
  BY <1>1, StepListType, NextApplicableFirst DEF FirstStep
<1>3. first \in 1 .. MaxSteps /\ first \in 0 .. MaxSteps
  BY <1>1, <1>2, StepListType, MaxStepsAssumption
<1>4. c \in SUBSET Entries
  BY <1>1, <1>2, StepListType, CandidatesType
<1> HIDE DEF first, c
<1>5. [row.snapshot EXCEPT ![first] = c] \in [1 .. MaxSteps -> SUBSET Entries]
  BY <1>3, <1>4 DEF VersionRow
<1>6. [row EXCEPT !.workflow = datasetWorkflow, !.step = first,
         !.snapshot[first] = c] \in VersionRow
  BY <1>1, <1>3, <1>5 DEF VersionRow
<1>7. QED
  BY <1>1, <1>3, <1>6 DEF first, c

LEMMA SubmitType ==
  ASSUME TypeOK, NEW v \in Versions, NEW row \in VersionRow, Submit(v, row)
  PROVE  TypeOK'
<1>1. datasetWorkflow # AutoApprove =>
        /\ datasetWorkflow \in Workflows
        /\ steps[datasetWorkflow] \in StepList
  BY StepListsAssumption DEF TypeOK
<1>2. CASE SubmitAuto(v, row)
  BY <1>2, ApplyType DEF Submit, SubmitAuto, TypeOK, configVars
<1>3. CASE SubmitUnopposed(v, row)
  <2>1. [row EXCEPT !.workflow = datasetWorkflow] \in VersionRow
    BY RowUpdateType DEF TypeOK
  <2>2. /\ records' \in [Records -> RecordRow]
        /\ versions' \in [Versions -> VersionRow]
    BY <1>3, <2>1, ApplyType DEF SubmitUnopposed
  <2>3. submittedSteps' \in [Versions -> StepList]
    BY <1>1, <1>3 DEF SubmitUnopposed, TypeOK
  <2>4. QED
    BY <2>2, <2>3 DEF Submit, TypeOK, configVars
<1>4. CASE SubmitPending(v, row)
  <2>1. versions' \in [Versions -> VersionRow]
    BY <1>4, PendingRowType DEF SubmitPending, TypeOK
  <2>2. submittedSteps' \in [Versions -> StepList]
    BY <1>1, <1>4 DEF SubmitPending, TypeOK
  <2>3. QED
    BY <1>4, <2>1, <2>2 DEF Submit, SubmitPending, TypeOK, configVars
<1>5. QED
  BY <1>2, <1>3, <1>4 DEF Submit

\* A change waits for approval only under a workflow.
PendingUnderWorkflow ==
  \A v \in Versions : versions[v].state = "pending" => versions[v].workflow \in Workflows

TypeInv == TypeOK /\ PendingUnderWorkflow

\* The step a change moves on to is a step of its workflow's list.
LEMMA StepAfterType ==
  ASSUME TypeInv, NEW u \in Users, NEW v \in Versions, MayDecide(u, v)
  PROVE  /\ versions[v] \in VersionRow
         /\ StepsOf(v) \in StepList
         /\ versions[v].step \in 1 .. Len(StepsOf(v))
         /\ versions[v].step \in 1 .. MaxSteps
         /\ StepAfter(v) \in 0 .. MaxSteps
<1>1. versions[v] \in VersionRow /\ StepsOf(v) \in StepList
  BY StepListsAssumption DEF MayDecide, TypeInv, TypeOK, PendingUnderWorkflow, StepsOf
<1>2. versions[v].step \in 1 .. Len(StepsOf(v)) /\ Len(StepsOf(v)) \in 0 .. MaxSteps
  BY <1>1, StepListType DEF MayDecide
<1>3. versions[v].step + 1 \in Nat \ {0}
  BY <1>2
<1>4. StepAfter(v) \in 0 .. MaxSteps
  BY <1>2, <1>3, MaxStepsAssumption, NextApplicableFirst DEF StepAfter
<1>5. QED
  BY <1>1, <1>2, <1>4, MaxStepsAssumption

\* apply() decides the change it is given and no other.
LEMMA ApplyDecides ==
  ASSUME NEW v \in Versions, NEW row \in VersionRow, Apply(v, row),
         versions \in [Versions -> VersionRow]
  PROVE  /\ versions'[v].state \in {"applied", "superseded"}
         /\ versions'[v].step = row.step
         /\ versions'[v].proposer = row.proposer
         /\ \A w \in Versions \ {v} : versions'[w] = versions[w]
<1>1. ASSUME NEW r \in VersionRow, NEW state \in {"applied", "superseded"},
             r.step = row.step, r.proposer = row.proposer, Decide(v, r, state)
      PROVE  /\ versions'[v].state = state
             /\ versions'[v].step = row.step
             /\ versions'[v].proposer = row.proposer
             /\ \A w \in Versions \ {v} : versions'[w] = versions[w]
  BY <1>1 DEF Decide, VersionRow
<1>2. CASE ApplyInsert(v, row)
  <2>1. PICK r \in Records : Decide(v, [row EXCEPT !.record = r], "applied")
    BY <1>2 DEF ApplyInsert
  <2>2. /\ [row EXCEPT !.record = r] \in VersionRow
        /\ [row EXCEPT !.record = r].step = row.step
        /\ [row EXCEPT !.record = r].proposer = row.proposer
    BY DEF VersionRow
  <2>3. QED
    BY <1>1, <2>1, <2>2
<1>3. CASE ApplyUpdate(v, row) \/ ApplyDelete(v, row) \/ Supersede(v, row)
  BY <1>1, <1>3 DEF ApplyUpdate, ApplyDelete, Supersede
<1>4. QED
  BY <1>2, <1>3 DEF Apply

\* What a submission leaves pending, it leaves under a workflow.
LEMMA SubmitUnderWorkflow ==
  ASSUME TypeInv, NEW v \in Versions, NEW row \in VersionRow, Submit(v, row)
  PROVE  PendingUnderWorkflow'
<1>1. versions \in [Versions -> VersionRow]
  BY DEF TypeInv, TypeOK
<1>2. ASSUME NEW r \in VersionRow, Apply(v, r)
      PROVE  PendingUnderWorkflow'
  <2>1. /\ versions'[v].state # "pending"
        /\ \A w \in Versions \ {v} : versions'[w] = versions[w]
    BY <1>1, <1>2, ApplyDecides
  <2>2. QED
    BY <2>1 DEF TypeInv, PendingUnderWorkflow
<1>3. CASE SubmitAuto(v, row)
  BY <1>2, <1>3 DEF SubmitAuto
<1>4. CASE SubmitUnopposed(v, row)
  <2>1. [row EXCEPT !.workflow = datasetWorkflow] \in VersionRow
    BY RowUpdateType DEF TypeInv, TypeOK
  <2>2. QED
    BY <1>2, <1>4, <2>1 DEF SubmitUnopposed
<1>5. CASE SubmitPending(v, row)
  <2>1. datasetWorkflow \in Workflows
    BY <1>5 DEF SubmitPending, TypeInv, TypeOK
  <2>2. versions'[v].workflow = datasetWorkflow
    BY <1>1, <1>5 DEF SubmitPending, VersionRow
  <2>3. \A w \in Versions \ {v} : versions'[w] = versions[w]
    BY <1>1, <1>5 DEF SubmitPending
  <2>4. QED
    BY <2>1, <2>2, <2>3 DEF TypeInv, PendingUnderWorkflow
<1>6. QED
  BY <1>3, <1>4, <1>5 DEF Submit

\* Each way to propose a change submits a row of the table that has passed
\* no step and has no candidates stored.
LEMMA ProposeSubmits ==
  ASSUME TypeOK, Propose
  PROVE  \E v \in Versions, row \in VersionRow :
           /\ row.state = "pending" /\ row.step = 0 /\ row.snapshot = NoSnapshot
           /\ Submit(v, row)
<1>1. NoPayload \in Payloads \union {NoPayload} /\ 0 \in Nat
  OBVIOUS
<1>2. ASSUME NEW u \in Users, NEW v \in Versions, NEW after \in Payloads,
             CreateRecord(u, v, after)
      PROVE  \E row \in VersionRow :
               /\ row.state = "pending" /\ row.step = 0 /\ row.snapshot = NoSnapshot
               /\ Submit(v, row)
  BY <1>1, <1>2, ProposedRowType DEF CreateRecord, Ops
<1>3. ASSUME NEW u \in Users, NEW v \in Versions, NEW r \in Records,
             NEW after \in Payloads, NEW expected \in 1 .. records[r].version,
             UpdateRecord(u, v, r, after, expected)
      PROVE  \E row \in VersionRow :
               /\ row.state = "pending" /\ row.step = 0 /\ row.snapshot = NoSnapshot
               /\ Submit(v, row)
  <2>1. expected \in Nat
    BY DEF TypeOK, RecordRow
  <2>2. QED
    BY <1>3, <2>1, ProposedRowType DEF UpdateRecord, Ops
<1>4. ASSUME NEW u \in Users, NEW v \in Versions, NEW r \in Records,
             DeleteRecord(u, v, r)
      PROVE  \E row \in VersionRow :
               /\ row.state = "pending" /\ row.step = 0 /\ row.snapshot = NoSnapshot
               /\ Submit(v, row)
  BY <1>1, <1>4, ProposedRowType DEF DeleteRecord, Ops
<1>5. QED
  BY <1>2, <1>3, <1>4 DEF Propose

\* The row approve() and reject() insert.
LEMMA RecordType ==
  ASSUME TypeInv, NEW u \in Users, NEW v \in Versions,
         NEW action \in {"approve", "reject"}, MayDecide(u, v), Record(u, v, action)
  PROVE  approvals' \subseteq Approval
<1>1. [version |-> v, step |-> versions[v].step, approver |-> u, action |-> action]
        \in Approval
  BY StepAfterType DEF Approval
<1>2. QED
  BY <1>1 DEF Record, TypeInv, TypeOK

LEMMA TypeStep == TypeInv /\ [Next]_vars => TypeInv'
<1> SUFFICES ASSUME TypeInv, [Next]_vars PROVE TypeInv'
  OBVIOUS
<1> USE DEF TypeInv
<1>1. CASE Propose
  <2>1. PICK v \in Versions, row \in VersionRow : Submit(v, row)
    BY <1>1, ProposeSubmits
  <2>2. QED
    BY <2>1, SubmitType, SubmitUnderWorkflow
<1>2. ASSUME NEW u \in Users, NEW v \in Versions, Approve(u, v)
      PROVE  TypeInv'
  <2> DEFINE row == versions[v]
  <2>1. MayDecide(u, v) /\ approvals' \subseteq Approval
    BY <1>2, RecordType DEF Approve
  <2>2. row \in VersionRow /\ versions \in [Versions -> VersionRow]
    BY DEF TypeOK
  <2>3. /\ records' \in [Records -> RecordRow]
        /\ versions' \in [Versions -> VersionRow]
        /\ PendingUnderWorkflow'
    <3>1. CASE ApproveOnly(v)
      BY <3>1 DEF ApproveOnly, TypeOK, PendingUnderWorkflow
    <3>2. CASE AdvanceStep(v)
      <4> DEFINE next == [row EXCEPT !.step = StepAfter(v)]
      <4>1. next \in VersionRow /\ next.workflow = row.workflow /\ next.state = row.state
        BY <2>1, <2>2, StepAfterType DEF VersionRow
      <4>2. versions' = [versions EXCEPT ![v] = next]
        BY <3>2 DEF AdvanceStep
      <4>3. records' \in [Records -> RecordRow]
        BY <3>2 DEF AdvanceStep, TypeOK
      <4> HIDE DEF next
      <4>4. QED
        BY <2>2, <4>1, <4>2, <4>3 DEF PendingUnderWorkflow
    <3>3. CASE ApproveLast(v)
      <4>1. Apply(v, row)
        BY <3>3 DEF ApproveLast
      <4>2. /\ versions'[v].state # "pending"
            /\ \A w \in Versions \ {v} : versions'[w] = versions[w]
        BY <2>2, <4>1, ApplyDecides
      <4>3. QED
        BY <2>2, <4>1, <4>2, ApplyType DEF PendingUnderWorkflow
    <3>4. QED
      BY <1>2, <3>1, <3>2, <3>3 DEF Approve
  <2>4. QED
    BY <1>2, <2>1, <2>3 DEF Approve, TypeOK, configVars
<1>3. ASSUME NEW v \in Versions, NEW state \in {"rejected", "cancelled"},
             versions' = [versions EXCEPT ![v].state = state]
      PROVE  versions' \in [Versions -> VersionRow] /\ PendingUnderWorkflow'
  <2>1. versions[v] \in VersionRow /\ versions \in [Versions -> VersionRow]
    BY DEF TypeOK
  <2>2. [versions[v] EXCEPT !.state = state] \in VersionRow
    BY <2>1, RowUpdateType
  <2>3. [versions[v] EXCEPT !.state = state].state # "pending"
    BY <2>1 DEF VersionRow
  <2>4. QED
    BY <1>3, <2>1, <2>2, <2>3 DEF PendingUnderWorkflow
<1>4. ASSUME NEW u \in Users, NEW v \in Versions, Reject(u, v)
      PROVE  TypeInv'
  BY <1>3, <1>4, RecordType DEF Reject, TypeOK, configVars
<1>5. ASSUME NEW u \in Users, NEW v \in Versions, Cancel(u, v)
      PROVE  TypeInv'
  BY <1>3, <1>5 DEF Cancel, TypeOK, configVars
<1>6. CASE ConfigNext
  <2>1. ASSUME NEW wf \in Workflows, NEW list \in StepLists, UpdateWorkflow(wf, list)
        PROVE  TypeInv'
    BY <2>1 DEF UpdateWorkflow, TypeOK, PendingUnderWorkflow
  <2>2. ASSUME NEW wf \in Workflows \union {AutoApprove}, SetDatasetWorkflow(wf)
        PROVE  TypeInv'
    BY <2>2 DEF SetDatasetWorkflow, TypeOK, PendingUnderWorkflow
  <2>3. ASSUME NEW g \in Grants, AssignRole(g) \/ RevokeRole(g)
        PROVE  TypeInv'
    BY <2>3 DEF AssignRole, RevokeRole, TypeOK, PendingUnderWorkflow
  <2>4. QED
    BY <1>6, <2>1, <2>2, <2>3 DEF ConfigNext, RoleNext
<1>7. CASE UNCHANGED vars
  BY <1>7 DEF vars, TypeOK, PendingUnderWorkflow
<1>8. QED
  BY <1>1, <1>2, <1>4, <1>5, <1>6, <1>7 DEF Next, EngineNext, Review

LEMMA TypeInit == Init => TypeInv
<1> SUFFICES ASSUME Init PROVE TypeInv
  OBVIOUS
<1>1. AbsentRecord \in RecordRow
  BY DEF AbsentRecord, RecordRow
<1>2. UnusedRow \in VersionRow /\ UnusedRow.state = "unused"
  <2>1. NoSnapshot \in [1 .. MaxSteps -> SUBSET Entries] /\ 0 \in 0 .. MaxSteps
    BY MaxStepsAssumption DEF NoSnapshot
  <2>2. QED
    BY <2>1 DEF UnusedRow, VersionRow, Ops
<1>3. <<>> \in StepList
  BY MaxStepsAssumption DEF StepList
<1>4. QED
  BY <1>1, <1>2, <1>3 DEF Init, TypeInv, TypeOK, PendingUnderWorkflow

\* Every table always holds rows of its declared columns, whatever is
\* proposed, decided or reconfigured, in whatever order.
THEOREM TypeCorrect == Spec => []TypeOK
<1>1. Spec => []TypeInv
  BY TypeInit, TypeStep, PTL DEF Spec
<1>2. TypeInv => TypeOK
  BY DEF TypeInv
<1>3. QED
  BY <1>1, <1>2, PTL
=============================================================================
