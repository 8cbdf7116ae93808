-------------------------- MODULE ApprovalWorkflow --------------------------
(***************************************************************************)
(* Records, the changes proposed to them, and the workflow engine that     *)
(* approves, rejects, cancels and applies those changes.                   *)
(*                                                                         *)
(* The API's engine runs every transaction SERIALIZABLE, so the work a     *)
(* request does up to its commit is one step here; a request that raises   *)
(* or whose commit is refused rolls back and changes nothing, which is a   *)
(* stuttering step.  One dataset stands for all: they share no state but   *)
(* the workflows.                                                          *)
(***************************************************************************)
EXTENDS WorkflowSteps

CONSTANTS
  Records,    \* ids of data_records
  Versions,   \* ids of record_versions, one per proposed change
  Workflows,  \* rows of workflows
  AutoApprove,       \* workflow_id NULL or AUTO_APPROVE_WORKFLOW_ID
  NoRecord,   \* record_id NULL
  NoUser,     \* the proposer of an id that is not used yet
  StepLists   \* the step lists an administrator may save

ASSUME IdAssumption ==
  /\ AutoApprove \notin Workflows
  /\ NoRecord \notin Records
  /\ NoUser \notin Users

ASSUME StepListsAssumption == StepLists \subseteq StepList

VARIABLES
  records,          \* the table data_records
  versions,         \* the table record_versions
  approvals,        \* the table approval_actions
  steps,            \* workflows.steps, as last saved
  grants,           \* the table user_roles
  datasetWorkflow,  \* data_sets.workflow_id
  submittedSteps    \* history: the step list of its workflow when a change
                    \* was submitted

vars == <<records, versions, approvals, steps, grants, datasetWorkflow,
          submittedSteps>>
configVars == <<steps, grants, datasetWorkflow>>

RecordRow == [status : {"absent", "active", "soft_deleted"},
              version : Nat,
              payload : Payloads \union {NoPayload}]

\* "unused" is an id no row has yet.  "approved" is left out: approve()
\* sets it and then, in the same transaction, apply() replaces it.
VersionRow == [state : {"unused", "pending", "rejected", "applied",
                        "superseded", "cancelled"},
               op : Ops,
               record : Records \union {NoRecord},
               before : Payloads \union {NoPayload},   \* before_payload
               base : Nat,                \* before_payload["__version"]
               expected : Nat,            \* expected_version of the request
               after : Payloads \union {NoPayload},    \* after_payload
               workflow : Workflows \union {AutoApprove},
               step : 0 .. MaxSteps,      \* current_step, 0 before any
               proposer : Users \union {NoUser},
               snapshot : [1 .. MaxSteps -> SUBSET Entries]] \* detail

Approval == [version : Versions, step : 1 .. MaxSteps, approver : Users,
             action : {"approve", "reject"}]

NoSnapshot == [i \in 1 .. MaxSteps |-> {}]

UnusedRow == [state |-> "unused", op |-> "insert", record |-> NoRecord,
              before |-> NoPayload, base |-> 0, expected |-> 0,
              after |-> NoPayload, workflow |-> AutoApprove, step |-> 0,
              proposer |-> NoUser, snapshot |-> NoSnapshot]

AbsentRecord == [status |-> "absent", version |-> 0, payload |-> NoPayload]

\* The engine starts on an empty tenant that an administrator has set up.
Init ==
  /\ records = [r \in Records |-> AbsentRecord]
  /\ versions = [v \in Versions |-> UnusedRow]
  /\ approvals = {}
  /\ steps \in [Workflows -> StepLists]
  /\ grants \in SUBSET Grants
  /\ datasetWorkflow \in Workflows \union {AutoApprove}
  /\ submittedSteps = [v \in Versions |-> <<>>]

-----------------------------------------------------------------------------
(* WorkflowEngine.apply: row is the version as the transaction holds it.   *)

Decide(v, row, state) == versions' = [versions EXCEPT ![v] = [row EXCEPT !.state = state]]

\* A slip of BaseIsCurrent: the row is looked up by status alone.
BaseUnchecked(row) == records[row.record].status = "active"

\* The guarded UPDATE of _apply_update and _apply_delete finds its row.
BaseIsCurrent(row) == records[row.record].version = row.base

\* A falsy payload raises ValidationError, which apply() does not catch: the
\* whole transaction rolls back.
HasPayload(row) == row.after \notin {NoPayload, EmptyPayload}

ApplyInsert(v, row) ==
  /\ row.op = "insert" /\ HasPayload(row)
  /\ \E r \in Records :
       /\ records[r].status = "absent"
       /\ records' = [records EXCEPT ![r] =
            [status |-> "active", version |-> 1, payload |-> row.after]]
       /\ Decide(v, [row EXCEPT !.record = r], "applied")

ApplyUpdate(v, row) ==
  /\ row.op = "update" /\ HasPayload(row) /\ BaseIsCurrent(row)
  /\ records' = [records EXCEPT ![row.record].version = @ + 1,
                                ![row.record].payload = row.after]
  /\ Decide(v, row, "applied")

\* Slips of ApplyDelete: the version is not counted up; the status written
\* is none of the column's.
DeleteUncounted(v, row) ==
  /\ row.op = "delete" /\ BaseIsCurrent(row)
  /\ records' = [records EXCEPT ![row.record].status = "soft_deleted"]
  /\ Decide(v, row, "applied")
DeleteMislabelled(v, row) ==
  /\ row.op = "delete" /\ BaseIsCurrent(row)
  /\ records' = [records EXCEPT ![row.record].version = @ + 1,
                                ![row.record].status = "deleted"]
  /\ Decide(v, row, "applied")

ApplyDelete(v, row) ==
  /\ row.op = "delete" /\ BaseIsCurrent(row)
  /\ records' = [records EXCEPT ![row.record].version = @ + 1,
                                ![row.record].status = "soft_deleted"]
  /\ Decide(v, row, "applied")

\* ConflictError: the version is kept and marked, the record is not touched.
Supersede(v, row) ==
  /\ \/ row.op = "update" /\ HasPayload(row)
     \/ row.op = "delete"
  /\ ~BaseIsCurrent(row)
  /\ Decide(v, row, "superseded")
  /\ UNCHANGED records

Apply(v, row) ==
  \/ ApplyInsert(v, row)
  \/ ApplyUpdate(v, row)
  \/ ApplyDelete(v, row)
  \/ Supersede(v, row)

-----------------------------------------------------------------------------
(* RecordService, and WorkflowEngine.submit which it calls.                *)

ProposedRow(op, r, after, expected, u) ==
  [UnusedRow EXCEPT !.state = "pending", !.op = op, !.record = r,
     !.before = IF r = NoRecord THEN NoPayload ELSE records[r].payload,
     !.base = IF r = NoRecord THEN 0 ELSE records[r].version,
     !.expected = expected, !.after = after, !.proposer = u]

SubmitAuto(v, row) ==
  /\ datasetWorkflow = AutoApprove
  /\ Apply(v, row)
  /\ UNCHANGED submittedSteps

FirstStep(row) == NextApplicable(steps[datasetWorkflow], row.op, row.after, 1)

\* Every step of the workflow is skipped: applied without an approval.
SubmitUnopposed(v, row) ==
  /\ datasetWorkflow # AutoApprove
  /\ FirstStep(row) = 0
  /\ Apply(v, [row EXCEPT !.workflow = datasetWorkflow])
  /\ submittedSteps' = [submittedSteps EXCEPT ![v] = steps[datasetWorkflow]]

SubmitPending(v, row) ==
  /\ datasetWorkflow # AutoApprove
  /\ FirstStep(row) # 0
  /\ LET first == FirstStep(row)
         wf == datasetWorkflow
     IN  /\ versions' = [versions EXCEPT ![v] =
              [row EXCEPT !.workflow = wf, !.step = first,
                 !.snapshot[first] = Candidates(steps[wf][first], grants)]]
         /\ submittedSteps' = [submittedSteps EXCEPT ![v] = steps[wf]]
  /\ UNCHANGED records

Submit(v, row) ==
  /\ versions[v].state = "unused"
  /\ \/ SubmitAuto(v, row)
     \/ SubmitUnopposed(v, row)
     \/ SubmitPending(v, row)
  /\ UNCHANGED <<approvals, configVars>>

CreateRecord(u, v, after) ==
  Submit(v, ProposedRow("insert", NoRecord, after, 0, u))

\* A slip of UpdateRecord: expected_version is not compared.
UpdateUnread(u, v, r, after, expected) ==
  /\ records[r].status = "active"
  /\ Submit(v, ProposedRow("update", r, after, expected, u))

\* A client sends the version it read; it can have read any up to now.
UpdateRecord(u, v, r, after, expected) ==
  /\ records[r].status = "active"
  /\ records[r].version = expected
  /\ Submit(v, ProposedRow("update", r, after, expected, u))

\* A slip of DeleteRecord: a deleted record is found again.
DeleteTwice(u, v, r) ==
  /\ records[r].status # "absent"
  /\ Submit(v, ProposedRow("delete", r, NoPayload, 0, u))

DeleteRecord(u, v, r) ==
  /\ records[r].status = "active"
  /\ Submit(v, ProposedRow("delete", r, NoPayload, 0, u))

-----------------------------------------------------------------------------
(* WorkflowEngine.approve, reject and cancel.                              *)

\* The live steps of the workflow the version was submitted to.
StepsOf(v) == steps[versions[v].workflow]

\* A slip of MayDecide: the proposer is not excluded.
MayDecideOwn(u, v) ==
  /\ versions[v].state = "pending"
  /\ versions[v].step \in 1 .. Len(StepsOf(v))
  /\ u \in Named(Candidates(StepsOf(v)[versions[v].step], grants))

\* What approve() and reject() check before they write anything.  A step
\* index past the end of the live list raises IndexError.
MayDecide(u, v) ==
  /\ versions[v].state = "pending"
  /\ versions[v].proposer # u
  /\ versions[v].step \in 1 .. Len(StepsOf(v))
  /\ u \in Named(Candidates(StepsOf(v)[versions[v].step], grants))

\* The INSERT into approval_actions; the table's unique constraint refuses a
\* second row for the same version, step and approver.
Record(u, v, action) ==
  /\ ~ \E a \in approvals : /\ a.version = v
                            /\ a.step = versions[v].step
                            /\ a.approver = u
  /\ approvals' = approvals \union
       {[version |-> v, step |-> versions[v].step, approver |-> u,
         action |-> action]}

ApprovalsAt(table, v, step) ==
  {a \in table : a.version = v /\ a.step = step /\ a.action = "approve"}

\* Slips of Satisfied: the count is taken before the insert is flushed; the
\* approval just inserted is counted twice.
SatisfiedUnflushed(v) ==
  LET row == versions[v]
  IN  EnoughApprovals(StepsOf(v)[row.step],
                      Cardinality(ApprovalsAt(approvals, v, row.step)),
                      row.snapshot[row.step])
SatisfiedTwice(v) ==
  LET row == versions[v]
  IN  EnoughApprovals(StepsOf(v)[row.step],
                      Cardinality(ApprovalsAt(approvals', v, row.step)) + 1,
                      row.snapshot[row.step])

\* approve() has inserted its row when it counts.  The list stored for the
\* step is empty for every step but the first: see AdvanceStep.
Satisfied(v) ==
  LET row == versions[v]
  IN  EnoughApprovals(StepsOf(v)[row.step],
                      Cardinality(ApprovalsAt(approvals', v, row.step)),
                      row.snapshot[row.step])

\* A slip of StepAfter: the search starts one step too far.
StepBeyond(v) ==
  NextApplicable(StepsOf(v), versions[v].op, versions[v].after,
                 versions[v].step + 2)

StepAfter(v) ==
  NextApplicable(StepsOf(v), versions[v].op, versions[v].after,
                 versions[v].step + 1)

ApproveOnly(v) ==
  /\ ~Satisfied(v)
  /\ UNCHANGED <<records, versions>>

\* approve() also adds the new step's candidates to version.detail, but it
\* changes the loaded dict in place and the column is plain JSONB, so the
\* session never sees the change and the row keeps its old detail.
AdvanceStep(v) ==
  /\ Satisfied(v)
  /\ StepAfter(v) # 0
  /\ versions' = [versions EXCEPT ![v].step = StepAfter(v)]
  /\ UNCHANGED records

ApproveLast(v) ==
  /\ Satisfied(v)
  /\ StepAfter(v) = 0
  /\ Apply(v, versions[v])

Approve(u, v) ==
  /\ MayDecide(u, v)
  /\ Record(u, v, "approve")
  /\ ApproveOnly(v) \/ AdvanceStep(v) \/ ApproveLast(v)
  /\ UNCHANGED <<configVars, submittedSteps>>

Reject(u, v) ==
  /\ MayDecide(u, v)
  /\ Record(u, v, "reject")
  /\ versions' = [versions EXCEPT ![v].state = "rejected"]
  /\ UNCHANGED <<records, configVars, submittedSteps>>

\* A slip of Cancel: a settled version can be cancelled.
CancelAnytime(u, v) ==
  /\ versions[v].state # "unused"
  /\ versions[v].proposer = u
  /\ versions' = [versions EXCEPT ![v].state = "cancelled"]
  /\ UNCHANGED <<records, approvals, configVars, submittedSteps>>

Cancel(u, v) ==
  /\ versions[v].state = "pending"
  /\ versions[v].proposer = u
  /\ versions' = [versions EXCEPT ![v].state = "cancelled"]
  /\ UNCHANGED <<records, approvals, configVars, submittedSteps>>

-----------------------------------------------------------------------------
(* What administrators change while versions are pending.                  *)

UpdateWorkflow(wf, list) ==
  /\ steps' = [steps EXCEPT ![wf] = list]
  /\ UNCHANGED <<records, versions, approvals, grants, datasetWorkflow,
                 submittedSteps>>

\* update_dataset: a null workflow_id in the request leaves it as it was.
SetDatasetWorkflow(wf) ==
  /\ datasetWorkflow' = wf
  /\ UNCHANGED <<records, versions, approvals, steps, grants, submittedSteps>>

\* The unique constraint on (user, role, scope) refuses a repeated grant.
AssignRole(g) ==
  /\ g \notin grants
  /\ grants' = grants \union {g}
  /\ UNCHANGED <<records, versions, approvals, steps, datasetWorkflow,
                 submittedSteps>>

RevokeRole(g) ==
  /\ g \in grants
  /\ grants' = grants \ {g}
  /\ UNCHANGED <<records, versions, approvals, steps, datasetWorkflow,
                 submittedSteps>>

-----------------------------------------------------------------------------
Propose ==
  \E u \in Users, v \in Versions :
    \/ \E after \in Payloads : CreateRecord(u, v, after)
    \/ \E r \in Records, after \in Payloads :
         \E expected \in 1 .. records[r].version :
           UpdateRecord(u, v, r, after, expected)
    \/ \E r \in Records : DeleteRecord(u, v, r)

Review ==
  \E u \in Users, v \in Versions : Approve(u, v) \/ Reject(u, v) \/ Cancel(u, v)

EngineNext == Propose \/ Review

RoleNext == \E g \in Grants : AssignRole(g) \/ RevokeRole(g)

ConfigNext ==
  \/ \E wf \in Workflows, list \in StepLists : UpdateWorkflow(wf, list)
  \/ \E wf \in Workflows \union {AutoApprove} : SetDatasetWorkflow(wf)
  \/ RoleNext

Next == EngineNext \/ ConfigNext

Spec == Init /\ [][Next]_vars
=============================================================================
