------------------------- MODULE ApprovalProperties -------------------------
(***************************************************************************)
(* What the approval workflow must guarantee.                              *)
(***************************************************************************)
EXTENDS ApprovalWorkflow

\* Every table holds rows of its declared columns.
TypeOK ==
  /\ records \in [Records -> RecordRow]
  /\ versions \in [Versions -> VersionRow]
  /\ approvals \subseteq Approval
  /\ steps \in [Workflows -> StepLists]
  /\ grants \subseteq Grants
  /\ datasetWorkflow \in Workflows \union {AutoApprove}
  /\ submittedSteps \in [Versions -> StepList]

-----------------------------------------------------------------------------
(* The record and its versions.                                            *)

AppliedTo(r) == {v \in Versions : /\ versions[v].state = "applied"
                                  /\ versions[v].record = r}

\* The record version that an applied change produced.
Produced(v) == IF versions[v].op = "insert" THEN 1 ELSE versions[v].base + 1

\* A record's applied changes form one line without gap or fork: each
\* version number from 1 to the record's own was produced by exactly one
\* applied change, version 1 by an insert.  This is what the WHERE
\* version = exp_ver of _apply_update and _apply_delete is for, however
\* many changes wait on one record at the same time.
SerialHistory ==
  \A r \in Records :
    /\ \A k \in 1 .. records[r].version : \E v \in AppliedTo(r) : Produced(v) = k
    /\ \A v \in AppliedTo(r) : Produced(v) \in 1 .. records[r].version
    /\ \A v, w \in AppliedTo(r) : Produced(v) = Produced(w) => v = w

\* A record holds what its last applied change put there: an active record
\* the after_payload of the insert or update that produced its version, a
\* soft deleted one the payload it had when its deletion was proposed.
RecordIsLastWrite ==
  \A r \in Records : \A v \in AppliedTo(r) :
    Produced(v) = records[r].version =>
      IF versions[v].op = "delete"
      THEN /\ records[r].status = "soft_deleted"
           /\ records[r].payload = versions[v].before
      ELSE /\ records[r].status = "active"
           /\ records[r].payload = versions[v].after

\* A change is marked superseded only when the record has really moved past
\* the version it was proposed against (apply's ConflictError branch), so no
\* approval is thrown away while it could still take effect.
SupersededWasStale ==
  \A v \in Versions : versions[v].state = "superseded" =>
    records[versions[v].record].version > versions[v].base

\* The diff that approvers are shown, before_payload against after_payload,
\* is the change that happens: an update or delete takes effect only on an
\* active record that still holds the before_payload stored at submission.
AppliedAsReviewed ==
  [][\A v \in Versions :
       /\ versions[v].state # "applied"
       /\ versions'[v].state = "applied"
       /\ versions'[v].op # "insert"
       => LET r == versions'[v].record
          IN  /\ records[r].status = "active"
              /\ records[r].payload = versions'[v].before
              /\ records'[r].version = records[r].version + 1]_vars

\* An update replaces exactly the version its proposer said it had read
\* (expected_version), whether it is applied at once or after approvals
\* during which others changed the record.
NoLostUpdate ==
  [][\A v \in Versions :
       /\ versions[v].state # "applied"
       /\ versions'[v].state = "applied"
       /\ versions'[v].op = "update"
       => records[versions'[v].record].version = versions'[v].expected]_vars

-----------------------------------------------------------------------------
(* The approvals.                                                          *)

\* The version went past or was settled by approval at its current step.
Settled(v) == versions[v].state \in {"applied", "superseded"}
Passed(v, i) == /\ versions[v].step # 0
                /\ i < versions[v].step \/ (i = versions[v].step /\ Settled(v))

Signers(v, i) == {a.approver : a \in ApprovalsAt(approvals, v, i)}

\* Four eyes: nobody signs a change of their own, and a change that was ever
\* put to approval is not settled before somebody signed at the step it had
\* reached (approve's and reject's proposed_by check, _is_step_satisfied).
FourEyes ==
  /\ \A a \in approvals : a.approver # versions[a.version].proposer
  /\ \A v \in Versions :
       Settled(v) /\ versions[v].step # 0 => Signers(v, versions[v].step) # {}

\* No step of the workflow a change was submitted to is left out: when the
\* change is settled, every step whose condition holds for it was signed.
EveryStepSigned ==
  \A v \in Versions : Settled(v) /\ versions[v].step # 0 =>
    \A i \in 1 .. Len(submittedSteps[v]) :
      Applicable(submittedSteps[v][i], versions[v].op, versions[v].after)
        => Signers(v, i) # {}

\* The first step a change was put to.
First(v) == NextApplicable(submittedSteps[v], versions[v].op, versions[v].after, 1)

\* Countersigning, mode "all", at the first step: the change gets past it
\* only when everyone on the list stored at submission has signed.
FirstStepCountersigned ==
  \A v \in Versions : LET i == First(v) IN
    i # 0 /\ Passed(v, i) /\ submittedSteps[v][i].mode = "all"
      => Named(versions[v].snapshot[i]) \subseteq Signers(v, i)

\* Mode "all" counts entries against signatures, so a list with the proposer
\* or one user twice on it asks for more signatures than there can be.
Unreachable(v) ==
  LET c == versions[v].snapshot[First(v)]
  IN  versions[v].proposer \in Named(c) \/ Cardinality(Named(c)) # Cardinality(c)

\* No way around such a list (_is_step_satisfied against the entries stored
\* by submit): a change that it is stored for stays at its first step until
\* it is rejected or cancelled, whoever signs.
UnreachableNotPassed ==
  \A v \in Versions : LET i == First(v) IN
    /\ versions[v].step # 0
    /\ submittedSteps[v][i].mode = "all" /\ Unreachable(v)
    => ~Passed(v, i)

\* Countersigning as the workflow model documents it, at whichever step:
\* everyone who may approve a step in mode "all" must have signed it.
EveryStepCountersigned ==
  \A v \in Versions : \A i \in 1 .. Len(submittedSteps[v]) :
    /\ Passed(v, i)
    /\ Applicable(submittedSteps[v][i], versions[v].op, versions[v].after)
    /\ submittedSteps[v][i].mode = "all"
    => Named(Candidates(submittedSteps[v][i], grants)) \subseteq Signers(v, i)

\* A decision is final: once a change is applied, superseded, rejected or
\* cancelled neither its row nor the list of its approvals changes again.
DecisionIsFinal ==
  [][\A v \in Versions : versions[v].state \notin {"unused", "pending"} =>
       /\ versions'[v] = versions[v]
       /\ {a \in approvals' : a.version = v} = {a \in approvals : a.version = v}]_vars

-----------------------------------------------------------------------------
(* Specifications that leave out part of what administrators do.           *)

\* Nothing is reconfigured while changes are under way.
StableSpec == Init /\ [][EngineNext]_vars

\* Step lists are edited; roles stay as they are.
StepsSpec ==
  Init /\ [][EngineNext \/ \E wf \in Workflows, list \in StepLists :
                             UpdateWorkflow(wf, list)]_vars

\* Every approver who can sign a change in the end does, or somebody settles
\* it first.  The code does not schedule people: this is an assumption on
\* the users, under which the engine must not lose or block a change.
Diligence == \A u \in Users, v \in Versions : WF_vars(Approve(u, v))

\* Nothing in the change or its workflow stands in the way of approval:
\* each step still to come has a candidate other than the proposer, and a
\* first step in mode "all" lists neither the proposer nor anyone twice.
Completable(v) ==
  LET row == versions[v]
      list == StepsOf(v)
  IN  /\ row.op = "delete" \/ HasPayload(row)
      /\ \A i \in row.step .. Len(list) : Applicable(list[i], row.op, row.after) =>
           LET c == Candidates(list[i], grants)
           IN  /\ Named(c) \ {row.proposer} # {}
               /\ list[i].mode = "all" /\ i = First(v) =>
                    /\ row.proposer \notin Named(c)
                    /\ Cardinality(Named(c)) = Cardinality(c)

\* Whom approve() would let sign now: admitted, and not refused by the unique
\* constraint for having signed before.
CanSign(u, v) ==
  /\ MayDecide(u, v)
  /\ ~ \E a \in approvals : /\ a.version = v
                            /\ a.step = versions[v].step
                            /\ a.approver = u

\* No change runs out of signers: while a pending change can be completed,
\* somebody can sign it who has not, wherever it has got to.  A signature
\* that was counted wrongly, or left the change at a step it had satisfied,
\* would use up the one approver there is.
NeverStuck ==
  \A v \in Versions :
    versions[v].state = "pending" /\ Completable(v) => \E u \in Users : CanSign(u, v)

\* A pending change that can be completed is, when its approvers act.
ApprovalCompletes ==
  \A v \in Versions :
    versions[v].state = "pending" /\ Completable(v) ~> versions[v].state # "pending"

-----------------------------------------------------------------------------
(* The engine implements RecordHistory: the line of a record is read off   *)
(* the versions table.                                                     *)

Line(r) ==
  [k \in 1 .. records[r].version |-> CHOOSE v \in AppliedTo(r) : Produced(v) = k]

Stage(state) ==
  CASE state = "unused" -> "none"
    [] state = "pending" -> "open"
    [] state = "applied" -> "applied"
    [] state = "superseded" -> "stale"
    [] OTHER -> "withdrawn"

ProposalOf(v) == [state |-> Stage(versions[v].state), op |-> versions[v].op,
                  target |-> versions[v].record, base |-> versions[v].base]

History == INSTANCE RecordHistory WITH
  log <- [r \in Records |-> Line(r)],
  proposal <- [v \in Versions |-> ProposalOf(v)]

\* Each step of the engine is a step of the abstract record history or
\* leaves it alone.
ImplementsHistory == History!HistSpec
=============================================================================
