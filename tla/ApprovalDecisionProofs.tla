----------------------- MODULE ApprovalDecisionProofs -----------------------
(***************************************************************************)
(* For every number of users, steps and changes: nobody signs a change of  *)
(* their own, nothing that was put to approval is settled without a        *)
(* signature, and a decision is final.                                     *)
(***************************************************************************)
EXTENDS ApprovalWorkflowProofs

\* A step settles, moves on or creates at most one change, one that was not
\* decided before, and inserts approvals of that change only.
OnlyTouches(v) ==
  /\ versions[v].state \in {"unused", "pending"}
  /\ \A w \in Versions \ {v} : versions'[w] = versions[w]
  /\ \A a \in Approval : a.version # v => (a \in approvals' <=> a \in approvals)

LEMMA SubmitTouches ==
  ASSUME TypeOK, NEW v \in Versions, NEW row \in VersionRow,
         row.state = "pending", Submit(v, row)
  PROVE  /\ OnlyTouches(v) /\ UNCHANGED approvals
         /\ versions'[v].state \in {"applied", "superseded"} =>
              versions'[v].step = row.step
<1>1. /\ versions[v].state = "unused" /\ UNCHANGED approvals
      /\ versions \in [Versions -> VersionRow]
  BY DEF Submit, TypeOK
<1>2. CASE SubmitAuto(v, row)
  BY <1>1, <1>2, ApplyDecides DEF SubmitAuto, OnlyTouches
<1>3. CASE SubmitUnopposed(v, row)
  <2> DEFINE other == [row EXCEPT !.workflow = datasetWorkflow]
  <2>1. other \in VersionRow /\ other.step = row.step
    <3>1. other \in VersionRow
      BY RowUpdateType DEF TypeOK
    <3>2. other.step = row.step
      BY DEF VersionRow
    <3>3. QED
      BY <3>1, <3>2
  <2>2. Apply(v, other)
    BY <1>3 DEF SubmitUnopposed
  <2> HIDE DEF other
  <2>3. QED
    BY <1>1, <2>1, <2>2, ApplyDecides DEF OnlyTouches
<1>4. CASE SubmitPending(v, row)
  <2>1. \A w \in Versions \ {v} : versions'[w] = versions[w]
    BY <1>1, <1>4 DEF SubmitPending
  <2>2. versions'[v].state = row.state
    BY <1>1, <1>4 DEF SubmitPending, VersionRow
  <2>3. QED
    BY <1>1, <2>1, <2>2 DEF OnlyTouches
<1>5. QED
  BY <1>2, <1>3, <1>4 DEF Submit

\* The row inserted belongs to the change that is decided on.
LEMMA RecordTouches ==
  ASSUME NEW u, NEW v, NEW action, Record(u, v, action)
  PROVE  /\ approvals \subseteq approvals'
         /\ [version |-> v, step |-> versions[v].step, approver |-> u,
             action |-> action] \in approvals'
         /\ \A a \in approvals' \ approvals : a.version = v /\ a.approver = u
BY DEF Record

\* An approval leaves the change at a step, or settles it there.
LEMMA ApproveTouches ==
  ASSUME TypeInv, NEW u \in Users, NEW v \in Versions, Approve(u, v)
  PROVE  /\ OnlyTouches(v)
         /\ versions[v].proposer # u
         /\ versions'[v].proposer = versions[v].proposer
         /\ versions'[v].state # "unused"
         /\ versions'[v].state \in {"applied", "superseded"} =>
              versions'[v].step = versions[v].step
<1>1. /\ MayDecide(u, v) /\ versions[v].state = "pending" /\ versions[v].proposer # u
      /\ versions \in [Versions -> VersionRow] /\ versions[v] \in VersionRow
  BY DEF Approve, MayDecide, TypeInv, TypeOK
<1>2. \A a \in Approval : a.version # v => (a \in approvals' <=> a \in approvals)
  BY RecordTouches DEF Approve
<1>3. CASE ApproveOnly(v)
  BY <1>1, <1>2, <1>3 DEF ApproveOnly, OnlyTouches
<1>4. CASE AdvanceStep(v)
  <2>1. /\ versions'[v].state = "pending"
        /\ versions'[v].proposer = versions[v].proposer
        /\ \A w \in Versions \ {v} : versions'[w] = versions[w]
    BY <1>1, <1>4 DEF AdvanceStep, VersionRow
  <2>2. QED
    BY <1>1, <1>2, <2>1 DEF OnlyTouches
<1>5. CASE ApproveLast(v)
  BY <1>1, <1>2, <1>5, ApplyDecides DEF ApproveLast, OnlyTouches
<1>6. QED
  BY <1>3, <1>4, <1>5 DEF Approve

\* A refusal, by an approver or by the proposer, settles nothing.
LEMMA RefuseTouches ==
  ASSUME TypeInv, NEW u \in Users, NEW v \in Versions, Reject(u, v) \/ Cancel(u, v)
  PROVE  /\ OnlyTouches(v)
         /\ versions'[v].proposer = versions[v].proposer
         /\ versions'[v].state \in {"rejected", "cancelled"}
         /\ approvals \subseteq approvals'
         /\ \A a \in approvals' \ approvals : a.version = v /\ a.approver # versions[v].proposer
<1>1. versions \in [Versions -> VersionRow] /\ versions[v] \in VersionRow
  BY DEF TypeInv, TypeOK
<1>2. ASSUME NEW state \in {"rejected", "cancelled"}, versions[v].state = "pending",
             versions' = [versions EXCEPT ![v].state = state]
      PROVE  /\ versions'[v].proposer = versions[v].proposer
             /\ versions'[v].state = state
             /\ \A w \in Versions \ {v} : versions'[w] = versions[w]
  BY <1>1, <1>2 DEF VersionRow
<1>3. CASE Reject(u, v)
  <2>1. /\ approvals \subseteq approvals'
        /\ \A a \in approvals' \ approvals : a.version = v /\ a.approver = u
    BY <1>3, RecordTouches DEF Reject
  <2>2. /\ versions[v].state = "pending" /\ versions[v].proposer # u
        /\ versions' = [versions EXCEPT ![v].state = "rejected"]
    BY <1>3 DEF Reject, MayDecide
  <2>3. /\ versions'[v].proposer = versions[v].proposer
        /\ versions'[v].state = "rejected"
        /\ \A w \in Versions \ {v} : versions'[w] = versions[w]
    BY <1>2, <2>2
  <2>4. QED
    BY <2>1, <2>2, <2>3 DEF OnlyTouches
<1>4. CASE Cancel(u, v)
  BY <1>2, <1>4 DEF Cancel, OnlyTouches
<1>5. QED
  BY <1>3, <1>4

-----------------------------------------------------------------------------
(* The inductive invariant and the theorems.                               *)

\* Approvals belong to changes that exist.
NoStrayApproval == \A a \in approvals : versions[a.version].state # "unused"

DecisionInv == TypeInv /\ NoStrayApproval /\ FourEyes

\* What keeps the invariant when one change is touched.
LEMMA TouchKeeps ==
  ASSUME DecisionInv, NEW v \in Versions, OnlyTouches(v), approvals \subseteq approvals',
         approvals' \subseteq Approval,
         \A a \in approvals' \ approvals : a.version = v /\ a.approver # versions'[v].proposer,
         \A a \in approvals : a.version = v => versions'[v].proposer = versions[v].proposer,
         versions'[v].state = "unused" => \A a \in approvals' : a.version # v,
         Settled(v)' /\ versions'[v].step # 0 => Signers(v, versions[v].step)' # {}
  PROVE  NoStrayApproval' /\ FourEyes'
<1>1. \A a \in approvals' : a.version \in Versions
  BY DEF Approval
<1>2. \A w \in Versions \ {v} : versions'[w] = versions[w]
  BY DEF OnlyTouches
<1>3. NoStrayApproval'
  BY <1>1, <1>2 DEF DecisionInv, NoStrayApproval
<1>4. \A a \in approvals' : a.approver # versions'[a.version].proposer
  BY <1>1, <1>2 DEF DecisionInv, FourEyes
<1>5. ASSUME NEW w \in Versions, Settled(w)', versions'[w].step # 0
      PROVE  Signers(w, versions[w].step)' # {}
  <2>1. CASE w # v
    <3>1. Settled(w) /\ versions[w].step # 0 /\ versions'[w] = versions[w]
      BY <1>2, <1>5, <2>1 DEF Settled
    <3>2. PICK a \in ApprovalsAt(approvals, w, versions[w].step) : TRUE
      BY <3>1 DEF DecisionInv, FourEyes, Signers
    <3>3. a \in ApprovalsAt(approvals', w, versions'[w].step)
      BY <3>1, <3>2 DEF ApprovalsAt
    <3>4. Signers(w, versions[w].step)' = {b.approver : b \in ApprovalsAt(approvals', w, versions'[w].step)}
      BY DEF Signers
    <3>5. QED
      BY <3>3, <3>4
  <2>2. QED
    BY <1>5, <2>1
<1>6. FourEyes'
  BY <1>4, <1>5 DEF FourEyes
<1>7. QED
  BY <1>3, <1>6

LEMMA DecisionStep == DecisionInv /\ [Next]_vars => DecisionInv'
<1> SUFFICES ASSUME DecisionInv, [Next]_vars PROVE NoStrayApproval' /\ FourEyes'
  BY TypeStep DEF DecisionInv
<1>1. TypeInv /\ TypeOK /\ approvals' \subseteq Approval
  BY TypeStep DEF DecisionInv, TypeInv, TypeOK
<1>2. CASE Propose
  <2>1. PICK v \in Versions, row \in VersionRow :
          row.state = "pending" /\ row.step = 0 /\ Submit(v, row)
    BY <1>1, <1>2, ProposeSubmits
  <2>2. OnlyTouches(v) /\ UNCHANGED approvals /\ versions[v].state = "unused"
    BY <1>1, <2>1, SubmitTouches DEF Submit
  <2>3. \A a \in approvals : a.version # v
    BY <2>2 DEF DecisionInv, NoStrayApproval
  <2>4. Settled(v)' => versions'[v].step = 0
    BY <1>1, <2>1, SubmitTouches DEF Settled
  <2>5. QED
    BY <1>1, <2>2, <2>3, <2>4, TouchKeeps
<1>3. ASSUME NEW u \in Users, NEW v \in Versions, Approve(u, v)
      PROVE  NoStrayApproval' /\ FourEyes'
  <2> DEFINE signed == [version |-> v, step |-> versions[v].step, approver |-> u,
                        action |-> "approve"]
  <2>1. /\ OnlyTouches(v) /\ versions[v].proposer # u
        /\ versions'[v].proposer = versions[v].proposer
        /\ versions'[v].state # "unused"
        /\ versions'[v].state \in {"applied", "superseded"} =>
             versions'[v].step = versions[v].step
    BY <1>1, <1>3, ApproveTouches
  <2>2. /\ approvals \subseteq approvals' /\ signed \in approvals'
        /\ \A a \in approvals' \ approvals : a.version = v /\ a.approver = u
    BY <1>3, RecordTouches DEF Approve
  <2>3. Settled(v)' /\ versions'[v].step # 0 => Signers(v, versions[v].step)' # {}
    <3>1. ASSUME Settled(v)' PROVE signed \in ApprovalsAt(approvals', v, versions'[v].step)
      BY <2>1, <2>2, <3>1 DEF Settled, ApprovalsAt
    <3>2. Signers(v, versions[v].step)' = {b.approver : b \in ApprovalsAt(approvals', v, versions'[v].step)}
      BY DEF Signers
    <3>3. QED
      BY <3>1, <3>2
  <2>4. \A a \in approvals' \ approvals : a.version = v /\ a.approver # versions'[v].proposer
    BY <2>1, <2>2
  <2>5. QED
    BY <1>1, <2>1, <2>2, <2>3, <2>4, TouchKeeps
<1>4. ASSUME NEW u \in Users, NEW v \in Versions, Reject(u, v) \/ Cancel(u, v)
      PROVE  NoStrayApproval' /\ FourEyes'
  <2>1. ~Settled(v)' /\ versions'[v].state # "unused"
    BY <1>1, <1>4, RefuseTouches DEF Settled
  <2>2. /\ OnlyTouches(v) /\ approvals \subseteq approvals'
        /\ versions'[v].proposer = versions[v].proposer
        /\ \A a \in approvals' \ approvals :
             a.version = v /\ a.approver # versions'[v].proposer
    BY <1>1, <1>4, RefuseTouches
  <2>3. QED
    BY <1>1, <2>1, <2>2, TouchKeeps
<1>5. CASE UNCHANGED <<versions, approvals>>
  BY <1>5 DEF DecisionInv, NoStrayApproval, FourEyes, Settled, Signers, ApprovalsAt
<1>6. CASE ConfigNext \/ UNCHANGED vars
  BY <1>5, <1>6 DEF ConfigNext, RoleNext, UpdateWorkflow, SetDatasetWorkflow,
       AssignRole, RevokeRole, vars
<1>7. QED
  BY <1>2, <1>3, <1>4, <1>6 DEF Next, EngineNext, Review

LEMMA DecisionInvariant == Spec => []DecisionInv
<1>1. Init => DecisionInv
  <2>1. Init => NoStrayApproval /\ FourEyes
    BY DEF Init, NoStrayApproval, FourEyes, Settled, UnusedRow
  <2>2. QED
    BY <2>1, TypeInit DEF DecisionInv
<1>2. QED
  BY <1>1, DecisionStep, PTL DEF Spec

\* Nobody signs a change of their own, and a change that was put to approval
\* is not settled without a signature at the step it had reached.
THEOREM FourEyesHolds == Spec => []FourEyes
<1>1. DecisionInv => FourEyes
  BY DEF DecisionInv
<1>2. QED
  BY <1>1, DecisionInvariant, PTL

\* A change that is decided keeps its row and the list of its approvals.
THEOREM DecisionsAreFinal == Spec => DecisionIsFinal
<1>1. TypeInv /\ TypeInv' /\ [Next]_vars =>
        [\A v \in Versions : versions[v].state \notin {"unused", "pending"} =>
           /\ versions'[v] = versions[v]
           /\ {a \in approvals' : a.version = v} = {a \in approvals : a.version = v}]_vars
  <2> SUFFICES ASSUME TypeInv, TypeInv', [Next]_vars,
                      NEW v \in Versions, versions[v].state \notin {"unused", "pending"}
               PROVE  /\ versions'[v] = versions[v]
                      /\ {a \in approvals' : a.version = v}
                           = {a \in approvals : a.version = v}
    OBVIOUS
  <2>1. approvals \subseteq Approval /\ approvals' \subseteq Approval
    BY DEF TypeInv, TypeOK
  <2>2. ASSUME NEW w \in Versions, OnlyTouches(w)
        PROVE  /\ versions'[v] = versions[v]
               /\ {a \in approvals' : a.version = v} = {a \in approvals : a.version = v}
    <3>1. v # w
      BY <2>2 DEF OnlyTouches
    <3>2. QED
      BY <2>1, <2>2, <3>1 DEF OnlyTouches
  <2>3. CASE Propose
    <3>1. \E w \in Versions : OnlyTouches(w)
      BY <2>3, ProposeSubmits, SubmitTouches DEF TypeInv
    <3>2. QED
      BY <2>2, <3>1
  <2>4. CASE Review
    <3>1. \E w \in Versions : OnlyTouches(w)
      BY <2>4, ApproveTouches, RefuseTouches DEF Review
    <3>2. QED
      BY <2>2, <3>1
  <2>5. CASE ConfigNext \/ UNCHANGED vars
    BY <2>5 DEF ConfigNext, RoleNext, UpdateWorkflow, SetDatasetWorkflow,
         AssignRole, RevokeRole, vars
  <2>6. QED
    BY <2>3, <2>4, <2>5 DEF Next, EngineNext
<1>2. Spec => []TypeInv
  BY TypeInit, TypeStep, PTL DEF Spec
<1>3. QED
  BY <1>1, <1>2, PTL DEF Spec, DecisionIsFinal
=============================================================================
