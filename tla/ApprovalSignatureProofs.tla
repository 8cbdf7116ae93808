---------------------- MODULE ApprovalSignatureProofs ----------------------
(***************************************************************************)
(* For every number of users, steps and changes: while step lists stay as  *)
(* they are no step is left unsigned, and while roles stay as well a first *)
(* step in mode "all" has the signatures of everyone on its list, and a    *)
(* pending change has somebody who can sign next unless its workflow makes *)
(* that impossible.                                                        *)
(***************************************************************************)
EXTENDS ApprovalDecisionProofs

-----------------------------------------------------------------------------
(* What a step of the engine does to one change.                           *)

OthersStay(v) ==
  \A w \in Versions \ {v} : /\ versions'[w] = versions[w]
                            /\ submittedSteps'[w] = submittedSteps[w]

\* Written, and settled at once or put to its first step.
Written(v) ==
  LET new == versions'[v]
  IN  /\ versions[v].state = "unused"
      /\ OthersStay(v) /\ UNCHANGED approvals
      /\ \/ new.state \in {"applied", "superseded"} /\ new.step = 0
         \/ /\ new.state = "pending" /\ new.workflow \in Workflows
            /\ submittedSteps'[v] = steps[new.workflow]
            /\ new.step = First(v)' /\ new.step # 0
            /\ new.snapshot[new.step] =
                 Candidates(submittedSteps'[v][new.step], grants)
            /\ \A i \in 1 .. MaxSteps \ {new.step} : new.snapshot[i] = {}

SameProposal(v) ==
  /\ versions'[v].op = versions[v].op /\ versions'[v].after = versions[v].after
  /\ versions'[v].workflow = versions[v].workflow
  /\ versions'[v].snapshot = versions[v].snapshot
  /\ submittedSteps'[v] = submittedSteps[v]

\* Signed: nothing more, or on to the next step, or settled.
SignedBy(u, v) ==
  /\ MayDecide(u, v) /\ Record(u, v, "approve")
  /\ OthersStay(v) /\ SameProposal(v)
  /\ \/ ~Satisfied(v) /\ versions'[v] = versions[v]
     \/ /\ Satisfied(v) /\ StepAfter(v) # 0
        /\ versions'[v].state = "pending" /\ versions'[v].step = StepAfter(v)
     \/ /\ Satisfied(v) /\ StepAfter(v) = 0
        /\ Settled(v)' /\ versions'[v].step = versions[v].step

Refused(v) ==
  /\ versions[v].state = "pending"
  /\ OthersStay(v) /\ SameProposal(v)
  /\ versions'[v].state \in {"rejected", "cancelled"}
  /\ versions'[v].step = versions[v].step
  /\ UNCHANGED approvals \/ \E u \in Users : MayDecide(u, v) /\ Record(u, v, "reject")

\* apply() keeps what was proposed, and where.
LEMMA ApplyKeeps ==
  ASSUME TypeOK, NEW v \in Versions, NEW row \in VersionRow, Apply(v, row)
  PROVE  /\ versions'[v].op = row.op /\ versions'[v].after = row.after
         /\ versions'[v].workflow = row.workflow
         /\ versions'[v].snapshot = row.snapshot
<1>1. versions \in [Versions -> VersionRow]
  BY DEF TypeOK
<1>2. ASSUME NEW other \in VersionRow, NEW state, Decide(v, other, state),
             other.op = row.op, other.after = row.after, other.workflow = row.workflow,
             other.snapshot = row.snapshot
      PROVE  /\ versions'[v].op = row.op /\ versions'[v].after = row.after
             /\ versions'[v].workflow = row.workflow
             /\ versions'[v].snapshot = row.snapshot
  BY <1>1, <1>2 DEF Decide, VersionRow
<1>3. CASE ApplyInsert(v, row)
  <2>1. PICK r \in Records : Decide(v, [row EXCEPT !.record = r], "applied")
    BY <1>3 DEF ApplyInsert
  <2> DEFINE other == [row EXCEPT !.record = r]
  <2>2. /\ other \in VersionRow /\ other.op = row.op /\ other.after = row.after
        /\ other.workflow = row.workflow /\ other.snapshot = row.snapshot
    BY DEF VersionRow
  <2> HIDE DEF other
  <2> QED BY <1>2, <2>1, <2>2 DEF other
<1>4. CASE ApplyUpdate(v, row) \/ ApplyDelete(v, row) \/ Supersede(v, row)
  BY <1>2, <1>4 DEF ApplyUpdate, ApplyDelete, Supersede
<1> QED BY <1>3, <1>4 DEF Apply

LEMMA SubmitWrites ==
  ASSUME TypeOK, NEW v \in Versions, NEW row \in VersionRow, row.state = "pending",
         row.step = 0, row.snapshot = NoSnapshot, Submit(v, row)
  PROVE  Written(v)
<1>1. /\ versions[v].state = "unused" /\ UNCHANGED approvals
      /\ versions \in [Versions -> VersionRow]
      /\ submittedSteps \in [Versions -> StepList]
  BY DEF Submit, TypeOK
<1>2. CASE SubmitAuto(v, row)
  BY <1>1, <1>2, ApplyDecides DEF SubmitAuto, Written, OthersStay
<1>3. CASE SubmitUnopposed(v, row)
  <2> DEFINE other == [row EXCEPT !.workflow = datasetWorkflow]
  <2>1. other \in VersionRow
    BY RowUpdateType DEF TypeOK
  <2>2. other.step = row.step
    BY DEF VersionRow
  <2>3. Apply(v, other) /\ \A w \in Versions \ {v} : submittedSteps'[w] = submittedSteps[w]
    BY <1>1, <1>3 DEF SubmitUnopposed
  <2> HIDE DEF other
  <2> QED BY <1>1, <2>1, <2>2, <2>3, ApplyDecides DEF Written, OthersStay
<1>4. CASE SubmitPending(v, row)
  <2> DEFINE first == FirstStep(row)
             list == steps[datasetWorkflow]
             c == Candidates(list[first], grants)
             other == [row EXCEPT !.workflow = datasetWorkflow, !.step = first,
                         !.snapshot[first] = c]
  <2>1. /\ datasetWorkflow \in Workflows /\ first \in 1 .. MaxSteps /\ first # 0
        /\ versions' = [versions EXCEPT ![v] = other]
        /\ submittedSteps' = [submittedSteps EXCEPT ![v] = list]
    BY <1>4, PendingRowType DEF SubmitPending
  <2>2. first = NextApplicable(list, row.op, row.after, 1)
    BY DEF FirstStep
  <2> HIDE DEF first, list, c
  <2>3. /\ other.state = "pending" /\ other.workflow = datasetWorkflow
        /\ other.op = row.op /\ other.after = row.after
        /\ other.step = first /\ other.snapshot[first] = c
        /\ \A i \in 1 .. MaxSteps \ {first} : other.snapshot[i] = {}
    BY <2>1 DEF VersionRow, NoSnapshot
  <2> HIDE DEF other
  <2>4. versions'[v] = other /\ submittedSteps'[v] = list /\ OthersStay(v)
    BY <1>1, <2>1 DEF OthersStay
  <2>5. First(v)' = first
    BY <2>2, <2>3, <2>4 DEF First
  <2> QED BY <1>1, <2>1, <2>3, <2>4, <2>5 DEF Written, list, c
<1> QED BY <1>2, <1>3, <1>4 DEF Submit

LEMMA ApproveSigns ==
  ASSUME TypeInv, NEW u \in Users, NEW v \in Versions, Approve(u, v)
  PROVE  SignedBy(u, v)
<1>1. /\ MayDecide(u, v) /\ Record(u, v, "approve") /\ UNCHANGED submittedSteps
      /\ versions[v].state = "pending"
      /\ versions \in [Versions -> VersionRow] /\ versions[v] \in VersionRow
  BY DEF Approve, MayDecide, TypeInv, TypeOK
<1>2. CASE ApproveOnly(v)
  BY <1>1, <1>2 DEF ApproveOnly, SignedBy, OthersStay, SameProposal
<1>3. CASE AdvanceStep(v)
  <2>1. /\ versions'[v].state = "pending" /\ versions'[v].step = StepAfter(v)
        /\ versions'[v].op = versions[v].op /\ versions'[v].after = versions[v].after
        /\ versions'[v].workflow = versions[v].workflow
        /\ versions'[v].snapshot = versions[v].snapshot
        /\ \A w \in Versions \ {v} : versions'[w] = versions[w]
    BY <1>1, <1>3 DEF AdvanceStep, VersionRow
  <2> QED BY <1>1, <1>3, <2>1 DEF AdvanceStep, SignedBy, OthersStay, SameProposal
<1>4. CASE ApproveLast(v)
  <2>1. Apply(v, versions[v]) /\ Satisfied(v) /\ StepAfter(v) = 0
    BY <1>4 DEF ApproveLast
  <2>2. SameProposal(v)
    BY <1>1, <2>1, ApplyKeeps DEF SameProposal, TypeInv
  <2> QED BY <1>1, <2>1, <2>2, ApplyDecides DEF SignedBy, OthersStay, Settled
<1> QED BY <1>2, <1>3, <1>4 DEF Approve

LEMMA RefuseRefuses ==
  ASSUME TypeInv, NEW u \in Users, NEW v \in Versions, Reject(u, v) \/ Cancel(u, v)
  PROVE  Refused(v)
<1>1. PICK state \in {"rejected", "cancelled"} :
        /\ versions[v].state = "pending" /\ UNCHANGED submittedSteps
        /\ versions' = [versions EXCEPT ![v].state = state]
  BY DEF Reject, Cancel, MayDecide
<1>2. /\ versions'[v].state = state /\ versions'[v].step = versions[v].step
      /\ SameProposal(v) /\ OthersStay(v)
  BY <1>1 DEF TypeInv, TypeOK, VersionRow, SameProposal, OthersStay
<1> QED BY <1>1, <1>2 DEF Refused, Reject, Cancel

LEMMA EngineStep ==
  ASSUME TypeInv, EngineNext
  PROVE  \E v \in Versions :
           Written(v) \/ Refused(v) \/ \E u \in Users : SignedBy(u, v)
<1>1. CASE Propose
  BY <1>1, ProposeSubmits, SubmitWrites DEF TypeInv
<1>2. CASE Review
  BY <1>2, ApproveSigns, RefuseRefuses DEF Review
<1> QED BY <1>1, <1>2 DEF EngineNext

-----------------------------------------------------------------------------
(* No step is left unsigned while step lists stay as they are.             *)

\* Whoever administers, steps stay as they are.
FixedSteps == Next /\ UNCHANGED steps

\* A pending change is judged by the list it was submitted to.
ListKept ==
  \A v \in Versions : versions[v].state = "pending" =>
    versions[v].step # 0 /\ StepsOf(v) = submittedSteps[v]

\* The steps before the current one are signed, or do not apply.
SignedSoFar ==
  \A v \in Versions : versions[v].state = "pending" =>
    \A i \in 1 .. Len(submittedSteps[v]) :
      /\ i < versions[v].step
      /\ Applicable(submittedSteps[v][i], versions[v].op, versions[v].after)
      => Signers(v, i) # {}

SignInv == TypeInv /\ ListKept /\ SignedSoFar /\ EveryStepSigned

\* A signature is not withdrawn.
LEMMA SignersGrow ==
  ASSUME approvals \subseteq approvals', NEW v, NEW i
  PROVE  Signers(v, i) \subseteq Signers(v, i)'
<1>1. Signers(v, i)' = {a.approver : a \in ApprovalsAt(approvals', v, i)}
  BY DEF Signers
<1> QED BY <1>1 DEF Signers, ApprovalsAt

LEMMA SignerAdded ==
  ASSUME NEW u, NEW v, NEW i, i = versions[v].step, Record(u, v, "approve")
  PROVE  u \in Signers(v, i)'
<1> DEFINE a == [version |-> v, step |-> i, approver |-> u, action |-> "approve"]
<1>1. a \in ApprovalsAt(approvals', v, i)
  BY RecordTouches DEF ApprovalsAt
<1>2. Signers(v, i)' = {b.approver : b \in ApprovalsAt(approvals', v, i)}
  BY DEF Signers
<1> QED BY <1>1, <1>2

LEMMA ApprovalsGrow ==
  ASSUME NEW v \in Versions,
         Written(v) \/ Refused(v) \/ \E u \in Users : SignedBy(u, v)
  PROVE  approvals \subseteq approvals' /\ OthersStay(v)
BY RecordTouches DEF Written, Refused, SignedBy

\* What holds of a change that a step does not touch.
LEMMA UntouchedSigned ==
  ASSUME SignInv, NEW v \in Versions, approvals \subseteq approvals', UNCHANGED steps,
         OthersStay(v), NEW w \in Versions \ {v}
  PROVE  /\ versions'[w].state = "pending" =>
              versions'[w].step # 0 /\ StepsOf(w)' = submittedSteps'[w]
         /\ versions'[w].state = "pending" =>
              \A i \in 1 .. Len(submittedSteps'[w]) :
                /\ i < versions'[w].step
                /\ Applicable(submittedSteps'[w][i], versions'[w].op, versions'[w].after)
                => Signers(w, i)' # {}
         /\ Settled(w)' /\ versions'[w].step # 0 =>
              \A i \in 1 .. Len(submittedSteps'[w]) :
                Applicable(submittedSteps'[w][i], versions'[w].op, versions'[w].after)
                  => Signers(w, i)' # {}
<1>1. versions'[w] = versions[w] /\ submittedSteps'[w] = submittedSteps[w]
  BY DEF OthersStay
<1>2. Settled(w)' <=> Settled(w)
  BY <1>1 DEF Settled
<1>3. \A i : Signers(w, i) # {} => Signers(w, i)' # {}
  BY SignersGrow
<1> QED BY <1>1, <1>2, <1>3 DEF SignInv, ListKept, SignedSoFar, EveryStepSigned, StepsOf

\* A change that was just written has no step behind it.
LEMMA WrittenSigned ==
  ASSUME TypeInv', NEW v \in Versions, Written(v), UNCHANGED steps
  PROVE  /\ versions'[v].state = "pending" =>
              versions'[v].step # 0 /\ StepsOf(v)' = submittedSteps'[v]
         /\ versions'[v].state = "pending" =>
              \A i \in 1 .. Len(submittedSteps'[v]) :
                i < versions'[v].step =>
                  ~Applicable(submittedSteps'[v][i], versions'[v].op, versions'[v].after)
         /\ ~(Settled(v)' /\ versions'[v].step # 0)
<1>1. CASE versions'[v].state \in {"applied", "superseded"} /\ versions'[v].step = 0
  BY <1>1
<1>2. CASE versions'[v].state = "pending"
  <2> DEFINE list == submittedSteps'[v]
             op == versions'[v].op
             after == versions'[v].after
  <2>1. /\ versions'[v].step = NextApplicable(list, op, after, 1)
        /\ versions'[v].step # 0 /\ list = steps[versions'[v].workflow]
    BY <1>2 DEF Written, First
  <2>2. Len(list) \in Nat
    BY DEF TypeInv, TypeOK, StepList
  <2> HIDE DEF list, op, after
  <2>3. \A j \in 1 .. Len(list) : j < versions'[v].step => ~Applicable(list[j], op, after)
    BY <2>1, <2>2, NextApplicableFirst
  <2> QED BY <1>2, <2>1, <2>3 DEF Settled, StepsOf, list, op, after
<1> QED BY <1>1, <1>2 DEF Written

\* A signature at the current step closes it; the search for the next one
\* passes over steps only that do not apply.
LEMMA SignedSigned ==
  ASSUME SignInv, TypeInv', NEW u \in Users, NEW v \in Versions, SignedBy(u, v),
         UNCHANGED steps
  PROVE  /\ versions'[v].state = "pending" =>
              versions'[v].step # 0 /\ StepsOf(v)' = submittedSteps'[v]
         /\ versions'[v].state = "pending" =>
              \A i \in 1 .. Len(submittedSteps'[v]) :
                /\ i < versions'[v].step
                /\ Applicable(submittedSteps'[v][i], versions'[v].op, versions'[v].after)
                => Signers(v, i)' # {}
         /\ Settled(v)' /\ versions'[v].step # 0 =>
              \A i \in 1 .. Len(submittedSteps'[v]) :
                Applicable(submittedSteps'[v][i], versions'[v].op, versions'[v].after)
                  => Signers(v, i)' # {}
<1> DEFINE list == submittedSteps[v]
           op == versions[v].op
           after == versions[v].after
           step == versions[v].step
<1>1. /\ versions[v].state = "pending" /\ StepsOf(v) = list
      /\ step \in 1 .. Len(list) /\ Len(list) \in Nat
      /\ StepAfter(v) = NextApplicable(list, op, after, step + 1)
  BY DEF SignedBy, MayDecide, SignInv, ListKept, StepAfter, TypeInv, TypeOK, StepList
<1>2. /\ submittedSteps'[v] = list /\ versions'[v].op = op /\ versions'[v].after = after
      /\ StepsOf(v)' = list
  BY <1>1 DEF SignedBy, SameProposal, StepsOf
<1>3. \A i \in 1 .. Len(list) :
        i <= step /\ Applicable(list[i], op, after) => Signers(v, i)' # {}
  <2> SUFFICES ASSUME NEW i \in 1 .. Len(list), i <= step, Applicable(list[i], op, after)
               PROVE  Signers(v, i)' # {}
    OBVIOUS
  <2>1. CASE i = step
    BY <2>1, SignerAdded DEF SignedBy
  <2>2. CASE i # step
    <3>1. i < step
      BY <1>1, <2>2
    <3>2. Signers(v, i) # {}
      BY <1>1, <3>1 DEF SignInv, SignedSoFar
    <3> QED BY <3>2, SignersGrow, ApprovalsGrow
  <2> QED BY <2>1, <2>2
<1> HIDE DEF list, op, after
<1>4. CASE versions'[v] = versions[v]
  BY <1>1, <1>2, <1>3, <1>4 DEF Settled
<1>5. CASE /\ StepAfter(v) # 0
           /\ versions'[v].state = "pending" /\ versions'[v].step = StepAfter(v)
  <2>1. /\ StepAfter(v) \in Int
        /\ \A i \in step + 1 .. Len(list) :
             i < StepAfter(v) => ~Applicable(list[i], op, after)
    BY <1>1, <1>5, NextApplicableFirst
  <2>2. \A i \in 1 .. Len(list) : i < StepAfter(v) /\ Applicable(list[i], op, after) => i <= step
    BY <1>1, <2>1
  <2> QED BY <1>2, <1>3, <1>5, <2>2 DEF Settled
<1>6. CASE /\ StepAfter(v) = 0 /\ Settled(v)' /\ versions'[v].step = versions[v].step
  <2>1. \A i \in step + 1 .. Len(list) : ~Applicable(list[i], op, after)
    BY <1>1, <1>6, NextApplicableFirst
  <2>2. \A i \in 1 .. Len(list) : Applicable(list[i], op, after) => i <= step
    BY <1>1, <2>1
  <2> QED BY <1>2, <1>3, <1>6, <2>2 DEF Settled
<1> QED BY <1>4, <1>5, <1>6 DEF SignedBy

LEMMA SignStep == SignInv /\ [FixedSteps]_vars => SignInv'
<1> SUFFICES ASSUME SignInv, [FixedSteps]_vars PROVE SignInv'
  OBVIOUS
<1>1. TypeInv /\ TypeInv'
  BY TypeStep DEF SignInv, FixedSteps
<1>2. CASE EngineNext /\ UNCHANGED steps
  <2>1. PICK v \in Versions :
          Written(v) \/ Refused(v) \/ \E u \in Users : SignedBy(u, v)
    BY <1>1, <1>2, EngineStep
  <2>2. approvals \subseteq approvals' /\ OthersStay(v)
    BY <2>1, ApprovalsGrow
  <2>3. CASE Written(v)
    BY <1>1, <1>2, <2>2, <2>3, UntouchedSigned, WrittenSigned
       DEF SignInv, ListKept, SignedSoFar, EveryStepSigned
  <2>4. CASE Refused(v)
    <3>1. versions'[v].state # "pending" /\ ~Settled(v)'
      BY <2>4 DEF Refused, Settled
    <3> QED BY <1>1, <1>2, <2>2, <3>1, UntouchedSigned
            DEF SignInv, ListKept, SignedSoFar, EveryStepSigned
  <2>5. CASE \E u \in Users : SignedBy(u, v)
    BY <1>1, <1>2, <2>2, <2>5, UntouchedSigned, SignedSigned
       DEF SignInv, ListKept, SignedSoFar, EveryStepSigned
  <2> QED BY <2>1, <2>3, <2>4, <2>5
<1>3. CASE UNCHANGED <<versions, approvals, submittedSteps, steps>>
  BY <1>1, <1>3 DEF SignInv, ListKept, SignedSoFar, EveryStepSigned, StepsOf, Settled,
     Signers, ApprovalsAt
<1>4. CASE (ConfigNext /\ UNCHANGED steps) \/ UNCHANGED vars
  BY <1>3, <1>4 DEF ConfigNext, RoleNext, UpdateWorkflow, SetDatasetWorkflow,
     AssignRole, RevokeRole, vars
<1> QED BY <1>2, <1>4 DEF FixedSteps, Next

LEMMA SignStarts == Init => SignInv
<1>1. Init => ListKept /\ SignedSoFar /\ EveryStepSigned
  BY DEF Init, UnusedRow, ListKept, SignedSoFar, EveryStepSigned, Settled
<1> QED BY <1>1, TypeInit DEF SignInv

\* While step lists are not edited, no step of the list a change was
\* submitted to is left out, whatever happens to roles and datasets.
THEOREM NoStepUnsigned == Init /\ [][FixedSteps]_vars => []EveryStepSigned
<1>1. SignInv => EveryStepSigned
  BY DEF SignInv
<1> QED BY <1>1, SignStarts, SignStep, PTL

-----------------------------------------------------------------------------
(* Mode "all" at the first step, while roles stay as they are too.         *)

\* The list stored for the first step is who may sign it.
SnapshotKept ==
  \A v \in Versions : versions[v].step # 0 =>
    LET i == First(v)
    IN  /\ i \in 1 .. Len(submittedSteps[v]) /\ i <= versions[v].step
        /\ versions[v].snapshot[i] = Candidates(submittedSteps[v][i], grants)

\* Only candidates have signed.
SignersEntitled ==
  \A a \in approvals :
    /\ a.step \in 1 .. Len(submittedSteps[a.version])
    /\ a.approver \in Named(Candidates(submittedSteps[a.version][a.step], grants))

\* The unique constraint on approval_actions.
SignedOnce ==
  \A a, b \in approvals :
    a.version = b.version /\ a.step = b.step /\ a.approver = b.approver => a = b

CountersignInv ==
  /\ SignInv /\ DecisionInv
  /\ SnapshotKept /\ SignersEntitled /\ SignedOnce
  /\ FirstStepCountersigned

\* A list has no more names than entries.
LEMMA NamesCounted ==
  ASSUME NEW snapshot \in SUBSET Entries
  PROVE  /\ IsFiniteSet(snapshot) /\ IsFiniteSet(Named(snapshot))
         /\ Cardinality(snapshot) \in Nat /\ Cardinality(Named(snapshot)) \in Nat
         /\ Cardinality(Named(snapshot)) <= Cardinality(snapshot)
<1> DEFINE byEntry == [e \in snapshot |-> e[1]]
<1>1. IsFiniteSet(snapshot)
  BY FS_Product, FS_Subset, FiniteAssumption DEF Entries
<1>2. byEntry \in Surjection(snapshot, Named(snapshot))
  BY DEF Surjection, Named
<1>3. /\ IsFiniteSet(Named(snapshot))
      /\ Cardinality(Named(snapshot)) <= Cardinality(snapshot)
  BY <1>1, <1>2, FS_Surjection
<1> QED BY <1>1, <1>3, FS_CardinalityType

\* Signatures of different people are as many as these.
LEMMA SignaturesCounted ==
  ASSUME NEW signed, NEW people, IsFiniteSet(people),
         \A a, b \in signed : a.approver = b.approver => a = b,
         {a.approver : a \in signed} \subseteq people
  PROVE  /\ IsFiniteSet(signed) /\ IsFiniteSet({a.approver : a \in signed})
         /\ Cardinality(signed) \in Nat
         /\ Cardinality(signed) = Cardinality({a.approver : a \in signed})
         /\ Cardinality(signed) <= Cardinality(people)
<1> DEFINE signers == {a.approver : a \in signed}
           bySignature == [a \in signed |-> a.approver]
<1>1. IsFiniteSet(signers) /\ Cardinality(signers) <= Cardinality(people)
  BY FS_Subset
<1>2. bySignature \in Injection(signed, signers) /\ bySignature \in Surjection(signed, signers)
  BY DEF Injection, Surjection, IsInjective
<1>3. IsFiniteSet(signed) /\ Cardinality(signed) <= Cardinality(signers)
  BY <1>1, <1>2, FS_Injection
<1>4. Cardinality(signers) <= Cardinality(signed)
  BY <1>2, <1>3, FS_Surjection
<1>5. Cardinality(signed) \in Nat /\ Cardinality(signers) \in Nat
      /\ Cardinality(people) \in Nat
  BY <1>1, <1>3, FS_CardinalityType
<1>6. Cardinality(signed) = Cardinality(signers)
  BY <1>3, <1>4, <1>5
<1>7. Cardinality(signed) <= Cardinality(people)
  BY <1>1, <1>6
<1> QED BY <1>1, <1>3, <1>5, <1>6, <1>7

\* As many signatures as entries, one from each signer, and every signer on
\* the list: the whole list has signed.
LEMMA AllHaveSigned ==
  ASSUME NEW snapshot \in SUBSET Entries, NEW signed,
         \A a, b \in signed : a.approver = b.approver => a = b,
         {a.approver : a \in signed} \subseteq Named(snapshot),
         Cardinality(signed) >= Cardinality(snapshot)
  PROVE  Named(snapshot) \subseteq {a.approver : a \in signed}
<1> DEFINE signers == {a.approver : a \in signed}
<1>1. /\ IsFiniteSet(Named(snapshot))
      /\ Cardinality(snapshot) \in Nat /\ Cardinality(Named(snapshot)) \in Nat
      /\ Cardinality(Named(snapshot)) <= Cardinality(snapshot)
  BY NamesCounted
<1>2. /\ Cardinality(signed) \in Nat /\ Cardinality(signed) = Cardinality(signers)
      /\ Cardinality(signed) <= Cardinality(Named(snapshot))
  BY <1>1, SignaturesCounted
<1>3. Cardinality(signers) = Cardinality(Named(snapshot))
  BY <1>1, <1>2
<1> QED BY <1>1, <1>3, FS_Subset

\* A decision adds one row, of a candidate, at the current step.
LEMMA RecordKeeps ==
  ASSUME TypeInv, ListKept, SignersEntitled, SignedOnce,
         NEW v \in Versions, NEW u \in Users, NEW action,
         MayDecide(u, v), Record(u, v, action),
         submittedSteps' = submittedSteps, grants' = grants
  PROVE  SignersEntitled' /\ SignedOnce'
<1> DEFINE new == [version |-> v, step |-> versions[v].step, approver |-> u,
                   action |-> action]
<1>1. approvals' = approvals \union {new}
  BY DEF Record
<1>2. \A a \in approvals : ~(a.version = v /\ a.step = versions[v].step /\ a.approver = u)
  BY DEF Record
<1>3. /\ new.step \in 1 .. Len(submittedSteps[new.version])
      /\ new.approver \in Named(Candidates(submittedSteps[new.version][new.step], grants))
  BY DEF MayDecide, ListKept
<1>4. SignersEntitled'
  BY <1>1, <1>3 DEF SignersEntitled
<1>5. SignedOnce'
  BY <1>1, <1>2 DEF SignedOnce
<1> QED BY <1>4, <1>5

\* The engine leaves the configuration alone.
LEMMA EngineKeepsConfig == ASSUME EngineNext PROVE UNCHANGED configVars
<1>1. CASE Propose
  BY <1>1 DEF Propose, CreateRecord, UpdateRecord, DeleteRecord, Submit
<1>2. CASE Review
  BY <1>2 DEF Review, Approve, Reject, Cancel
<1> QED BY <1>1, <1>2 DEF EngineNext

LEMMA TouchedAlone ==
  ASSUME TypeOK, TypeOK', NEW v \in Versions, OthersStay(v),
         submittedSteps'[v] = submittedSteps[v]
  PROVE  submittedSteps' = submittedSteps
<1>1. /\ submittedSteps \in [Versions -> StepList]
      /\ submittedSteps' \in [Versions -> StepList]
  BY DEF TypeOK
<1>2. \A w \in Versions : submittedSteps'[w] = submittedSteps[w]
  BY DEF OthersStay
<1> QED BY <1>1, <1>2

\* Signatures, after whatever the engine does.
LEMMA SignaturesKept ==
  ASSUME CountersignInv, TypeOK', EngineNext, NEW v \in Versions,
         Written(v) \/ Refused(v) \/ \E u \in Users : SignedBy(u, v)
  PROVE  SignersEntitled' /\ SignedOnce'
<1>1. /\ TypeInv /\ TypeOK /\ ListKept /\ SignersEntitled /\ SignedOnce
      /\ grants' = grants
  BY EngineKeepsConfig DEF CountersignInv, SignInv, TypeInv, configVars
<1>2. CASE Written(v)
  <2>1. approvals' = approvals /\ \A a \in approvals : a.version \in Versions \ {v}
    BY <1>1, <1>2
       DEF Written, CountersignInv, DecisionInv, NoStrayApproval, TypeOK, Approval
  <2>2. \A w \in Versions \ {v} : submittedSteps'[w] = submittedSteps[w]
    BY <1>2 DEF Written, OthersStay
  <2> QED BY <1>1, <2>1, <2>2 DEF SignersEntitled, SignedOnce
<1>3. CASE Refused(v) \/ \E u \in Users : SignedBy(u, v)
  <2>1. submittedSteps' = submittedSteps
    BY <1>1, <1>3, TouchedAlone DEF Refused, SignedBy, SameProposal
  <2>2. CASE UNCHANGED approvals
    BY <1>1, <2>1, <2>2 DEF SignersEntitled, SignedOnce
  <2>3. CASE \E u \in Users, action \in {"approve", "reject"} :
               MayDecide(u, v) /\ Record(u, v, action)
    BY <1>1, <2>1, <2>3, RecordKeeps
  <2> QED BY <1>3, <2>2, <2>3 DEF Refused, SignedBy
<1> QED BY <1>2, <1>3

\* The row of one change, and what its signatures must come to.
ChangeCountersigned(v) ==
  LET i == First(v)
  IN  /\ versions[v].step # 0 =>
           /\ i \in 1 .. Len(submittedSteps[v]) /\ i <= versions[v].step
           /\ versions[v].snapshot[i] = Candidates(submittedSteps[v][i], grants)
      /\ i # 0 /\ Passed(v, i) /\ submittedSteps[v][i].mode = "all"
           => Named(versions[v].snapshot[i]) \subseteq Signers(v, i)

LEMMA UntouchedCountersigned ==
  ASSUME NEW v \in Versions, OthersStay(v), approvals \subseteq approvals',
         grants' = grants, NEW w \in Versions \ {v}, ChangeCountersigned(w)
  PROVE  ChangeCountersigned(w)'
<1>1. versions'[w] = versions[w] /\ submittedSteps'[w] = submittedSteps[w]
  BY DEF OthersStay
<1>2. First(w)' = First(w)
  BY <1>1 DEF First
<1>3. Passed(w, First(w))' <=> Passed(w, First(w))
  BY <1>1, <1>2 DEF Passed, Settled
<1>4. Signers(w, First(w)) \subseteq Signers(w, First(w))'
  <2> DEFINE i == First(w)
  <2>1. \A j : Signers(w, j) \subseteq Signers(w, j)'
    BY SignersGrow
  <2>2. PICK j : j = First(w)
    OBVIOUS
  <2>3. Signers(w, First(w))' = Signers(w, j)'
    BY <1>2, <2>2 DEF Signers
  <2> QED BY <2>1, <2>2, <2>3
<1> QED BY <1>1, <1>2, <1>3, <1>4 DEF ChangeCountersigned

LEMMA WrittenCountersigned ==
  ASSUME TypeInv', NEW v \in Versions, Written(v), grants' = grants
  PROVE  ChangeCountersigned(v)'
<1>1. CASE versions'[v].step = 0
  BY <1>1 DEF ChangeCountersigned, Passed
<1>2. CASE /\ versions'[v].step = First(v)' /\ versions'[v].step # 0
           /\ versions'[v].state = "pending"
           /\ versions'[v].snapshot[versions'[v].step] =
                Candidates(submittedSteps'[v][versions'[v].step], grants)
  <2> DEFINE i == First(v)'
             list == submittedSteps'[v]
  <2>1. i = NextApplicable(list, versions'[v].op, versions'[v].after, 1)
    BY DEF First
  <2>2. Len(list) \in Nat
    BY DEF TypeInv, TypeOK, StepList
  <2> HIDE DEF i, list
  <2>3. i \in 1 .. Len(list)
    BY <1>2, <2>1, <2>2, NextApplicableFirst DEF i
  <2>4. ~Passed(v, First(v))'
    <3>1. ~(i < versions'[v].step) /\ ~Settled(v)'
      BY <1>2, <2>2, <2>3 DEF Settled, i
    <3> QED BY <3>1 DEF Passed, i
  <2> QED BY <1>2, <2>2, <2>3, <2>4 DEF ChangeCountersigned, i, list
<1> QED BY <1>1, <1>2 DEF Written

\* A change whose proposal stays, and which did not get past its first step
\* just now.
LEMMA StayingCountersigned ==
  ASSUME TypeInv, NEW v \in Versions, SameProposal(v), ChangeCountersigned(v),
         approvals \subseteq approvals', grants' = grants,
         versions'[v].step # 0 => versions[v].step # 0,
         versions'[v].step \in Nat, versions'[v].step >= versions[v].step,
         NEW i, i = First(v), Passed(v, i)' => Passed(v, i)
  PROVE  ChangeCountersigned(v)'
<1>1. First(v)' = i /\ submittedSteps'[v] = submittedSteps[v]
  BY DEF SameProposal, First
<1>2. Signers(v, i) \subseteq Signers(v, i)' /\ Signers(v, First(v))' = Signers(v, i)'
  BY <1>1, SignersGrow DEF Signers
<1>3. Passed(v, First(v))' <=> Passed(v, i)'
  BY <1>1 DEF Passed
<1>4. versions[v].step \in Nat /\ versions'[v].snapshot = versions[v].snapshot
  BY DEF TypeInv, TypeOK, VersionRow, SameProposal
<1>5. i \in 1 .. Len(submittedSteps[v]) => i \in Nat
  BY DEF TypeInv, TypeOK, StepList
<1> QED BY <1>1, <1>2, <1>3, <1>4, <1>5 DEF ChangeCountersigned

LEMMA RefusedCountersigned ==
  ASSUME TypeInv, NEW v \in Versions, Refused(v), ChangeCountersigned(v),
         grants' = grants
  PROVE  ChangeCountersigned(v)'
<1>1. PICK i : i = First(v)
  OBVIOUS
<1>2. Passed(v, i)' => Passed(v, i)
  BY DEF Refused, Passed, Settled
<1>3. versions'[v].step = versions[v].step /\ versions[v].step \in Nat
  BY DEF Refused, TypeInv, TypeOK, VersionRow
<1> QED BY <1>1, <1>2, <1>3, StayingCountersigned, ApprovalsGrow DEF Refused

\* The signature that closes a first step in mode "all" is its list's last.
LEMMA SignedCountersigned ==
  ASSUME TypeInv, TypeOK', ListKept, SignersEntitled', SignedOnce',
         NEW u \in Users, NEW v \in Versions, SignedBy(u, v), ChangeCountersigned(v),
         grants' = grants
  PROVE  ChangeCountersigned(v)'
<1>1. PICK i : i = First(v)
  OBVIOUS
<1> DEFINE step == versions[v].step
           list == submittedSteps[v]
<1>2. /\ versions[v].state = "pending" /\ step # 0 /\ StepsOf(v) = list
      /\ versions[v] \in VersionRow /\ step \in Nat /\ step \in 1 .. Len(list)
      /\ Len(list) \in Nat /\ StepAfter(v) \in Nat
      /\ i \in 1 .. Len(list) /\ i <= step
      /\ versions[v].snapshot[i] = Candidates(list[i], grants)
  <2>1. MayDecide(u, v)
    BY DEF SignedBy
  <2>2. StepAfter(v) \in Nat /\ step \in Nat
    BY <2>1, StepAfterType, MaxStepsAssumption
  <2>3. Len(list) \in Nat /\ versions[v] \in VersionRow
    BY DEF TypeInv, TypeOK, StepList
  <2>4. versions[v].state = "pending" /\ step # 0 /\ StepsOf(v) = list
    BY <2>1 DEF MayDecide, ListKept
  <2> QED BY <1>1, <2>1, <2>2, <2>3, <2>4 DEF MayDecide, ChangeCountersigned
<1>3. StepAfter(v) # 0 => StepAfter(v) > step
  <2>1. StepAfter(v) = NextApplicable(list, versions[v].op, versions[v].after, step + 1)
    BY <1>2 DEF StepAfter
  <2> HIDE DEF list, step
  <2>2. StepAfter(v) # 0 => StepAfter(v) \in step + 1 .. Len(list)
    BY <1>2, <2>1, NextApplicableFirst
  <2> QED BY <1>2, <2>2
<1>4. /\ versions'[v].step \in Nat /\ versions'[v].step >= step
      /\ approvals \subseteq approvals' /\ SameProposal(v)
  BY <1>2, <1>3, ApprovalsGrow DEF SignedBy
<1>5. CASE Passed(v, i)' => Passed(v, i)
  BY <1>1, <1>2, <1>4, <1>5, StayingCountersigned
<1>6. CASE Passed(v, i)' /\ ~Passed(v, i)
  <2>1. i = step
    BY <1>2, <1>6 DEF Passed
  <2>2. Satisfied(v)
    <3>1. versions'[v] # versions[v]
      BY <1>6 DEF Passed, Settled
    <3> QED BY <3>1 DEF SignedBy
  <2> DEFINE signed == ApprovalsAt(approvals', v, i)
             snapshot == versions[v].snapshot[i]
  <2>3. ASSUME list[i].mode = "all"
        PROVE  Named(snapshot) \subseteq {a.approver : a \in signed}
    <3>1. Cardinality(signed) >= Cardinality(snapshot)
      BY <1>2, <2>1, <2>2, <2>3 DEF Satisfied, EnoughApprovals
    <3>2. \A a, b \in signed : a.approver = b.approver => a = b
      BY DEF SignedOnce, ApprovalsAt
    <3>3. submittedSteps'[v] = list
      BY <1>4 DEF SameProposal
    <3>4. \A a \in signed : a.approver \in Named(snapshot)
      BY <1>2, <3>3 DEF SignersEntitled, ApprovalsAt
    <3>5. snapshot \in SUBSET Entries
      <4>1. list[i] \in Step
        BY <1>2, StepListType DEF TypeInv, TypeOK
      <4> QED BY <1>2, <4>1, CandidatesType
    <3> HIDE DEF signed, snapshot
    <3> QED BY <3>1, <3>2, <3>4, <3>5, AllHaveSigned
  <2>4. /\ First(v)' = i /\ submittedSteps'[v] = list
        /\ versions'[v].snapshot = versions[v].snapshot
    BY <1>1, <1>4 DEF SameProposal, First
  <2>5. Signers(v, First(v))' = {a.approver : a \in signed}
    BY <2>4 DEF Signers
  <2> HIDE DEF signed
  <2>6. i <= versions'[v].step
    BY <1>2, <1>4
  <2> QED BY <1>2, <2>3, <2>4, <2>5, <2>6 DEF ChangeCountersigned
<1> QED BY <1>5, <1>6

LEMMA CountersignParts ==
  (\A v \in Versions : ChangeCountersigned(v)) <=> SnapshotKept /\ FirstStepCountersigned
BY DEF ChangeCountersigned, SnapshotKept, FirstStepCountersigned

LEMMA CountersignPartsNext ==
  (\A v \in Versions : ChangeCountersigned(v))' <=> SnapshotKept' /\ FirstStepCountersigned'
BY CountersignParts, PTL

LEMMA CountersignStep == CountersignInv /\ [EngineNext]_vars => CountersignInv'
<1> SUFFICES ASSUME CountersignInv, [EngineNext]_vars PROVE CountersignInv'
  OBVIOUS
<1>1. CASE EngineNext
  <2>1. TypeInv /\ ListKept /\ grants' = grants /\ steps' = steps
    BY <1>1, EngineKeepsConfig DEF CountersignInv, SignInv, configVars
  <2>2. SignInv' /\ DecisionInv'
    BY <1>1, <2>1, SignStep, DecisionStep DEF CountersignInv, FixedSteps, Next
  <2>3. TypeInv' /\ TypeOK'
    BY <2>2 DEF SignInv, TypeInv
  <2>4. PICK v \in Versions :
          Written(v) \/ Refused(v) \/ \E u \in Users : SignedBy(u, v)
    BY <1>1, <2>1, EngineStep
  <2>5. approvals \subseteq approvals' /\ OthersStay(v)
    BY <2>4, ApprovalsGrow
  <2>6. SignersEntitled' /\ SignedOnce'
    BY <1>1, <2>3, <2>4, SignaturesKept
  <2>7. \A w \in Versions : ChangeCountersigned(w)
    BY CountersignParts DEF CountersignInv
  <2>8. ChangeCountersigned(v)'
    BY <2>1, <2>3, <2>4, <2>6, <2>7,
       WrittenCountersigned, RefusedCountersigned, SignedCountersigned
  <2>9. \A w \in Versions \ {v} : ChangeCountersigned(w)'
    BY <2>1, <2>5, <2>7, UntouchedCountersigned
  <2>10. \A w \in Versions : ChangeCountersigned(w)'
    BY <2>8, <2>9
  <2> QED BY <2>2, <2>6, <2>10, CountersignPartsNext DEF CountersignInv
<1>2. CASE UNCHANGED vars
  <2>1. SignInv' /\ DecisionInv'
    BY <1>2, SignStep, DecisionStep DEF CountersignInv
  <2>2. SignersEntitled' /\ SignedOnce'
    BY <1>2 DEF CountersignInv, SignersEntitled, SignedOnce, vars
  <2>3. SnapshotKept' /\ FirstStepCountersigned'
    BY <1>2 DEF CountersignInv, SnapshotKept, FirstStepCountersigned, First, Passed,
       Settled, Signers, ApprovalsAt, vars
  <2> QED BY <2>1, <2>2, <2>3 DEF CountersignInv
<1> QED BY <1>1, <1>2

LEMMA CountersignStarts == Init => CountersignInv
<1>1. Init => NoStrayApproval /\ FourEyes
  BY DEF Init, NoStrayApproval, FourEyes, Settled, UnusedRow
<1>2. Init => SnapshotKept /\ SignersEntitled /\ SignedOnce /\ FirstStepCountersigned
  BY DEF Init, UnusedRow, SnapshotKept, SignersEntitled, SignedOnce,
     FirstStepCountersigned, Passed
<1> QED BY <1>1, <1>2, TypeInit, SignStarts DEF CountersignInv, DecisionInv

\* Nothing being reconfigured, a change gets past a first step in mode "all"
\* only with the signatures of everyone on the list stored at submission.
THEOREM FirstStepHasAll == StableSpec => []FirstStepCountersigned
<1>1. CountersignInv => FirstStepCountersigned
  BY DEF CountersignInv
<1> QED BY <1>1, CountersignStarts, CountersignStep, PTL DEF StableSpec
-----------------------------------------------------------------------------
(* Who is still to sign, while nothing is reconfigured.                    *)

\* A pending change waits at a step of its list that applies to it.
AtAStep(v) ==
  versions[v].state = "pending" =>
    /\ versions[v].step \in 1 .. Len(submittedSteps[v])
    /\ Applicable(submittedSteps[v][versions[v].step], versions[v].op, versions[v].after)

\* No candidates but the first step's are stored.
StoredForFirst(v) ==
  versions[v].step # 0 =>
    \A i \in 1 .. MaxSteps \ {First(v)} : versions[v].snapshot[i] = {}

\* What was decided about a pending change are approvals, of steps it has
\* come to.
NothingAhead(v) ==
  versions[v].state = "pending" =>
    \A a \in approvals : a.version = v =>
      a.action = "approve" /\ a.step <= versions[v].step

\* The signatures at the step where a change waits do not satisfy it.
NotEnoughYet(v) ==
  versions[v].state = "pending" =>
    LET i == versions[v].step
        signed == ApprovalsAt(approvals, v, i)
    IN  signed # {} => ~EnoughApprovals(submittedSteps[v][i], Cardinality(signed),
                                        versions[v].snapshot[i])

\* Past a first step in mode "all", the signatures there are as many as the
\* entries of its list.
FirstStepCounted(v) ==
  LET i == First(v)
  IN  versions[v].step # 0 /\ Passed(v, i) /\ submittedSteps[v][i].mode = "all" =>
        Cardinality(ApprovalsAt(approvals, v, i)) >= Cardinality(versions[v].snapshot[i])

ChangeInOrder(v) ==
  /\ AtAStep(v) /\ StoredForFirst(v) /\ NothingAhead(v)
  /\ NotEnoughYet(v) /\ FirstStepCounted(v)

ProgressInv == CountersignInv /\ \A v \in Versions : ChangeInOrder(v)

LEMMA UntouchedInOrder ==
  ASSUME NEW v \in Versions, OthersStay(v), NEW w \in Versions \ {v},
         \A a : a.version = w => (a \in approvals' <=> a \in approvals),
         ChangeInOrder(w)
  PROVE  ChangeInOrder(w)'
<1>1. versions'[w] = versions[w] /\ submittedSteps'[w] = submittedSteps[w]
  BY DEF OthersStay
<1>2. First(w)' = First(w)
  BY <1>1 DEF First
<1>3. \A i : ApprovalsAt(approvals', w, i) = ApprovalsAt(approvals, w, i)
  BY DEF ApprovalsAt
<1>4. AtAStep(w)' /\ StoredForFirst(w)'
  BY <1>1, <1>2 DEF ChangeInOrder, AtAStep, StoredForFirst
<1>5. NothingAhead(w)'
  BY <1>1 DEF ChangeInOrder, NothingAhead
<1>6. NotEnoughYet(w)'
  BY <1>1, <1>3 DEF ChangeInOrder, NotEnoughYet
<1>7. FirstStepCounted(w)'
  BY <1>1, <1>2, <1>3 DEF ChangeInOrder, FirstStepCounted, Passed, Settled
<1> QED BY <1>4, <1>5, <1>6, <1>7 DEF ChangeInOrder

LEMMA WrittenInOrder ==
  ASSUME CountersignInv, TypeInv', NEW v \in Versions, Written(v)
  PROVE  ChangeInOrder(v)'
<1>1. \A a \in approvals' : a.version # v
  BY DEF Written, CountersignInv, DecisionInv, NoStrayApproval
<1>2. NothingAhead(v)'
  BY <1>1 DEF NothingAhead
<1>3. CASE versions'[v].state \in {"applied", "superseded"} /\ versions'[v].step = 0
  BY <1>2, <1>3
     DEF ChangeInOrder, AtAStep, StoredForFirst, NotEnoughYet, FirstStepCounted
<1>4. CASE versions'[v].state = "pending"
  <2> DEFINE list == submittedSteps'[v]
             op == versions'[v].op
             after == versions'[v].after
             i == versions'[v].step
  <2>1. /\ i = First(v)' /\ i # 0
        /\ \A j \in 1 .. MaxSteps \ {i} : versions'[v].snapshot[j] = {}
    BY <1>4 DEF Written
  <2>2. i = NextApplicable(list, op, after, 1) /\ Len(list) \in Nat
    BY <2>1 DEF First, TypeInv, TypeOK, StepList
  <2>3. i \in 1 .. Len(list) /\ Applicable(list[i], op, after)
    <3> HIDE DEF list, op, after, i
    <3> QED BY <2>1, <2>2, NextApplicableFirst
  <2>4. AtAStep(v)'
    BY <2>3 DEF AtAStep
  <2>5. StoredForFirst(v)'
    BY <2>1 DEF StoredForFirst
  <2>6. NotEnoughYet(v)'
    <3>1. ApprovalsAt(approvals', v, i) = {}
      BY <1>1 DEF ApprovalsAt
    <3> QED BY <3>1 DEF NotEnoughYet
  <2>7. ~Passed(v, First(v))'
    <3>1. ~(i < i) /\ ~Settled(v)'
      BY <1>4, <2>3 DEF Settled
    <3> QED BY <2>1, <3>1 DEF Passed
  <2> QED BY <1>2, <2>4, <2>5, <2>6, <2>7 DEF ChangeInOrder, FirstStepCounted
<1> QED BY <1>3, <1>4 DEF Written

\* A decision that leaves the change decided, or just signed, and had no
\* signature to add to an earlier step.
LEMMA StayingCounted ==
  ASSUME NEW v \in Versions, SameProposal(v), FirstStepCounted(v),
         versions'[v].step # 0 => versions[v].step # 0,
         NEW i, i = First(v), Passed(v, i)' => Passed(v, i),
         Passed(v, i) => ApprovalsAt(approvals', v, i) = ApprovalsAt(approvals, v, i)
  PROVE  FirstStepCounted(v)'
<1>1. First(v)' = i /\ submittedSteps'[v] = submittedSteps[v]
      /\ versions'[v].snapshot = versions[v].snapshot
  BY DEF SameProposal, First
<1>2. Passed(v, First(v))' <=> Passed(v, i)'
  BY <1>1 DEF Passed
<1> QED BY <1>1, <1>2 DEF FirstStepCounted

LEMMA RefusedInOrder ==
  ASSUME NEW v \in Versions, Refused(v), ChangeInOrder(v)
  PROVE  ChangeInOrder(v)'
<1>1. PICK i : i = First(v)
  OBVIOUS
<1>2. /\ versions'[v].state # "pending" /\ versions'[v].step = versions[v].step
      /\ SameProposal(v) /\ First(v)' = First(v)
  BY DEF Refused, SameProposal, First
<1>3. ApprovalsAt(approvals', v, i) = ApprovalsAt(approvals, v, i)
  BY DEF Refused, Record, ApprovalsAt
<1>4. Passed(v, i)' => Passed(v, i)
  BY DEF Refused, Passed, Settled
<1>5. FirstStepCounted(v)'
  BY <1>1, <1>2, <1>3, <1>4, StayingCounted DEF ChangeInOrder
<1>6. StoredForFirst(v)'
  BY <1>2 DEF ChangeInOrder, StoredForFirst, SameProposal
<1> QED BY <1>2, <1>5, <1>6 DEF ChangeInOrder, AtAStep, NothingAhead, NotEnoughYet
\* A signature: the step is satisfied and left, or it is not enough yet.
LEMMA SignedInOrder ==
  ASSUME CountersignInv, NEW u \in Users, NEW v \in Versions, SignedBy(u, v),
         ChangeInOrder(v)
  PROVE  ChangeInOrder(v)'
<1>1. PICK i : i = First(v)
  OBVIOUS
<1> DEFINE step == versions[v].step
           list == submittedSteps[v]
           op == versions[v].op
           after == versions[v].after
           signed == [version |-> v, step |-> step, approver |-> u, action |-> "approve"]
<1>2. /\ versions[v].state = "pending" /\ step # 0 /\ StepsOf(v) = list
      /\ step \in 1 .. Len(list) /\ Len(list) \in Nat
      /\ i \in 1 .. Len(list) /\ i <= step
  BY <1>1 DEF SignedBy, MayDecide, CountersignInv, SignInv, ListKept, SnapshotKept,
     TypeInv, TypeOK, StepList
<1>3. StepAfter(v) = NextApplicable(list, op, after, step + 1)
  BY <1>2 DEF StepAfter
<1>4. approvals' = approvals \union {signed}
  BY DEF SignedBy, Record
<1>5. \A a \in approvals : a.version = v => a.action = "approve" /\ a.step <= step
  BY <1>2 DEF ChangeInOrder, NothingAhead
<1>6. /\ submittedSteps'[v] = list /\ versions'[v].op = op /\ versions'[v].after = after
      /\ versions'[v].snapshot = versions[v].snapshot
      /\ First(v)' = i /\ SameProposal(v)
  BY <1>1 DEF SignedBy, SameProposal, First
<1>7. StoredForFirst(v)'
  BY <1>1, <1>2, <1>6 DEF ChangeInOrder, StoredForFirst
<1>8. i # step => ApprovalsAt(approvals', v, i) = ApprovalsAt(approvals, v, i)
  BY <1>4 DEF ApprovalsAt
<1>9. Satisfied(v) <=> EnoughApprovals(list[step], Cardinality(ApprovalsAt(approvals', v, step)),
                                       versions[v].snapshot[step])
  BY <1>2 DEF Satisfied
<1>10. CASE ~Satisfied(v) /\ versions'[v] = versions[v]
  <2>1. AtAStep(v)'
    BY <1>6, <1>10 DEF ChangeInOrder, AtAStep
  <2>2. NothingAhead(v)'
    BY <1>2, <1>4, <1>5, <1>10 DEF NothingAhead
  <2>3. NotEnoughYet(v)'
    BY <1>6, <1>9, <1>10 DEF NotEnoughYet
  <2>4. Passed(v, i)' => Passed(v, i)
    BY <1>10 DEF Passed, Settled
  <2>5. Passed(v, i) => i # step
    BY <1>2 DEF Passed, Settled
  <2> HIDE DEF step
  <2>6. FirstStepCounted(v)'
    BY <1>1, <1>6, <1>8, <1>10, <2>4, <2>5, StayingCounted DEF ChangeInOrder
  <2> QED BY <1>7, <2>1, <2>2, <2>3, <2>6 DEF ChangeInOrder
<1>11. ASSUME Satisfied(v), versions'[v].step # 0, versions'[v].step = step => Settled(v)'
       PROVE  FirstStepCounted(v)'
  <2>1. CASE i = step
    <3>1. list[i].mode = "all" =>
            Cardinality(ApprovalsAt(approvals', v, i)) >= Cardinality(versions[v].snapshot[i])
      BY <1>9, <1>11, <2>1 DEF EnoughApprovals
    <3> QED BY <1>6, <3>1 DEF FirstStepCounted
  <2>2. CASE i # step
    <3>1. Passed(v, i)
      BY <1>2, <2>2 DEF Passed
    <3>2. ApprovalsAt(approvals', v, i) = ApprovalsAt(approvals, v, i)
      BY <1>8, <2>2
    <3> QED BY <1>1, <1>2, <1>6, <3>1, <3>2, StayingCounted DEF ChangeInOrder
  <2> QED BY <2>1, <2>2
<1>12. CASE /\ Satisfied(v) /\ StepAfter(v) # 0
            /\ versions'[v].state = "pending" /\ versions'[v].step = StepAfter(v)
  <2>1. StepAfter(v) \in step + 1 .. Len(list) /\ Applicable(list[StepAfter(v)], op, after)
    <3>1. step + 1 \in Nat \ {0}
      BY <1>2
    <3> HIDE DEF list, op, after, step
    <3> QED BY <1>2, <1>3, <1>12, <3>1, NextApplicableFirst
  <2>2. AtAStep(v)'
    BY <1>2, <1>6, <1>12, <2>1 DEF AtAStep
  <2>3. ASSUME NEW a \in approvals', a.version = v
        PROVE  a.action = "approve" /\ a.step <= StepAfter(v) /\ a.step # StepAfter(v)
    <3>1. a.action = "approve" /\ a.step <= step /\ a.step \in Int
      <4>1. CASE a = signed
        BY <1>2, <4>1
      <4>2. CASE a \in approvals
        BY <1>5, <2>3, <4>2 DEF CountersignInv, DecisionInv, TypeInv, TypeOK, Approval
      <4> QED BY <1>4, <4>1, <4>2
    <3> QED BY <1>2, <2>1, <3>1
  <2>4. NothingAhead(v)'
    BY <1>12, <2>3 DEF NothingAhead
  <2>5. NotEnoughYet(v)'
    <3>1. ApprovalsAt(approvals', v, StepAfter(v)) = {}
      BY <2>3 DEF ApprovalsAt
    <3> QED BY <1>12, <3>1 DEF NotEnoughYet
  <2>6. FirstStepCounted(v)'
    BY <1>2, <1>11, <1>12, <2>1
  <2> QED BY <1>7, <2>2, <2>4, <2>5, <2>6 DEF ChangeInOrder
<1>13. CASE Satisfied(v) /\ Settled(v)' /\ versions'[v].step = step
  <2>1. FirstStepCounted(v)' /\ versions'[v].state # "pending"
    BY <1>2, <1>11, <1>13 DEF Settled
  <2> QED BY <1>7, <2>1 DEF ChangeInOrder, AtAStep, NothingAhead, NotEnoughYet
<1> QED BY <1>10, <1>12, <1>13 DEF SignedBy

LEMMA ProgressStep == ProgressInv /\ [EngineNext]_vars => ProgressInv'
<1> SUFFICES ASSUME ProgressInv, [EngineNext]_vars
             PROVE  CountersignInv' /\ \A w \in Versions : ChangeInOrder(w)'
  BY DEF ProgressInv
<1>1. CountersignInv /\ CountersignInv' /\ TypeInv /\ TypeInv'
  BY CountersignStep DEF ProgressInv, CountersignInv, SignInv
<1>2. CASE EngineNext
  <2>1. PICK v \in Versions :
          Written(v) \/ Refused(v) \/ \E u \in Users : SignedBy(u, v)
    BY <1>1, <1>2, EngineStep
  <2>2. OthersStay(v) /\ \A a : a.version # v => (a \in approvals' <=> a \in approvals)
    BY <2>1 DEF Written, Refused, SignedBy, Record
  <2>3. ChangeInOrder(v)'
    BY <1>1, <2>1, WrittenInOrder, RefusedInOrder, SignedInOrder DEF ProgressInv
  <2>4. \A w \in Versions \ {v} : ChangeInOrder(w)'
    BY <2>2, UntouchedInOrder DEF ProgressInv
  <2> QED BY <1>1, <2>3, <2>4
<1>3. CASE UNCHANGED vars
  <2>1. \A w \in Versions : ChangeInOrder(w)'
    BY <1>3 DEF ProgressInv, ChangeInOrder, AtAStep, StoredForFirst, NothingAhead,
       NotEnoughYet, FirstStepCounted, First, Passed, Settled, ApprovalsAt, vars
  <2> QED BY <1>1, <2>1
<1> QED BY <1>2, <1>3

LEMMA ProgressStarts == Init => ProgressInv
<1>1. Init => \A v \in Versions : ChangeInOrder(v)
  BY DEF Init, UnusedRow, ChangeInOrder, AtAStep, StoredForFirst, NothingAhead,
     NotEnoughYet, FirstStepCounted
<1> QED BY <1>1, CountersignStarts DEF ProgressInv

\* At a step, the signatures are those of so many candidates.
LEMMA SignaturesAt ==
  ASSUME CountersignInv, NEW v \in Versions, NEW i \in 1 .. Len(submittedSteps[v])
  PROVE  LET signed == ApprovalsAt(approvals, v, i)
             c == Candidates(submittedSteps[v][i], grants)
         IN  /\ c \in SUBSET Entries
             /\ \A a, b \in signed : a.approver = b.approver => a = b
             /\ {a.approver : a \in signed} \subseteq Named(c)
<1> DEFINE signed == ApprovalsAt(approvals, v, i)
           c == Candidates(submittedSteps[v][i], grants)
<1>1. submittedSteps[v][i] \in Step
  BY StepListType DEF CountersignInv, DecisionInv, TypeInv, TypeOK
<1>2. c \in SUBSET Entries
  BY <1>1, CandidatesType
<1>3. \A a, b \in signed : a.approver = b.approver => a = b
  BY DEF CountersignInv, SignedOnce, ApprovalsAt
<1>4. \A a \in signed : a.approver \in Named(c)
  BY DEF CountersignInv, SignersEntitled, ApprovalsAt
<1> QED BY <1>2, <1>3, <1>4

\* A list with the proposer or a repeated user on it cannot be satisfied in
\* mode "all": a change it is stored for does not get past its first step.
THEOREM UnreachableStays == StableSpec => []UnreachableNotPassed
<1>1. ProgressInv => UnreachableNotPassed
  <2> SUFFICES ASSUME ProgressInv, NEW v \in Versions, NEW i, i = First(v),
                      versions[v].step # 0, submittedSteps[v][i].mode = "all",
                      Unreachable(v), Passed(v, i)
               PROVE  FALSE
    BY DEF UnreachableNotPassed
  <2> DEFINE c == versions[v].snapshot[i]
             signed == ApprovalsAt(approvals, v, i)
             signers == {a.approver : a \in signed}
             proposer == versions[v].proposer
  <2>1. /\ i \in 1 .. Len(submittedSteps[v])
        /\ c = Candidates(submittedSteps[v][i], grants)
    BY DEF ProgressInv, CountersignInv, SnapshotKept
  <2>2. /\ c \in SUBSET Entries /\ signers \subseteq Named(c)
        /\ \A a, b \in signed : a.approver = b.approver => a = b
    BY <2>1, SignaturesAt DEF ProgressInv
  <2>3. Cardinality(signed) >= Cardinality(c)
    BY DEF ProgressInv, ChangeInOrder, FirstStepCounted
  <2>4. proposer \notin signers
    BY DEF ProgressInv, CountersignInv, DecisionInv, FourEyes, ApprovalsAt
  <2>5. proposer \in Named(c) \/ Cardinality(Named(c)) # Cardinality(c)
    BY DEF Unreachable
  <2> HIDE DEF c, signed, proposer
  <2>6. /\ IsFiniteSet(Named(c)) /\ Cardinality(c) \in Nat /\ Cardinality(Named(c)) \in Nat
        /\ Cardinality(Named(c)) <= Cardinality(c)
    BY <2>2, NamesCounted
  <2>7. /\ Cardinality(signed) \in Nat /\ Cardinality(signed) = Cardinality(signers)
        /\ Cardinality(signed) <= Cardinality(Named(c))
    BY <2>2, <2>6, SignaturesCounted
  <2>8. Cardinality(Named(c)) = Cardinality(c) /\ Cardinality(signers) = Cardinality(Named(c))
    BY <2>3, <2>6, <2>7
  <2>9. signers = Named(c)
    BY <2>2, <2>6, <2>8, FS_Subset
  <2> QED BY <2>4, <2>5, <2>8, <2>9
<1> QED BY <1>1, ProgressStarts, ProgressStep, PTL DEF StableSpec

\* Nothing being reconfigured, a pending change that can be completed always
\* has an approver whose signature is still to come.
THEOREM SomebodyCanSign == StableSpec => []NeverStuck
<1>1. ProgressInv => NeverStuck
  <2> SUFFICES ASSUME ProgressInv, NEW v \in Versions, versions[v].state = "pending",
                      Completable(v)
               PROVE  \E u \in Users : CanSign(u, v)
    BY DEF NeverStuck
  <2> DEFINE i == versions[v].step
             list == submittedSteps[v]
             c == Candidates(list[i], grants)
             signed == ApprovalsAt(approvals, v, i)
             signers == {a.approver : a \in signed}
             proposer == versions[v].proposer
  <2>1. /\ StepsOf(v) = list /\ i # 0 /\ i \in 1 .. Len(list) /\ Len(list) \in Nat
        /\ list[i] \in Step /\ i \in 1 .. MaxSteps
        /\ Applicable(list[i], versions[v].op, versions[v].after)
    BY StepListType, MaxStepsAssumption
       DEF ProgressInv, ChangeInOrder, AtAStep, CountersignInv, SignInv, ListKept, TypeInv, TypeOK
  <2>2. /\ Named(c) \ {proposer} # {}
        /\ list[i].mode = "all" /\ i = First(v) =>
             proposer \notin Named(c) /\ Cardinality(Named(c)) = Cardinality(c)
    BY <2>1 DEF Completable
  <2>3. /\ c \in SUBSET Entries /\ signers \subseteq Named(c)
        /\ \A a, b \in signed : a.approver = b.approver => a = b
    BY <2>1, SignaturesAt DEF ProgressInv
  <2>4. ASSUME NEW u \in Named(c), u # proposer, u \notin signers
        PROVE  u \in Users /\ CanSign(u, v)
    <3>1. u \in Users
      BY <2>3 DEF Named, Entries
    <3>2. MayDecide(u, v)
      BY <2>1, <2>4 DEF MayDecide
    <3>3. \A a \in approvals : a.version = v => a.action = "approve"
      BY DEF ProgressInv, ChangeInOrder, NothingAhead
    <3> QED BY <2>4, <3>1, <3>2, <3>3 DEF CanSign, ApprovalsAt
  <2>5. CASE signed = {}
    BY <2>2, <2>4, <2>5
  <2>6. CASE signed # {}
    <3>1. ~EnoughApprovals(list[i], Cardinality(signed), versions[v].snapshot[i])
      BY <2>6 DEF ProgressInv, ChangeInOrder, NotEnoughYet
    <3>2. list[i].mode \in {"any", "all"}
      BY <2>1 DEF Step
    <3>3. versions[v].snapshot[i] = IF i = First(v) THEN c ELSE {}
      BY <2>1 DEF ProgressInv, ChangeInOrder, StoredForFirst, CountersignInv, SnapshotKept
    <3> HIDE DEF i, list, c, signed, proposer
    <3>4. /\ IsFiniteSet(Named(c)) /\ Cardinality(c) \in Nat
          /\ Cardinality(Named(c)) \in Nat
      BY <2>3, NamesCounted
    <3>5. /\ IsFiniteSet(signed) /\ IsFiniteSet(signers) /\ Cardinality(signed) \in Nat
          /\ Cardinality(signed) = Cardinality(signers)
      BY <2>3, <3>4, SignaturesCounted
    <3>6. Cardinality(signed) >= 1
      BY <2>6, <3>5, FS_EmptySet
    <3>7. list[i].mode = "all" /\ Cardinality(signed) < Cardinality(versions[v].snapshot[i])
      <4>1. Cardinality(versions[v].snapshot[i]) \in Nat
        BY <3>3, <3>4, FS_EmptySet
      <4> QED BY <3>1, <3>2, <3>5, <3>6, <4>1 DEF EnoughApprovals
    <3>8. i = First(v)
      BY <3>3, <3>5, <3>7, FS_EmptySet
    <3>9. Cardinality(signers) < Cardinality(Named(c)) /\ proposer \notin Named(c)
      BY <2>2, <3>3, <3>5, <3>7, <3>8
    <3>10. ~(Named(c) \subseteq signers)
      BY <2>3, <3>4, <3>5, <3>9, FS_Subset
    <3> QED BY <2>4, <3>9, <3>10
  <2> QED BY <2>5, <2>6
<1> QED BY <1>1, ProgressStarts, ProgressStep, PTL DEF StableSpec
=============================================================================
