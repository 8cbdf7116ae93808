--------------------------- MODULE WorkflowSteps ---------------------------
(***************************************************************************)
(* What a workflow row says: its list of steps, which step applies to a    *)
(* proposed change, who may approve it, and when enough have.  These are   *)
(* the read-only helpers of WorkflowEngine.                                *)
(*                                                                         *)
(* The code numbers steps from 0, a sequence from 1: step i of the code is *)
(* step i + 1 here, and 0 stands for "no step" (None in the code).         *)
(***************************************************************************)
EXTENDS Integers, Sequences, FiniteSets

CONSTANTS
  Users,         \* rows of users
  Roles,         \* rows of roles, by name
  Tags,          \* scopes of a role grant, or positions in a user_ids list
  Payloads,      \* what after_payload can hold
  EmptyPayload,  \* the payload {}, which Python takes for false
  NoPayload,     \* a JSON null: before_payload of an insert, after_payload
                 \* of a delete
  MaxSteps       \* the schema refuses a longer list (20 in the code)

ASSUME PayloadAssumption ==
  /\ EmptyPayload \in Payloads
  /\ NoPayload \notin Payloads

ASSUME MaxStepsAssumption == MaxSteps \in Nat \ {0}

\* A candidate list has a length, which mode "all" counts up to.
ASSUME FiniteAssumption == IsFiniteSet(Users) /\ IsFiniteSet(Tags)

Ops == {"insert", "update", "delete"}

\* A candidate list can hold the same user twice: a user_ids list that
\* repeats an id, or two grants of one role with different scopes.  It is
\* kept as the set of its entries, the tag telling repeated users apart, so
\* that the cardinality of the set is the length of the list.
Entries == Users \X Tags

Grants == Roles \X Users \X Tags

Step == [type : {"role", "user_ids", "dept_head", "role_in_dept"},
         role : Roles,
         listed : SUBSET Entries,
         mode : {"any", "all"},
         condition : SUBSET (Ops \X Payloads)]

StepList == {list \in Seq(Step) : Len(list) <= MaxSteps}

\* jsonLogic over {payload, op}: the pairs the condition holds for.  An
\* absent condition holds for all of them; one that raises holds for none.
\* A deletion has no payload and is judged as if it had the empty one.
Applicable(step, op, after) ==
  <<op, IF after = NoPayload THEN EmptyPayload ELSE after>> \in step.condition

\* _find_next_applicable_step: the first step at or after start, or 0.
NextApplicable(list, op, after, start) ==
  LET hits == {i \in start .. Len(list) : Applicable(list[i], op, after)}
  IN  IF hits = {} THEN 0 ELSE CHOOSE i \in hits : \A j \in hits : i <= j

\* _resolve_approvers, asked against the grants as they are now.  A record
\* has no department (_apply_insert stores None and nothing changes it), so
\* require_dept_match narrows nothing and role_in_dept finds nobody;
\* dept_head is not implemented and finds nobody either.
Candidates(step, grants) ==
  CASE step.type = "user_ids" -> step.listed
    [] step.type = "role"     -> {e \in Entries : <<step.role, e[1], e[2]>> \in grants}
    [] OTHER                  -> {}

Named(entries) == {e[1] : e \in entries}

\* _is_step_satisfied, for the number of approvals given at the step and
\* the candidate list stored for it.
EnoughApprovals(step, approvals, snapshot) ==
  \/ step.mode = "any" /\ approvals >= 1
  \/ step.mode = "all" /\ approvals >= Cardinality(snapshot)
=============================================================================
