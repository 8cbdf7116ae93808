----------------------------- MODULE MCApproval -----------------------------
(***************************************************************************)
(* Small instances of the approval workflow for TLC.                       *)
(***************************************************************************)
EXTENDS ApprovalProperties, TLC

CONSTANT manager

AllOps == Ops \X Payloads
MkStep(type, role, mode, condition) ==
  [type |-> type, role |-> role, listed |-> {}, mode |-> mode,
   condition |-> condition]
AnyOf(role) == MkStep("role", role, "any", AllOps)
AllOf(role) == MkStep("role", role, "all", AllOps)
OnlyDeletes(role) == MkStep("role", role, "any", {"delete"} \X Payloads)

\* A countersigned step; a step for deletions alone, so that every other
\* change passes unopposed.
SmallLists == {<<AllOf(manager)>>, <<OnlyDeletes(manager)>>}

\* A second step added to a workflow or taken away from it.
GrowingLists == {<<AnyOf(manager)>>, <<AnyOf(manager), AnyOf(manager)>>}

\* Lists of different lengths and modes to switch between.
MixedLists == {<<AllOf(manager)>>, <<OnlyDeletes(manager), AnyOf(manager)>>}

\* Two steps in every order of modes.
TwoStepLists == {<<AnyOf(manager), AllOf(manager)>>, <<AllOf(manager), AnyOf(manager)>>,
                 <<OnlyDeletes(manager), AllOf(manager)>>}

\* One set of grants of every shape: users in the order of their number of
\* grants, and a single grant under the first tag.
CanonicalGrants ==
  LET n == Cardinality(Users)
      user == CHOOSE f \in [1 .. n -> Users] : {f[i] : i \in 1 .. n} = Users
      tag == CHOOSE t \in Tags : TRUE
      held(i) == {g \in grants : g[2] = user[i]}
  IN  /\ \A i \in 2 .. n : Cardinality(held(i)) <= Cardinality(held(i - 1))
      /\ \A i \in 1 .. n : Cardinality(held(i)) = 1 => \A g \in held(i) : g[3] = tag

CanonicalInit == Init /\ CanonicalGrants
CanonicalSpec == CanonicalInit /\ [][EngineNext]_vars /\ Diligence

\* Step lists name approvers by role only, so users are interchangeable too.
Symmetry ==
  Permutations(Versions) \union Permutations(Records) \union Permutations(Users)
=============================================================================
