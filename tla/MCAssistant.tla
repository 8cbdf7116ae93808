----------------------------- MODULE MCAssistant -----------------------------
(***************************************************************************)
(* A small instance of the assistant for TLC.                              *)
(***************************************************************************)
EXTENDS AssistantProperties, TLC

CONSTANTS analyst, clerk,                   \* users
          sales, orders,                    \* a department, a dataset
          lost, order, bonus,               \* records; the first was purged
          kLost, kOrder, kBonus, kSecret,   \* their chunks
          s1, s2, s3,                       \* short ids
          cited, leak, leakMadeUp    \* texts of the model

Scoped(d, ds) == [dept |-> d, datasets |-> ds]
Role(perms, name, scope) == [perms |-> perms, name |-> name, scope |-> scope]

\* An analyst who reads through a department and asks about one dataset; a
\* clerk whose role is scoped to the dataset, so that building tools raises.
MCUserInfo ==
  analyst :> [admin |-> FALSE, depts |-> {sales},
              roles |-> {Role({<<"read", "record">>}, "viewer",
                              Scoped(sales, Nothing)),
                         Role({}, "ai_user", Scoped(Nothing, {orders}))}]
  @@ clerk :> [admin |-> FALSE, depts |-> {},
               roles |-> {Role({<<"read", "dataset">>}, "viewer", Scoped(Nothing, {orders}))}]

Chunk(r, d, sensitivity, facts) ==
  [record |-> r, dept |-> Nothing, dataset |-> d, sensitivity |-> sensitivity,
   facts |-> facts]

MCChunkInfo ==
  kSecret :> Chunk(order, orders, "confidential", {})
  @@ kLost :> Chunk(lost, orders, "internal", {})
  @@ kOrder :> Chunk(order, orders, "internal", {1})
  @@ kBonus :> Chunk(bonus, orders, "internal", {2})
MCRank == kSecret :> 0 @@ kLost :> 1 @@ kOrder :> 2 @@ kBonus :> 3

MCRecordInfo ==
  lost :> Nothing
  @@ order :> [dept |-> Nothing, dataset |-> orders]
  @@ bonus :> [dept |-> sales, dataset |-> orders]
MCShortOf == lost :> s1 @@ order :> s2 @@ bonus :> s3

MCOwnerDept == orders :> Nothing

Text(leaks, marks, facts) ==
  [leaks |-> leaks, numbers |-> 0, marks |-> marks, echoes |-> {}, facts |-> facts]
MCAnswerInfo ==
  cited :> Text(FALSE, {s2}, {1})
  @@ leak :> Text(TRUE, {}, {}) @@ leakMadeUp :> Text(TRUE, {}, {3})

MCToolFacts == [tool \in Tools |-> IF tool[1] = "compute" THEN {} ELSE {1}]
=============================================================================
