------------------------------ MODULE Retriever ------------------------------
(***************************************************************************)
(* What one user's question can find: the permission-aware retrieval of    *)
(* chunks and the tools that are built for the user.  Both run inside the  *)
(* snapshot of the request's transaction, so they are functions of it.     *)
(***************************************************************************)
EXTENDS Permissions, Guardrails

CONSTANTS
  TopK,
  Rank,           \* chunks by distance from the question
  RecordInfo,     \* per record its row [dept, dataset], or Nothing
  OwnerDept,      \* per dataset owner_dept_id
  ActiveDatasets  \* datasets with status "active"

ASSUME TopKAssumption == TopK \in Nat \ {0}
ASSUME ActiveAssumption == ActiveDatasets \subseteq Datasets
ASSUME RankAssumption ==
  /\ Rank \in [Chunks -> Nat]
  /\ \A c, d \in Chunks : Rank[c] = Rank[d] => c = d

Nearest(n, set) == {c \in set : Cardinality({d \in set : Rank[d] < Rank[c]}) < n}

\* The WHERE clause; an empty list of datasets or departments adds nothing.
InBundle(user, c) ==
  LET info == ChunkInfo[c]
      datasets == AccessibleDatasets(user)
      depts == AccessibleDepartments(user)
  IN  /\ info.sensitivity \in AllowedSensitivities(user)
      /\ datasets = {} \/ info.dataset \in datasets
      /\ depts = {} \/ info.dept = Nothing \/ info.dept \in depts

Candidates(user) == Nearest(3 * TopK, {c \in Chunks : InBundle(user, c)})

\* The second check looks up the chunk's record and asks check() about it.
RecordTrusted(user, c) ==
  LET info == ChunkInfo[c]
  IN  CheckOutcomes(user, "read", "record", [dept |-> info.dept, dataset |-> info.dataset])
RecordVerdict(user, c) ==
  LET row == RecordInfo[ChunkInfo[c].record]
  IN  IF row = Nothing THEN {"miss"} ELSE CheckOutcomes(user, "read", "record", row)

\* The loop over the candidates stops when it has TopK readable ones, or at
\* one whose check raises.
Readable(user) == {c \in Candidates(user) : "match" \in RecordVerdict(user, c)}
Reached(user, c) == Cardinality({d \in Readable(user) : Rank[d] < Rank[c]}) < TopK
SecondCheckMayFail(user) ==
  \E c \in Candidates(user) : Reached(user, c) /\ "raise" \in RecordVerdict(user, c)
SecondCheckMustFail(user) ==
  \E c \in Candidates(user) : Reached(user, c) /\ RecordVerdict(user, c) = {"raise"}

\* The second guard of permission_aware_retrieve, on an empty list of
\* sensitivities, cannot hold.  The first one also takes the empty list of
\* datasets of an unlimited user for no access.
MayRetrieve(user) == AccessibleDatasets(user) # {}

Retrieved(user) ==
  IF MayRetrieve(user) THEN Nearest(TopK, Readable(user)) ELSE {}

-----------------------------------------------------------------------------
(* Tools.                                                                  *)

DatasetTools == {"query", "count", "schema"}
Tools == {<<"compute", Nothing>>, <<"search", Nothing>>, <<"get_record", Nothing>>}
           \union (DatasetTools \X Datasets)

\* Tools that run a statement in the request's transaction.
UsesDatabase(tool) == tool[1] \notin {"compute", "schema"}

\* Here the empty list does mean all datasets.
OfferedDatasets(user) ==
  LET limited == AccessibleDatasets(user)
  IN  IF limited = {} THEN ActiveDatasets ELSE ActiveDatasets \intersect limited

DatasetVerdict(user, action, d) ==
  CheckOutcomes(user, action, "dataset", [dept |-> OwnerDept[d], dataset |-> d])

Searchable(user) ==
  {d \in OfferedDatasets(user) : "match" \in DatasetVerdict(user, "ai_query", d)}

\* A check that raises ends the whole agent before its first node; the loop
\* over ai_query stops at the first dataset that matches.
BuildMayFail(user) ==
  \E d \in OfferedDatasets(user), action \in {"ai_query", "read"} :
    "raise" \in DatasetVerdict(user, action, d)
BuildMustFail(user) ==
  \/ \E d \in OfferedDatasets(user) : DatasetVerdict(user, "read", d) = {"raise"}
  \/ /\ Searchable(user) = {}
     /\ \E d \in OfferedDatasets(user) : DatasetVerdict(user, "ai_query", d) = {"raise"}

BuildTools(user) ==
  LET readable == {d \in OfferedDatasets(user) : "match" \in DatasetVerdict(user, "read", d)}
  IN  {<<"compute", Nothing>>, <<"get_record", Nothing>>}
        \union (IF Searchable(user) = {} THEN {} ELSE {<<"search", Nothing>>})
        \union (DatasetTools \X readable)
=============================================================================
