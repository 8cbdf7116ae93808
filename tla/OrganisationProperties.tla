------------------------ MODULE OrganisationProperties ------------------------
(***************************************************************************)
(* What ties departments, roles, users, datasets, payloads and the audit   *)
(* log together, whatever order the administrators' requests come in.      *)
(***************************************************************************)
EXTENDS Organisation

\* Every table keeps its columns.
TypeOK ==
  /\ parent \in [LiveDepartments -> Departments \union {Nothing}]
  /\ LiveDepartments \subseteq Departments /\ gone \subseteq Departments \union Roles
  /\ LiveRoles \subseteq Roles /\ role \in [LiveRoles -> SUBSET Permits]
  /\ Known \subseteq Users /\ account \in [Known -> Accounts]
  /\ grants \subseteq Assignments /\ tokens \subseteq Users
  /\ audit \subseteq Entries /\ lost \subseteq Entries
  /\ open \in [Workers -> Requests \union {Idle}]
  /\ writes \in 0 .. MaxWrites
  /\ Created \subseteq Datasets /\ dataset \in [Created -> DatasetRows]
  /\ pending \in [Records -> Submissions \union {Nothing}]
  /\ stored \in [Records -> Submissions \union {Nothing}]
  /\ forced \subseteq Datasets /\ undeclared \subseteq Datasets \X Fields

\* Nothing that is left refers to a row that is gone: not a department to its
\* parent, a user to a department, an assignment to a role or a user, or a
\* dataset to its owner (api/departments.py's delete, and the foreign keys).
RefersToLive ==
  /\ \A d \in LiveDepartments : parent[d] \in LiveDepartments \union {Nothing}
  /\ \A u \in Known : account[u].depts \subseteq LiveDepartments
  /\ \A g \in grants : g.user \in Known /\ g.role \in LiveRoles
  /\ \A d \in Created : dataset[d].owner \in LiveDepartments \union {Nothing}

\* A scope is JSON and may go on naming a deleted department.  Such an
\* assignment never again lets its holder through a check on a resource, nor
\* makes the check fail (permission_service._scope_matches).
DanglingScopeInert ==
  \A g \in grants : g.scope.dept \in Departments \ LiveDepartments =>
    \A res \in Resources : ScopeOutcome(UserOf(g.user), g.scope, res) = "miss"

\* Who was told that a request succeeded finds it in the audit log, and nobody
\* holds a token without a row of the sign-in (audit_service.py:7).
AnsweredAudited ==
  /\ \A w \in Workers : open[w] # Idle /\ open[w].audited => open[w].entry \in audit
  /\ \A u \in tokens : Entry("login", u, u, Nothing) \in audit

\* A user whose status is not the one the account started with was put there
\* by a request that is in the audit log, or is still on its way to it, or
\* died between its two commits (api/users.py:309,329).
BornStatus(u) == IF u \in DOMAIN FirstAccounts THEN FirstAccounts[u].status ELSE "active"
Accounted(u) ==
  \E entry \in audit \union lost \union {open[w].entry : w \in {v \in Workers : open[v] # Idle}} :
    entry.on = u /\ entry.status = account[u].status
StatusAccounted == \A u \in Known : account[u].status = BornStatus(u) \/ Accounted(u)

\* Users and audit log implement AuditTrail, in which handlers, commits and
\* everything else an administrator does are left out.
Announced == {open[w].entry : w \in {v \in Workers : open[v] # Idle /\ ~open[v].audited}}

Ledger == INSTANCE AuditTrail WITH
  FirstStatus <- [u \in DOMAIN FirstAccounts |-> FirstAccounts[u].status],
  status <- [u \in Known |-> account[u].status],
  onTheWay <- Announced,
  log <- audit,
  missing <- lost

\* No change of a status without an entry, no entry without a request, and no
\* entry dropped but with the request that owed it, though login and
\* update_user write theirs in a second transaction (auth_service.py, api/users.py).
ImplementsAuditTrail == Ledger!Spec

\* Whatever waits or is stored did match the schema it was submitted under,
\* which need not be the schema of now: apply() does not look again.
MatchedWhenSubmitted ==
  \A r \in Records : \A row \in {pending[r], stored[r]} \ {Nothing} :
    Conforms(row.payload, row.asOf)

\* Without force a schema only widens, over any number of changes: what was
\* required when a payload was submitted still is, and a field still declared
\* all along has the payload's type or a wider one.  A field may lose its
\* declaration on the way and come back as anything: check_schema_compatibility
\* compares two schemas, never the history.
UnforcedWidens ==
  \A r \in Records : \A row \in {pending[r], stored[r]} \ {Nothing} :
    row.dataset \notin forced =>
      LET now == dataset[row.dataset].schema
      IN  /\ row.asOf.required \subseteq now.required
          /\ \A f \in Fields :
               row.asOf.types[f] \in Types /\ <<row.dataset, f>> \notin undeclared
                 => TypeCompatible(row.asOf.types[f], now.types[f])

\* A change of schema that passes without force invalidates a valid stored
\* payload in three ways only: it requires a field the payload lacks, it turns
\* the payload's field into a string, or it gives a type to a field that had
\* none (utils/jsonschema.py's rules 2 to 4; of the keywords, the model has
\* type, required and properties, the only ones the check looks at).
OnlyThreeGaps ==
  [][\A r \in Records :
       LET row == stored[r]
       IN  row # Nothing /\ row.dataset \in Created =>
             LET old == dataset[row.dataset].schema
                 new == dataset'[row.dataset].schema
                 gap(f) == \/ f \in new.required \ old.required
                           \/ new.types[f] = "string" /\ row.payload[f] # "string"
                           \/ new.types[f] \in Types /\ old.types[f] \notin Types
             IN  row.dataset \notin forced' /\ Conforms(row.payload, old)
                   => Conforms(row.payload, new) \/ \E f \in Fields : gap(f)]_vars

-----------------------------------------------------------------------------
(* What a docstring and a test say and the code does not do.               *)

\* "{"dataset_ids": [...]}: Limited to specific datasets" (_scope_matches'
\* docstring), "dataset_ids scope matches specific dataset"
\* (test_dataset_scope_matches): whoever holds a role that may read datasets,
\* for one dataset, is granted the check on that dataset.
DatasetScopeMatches ==
  \A g \in grants, d \in Created :
    g.scope = [dept |-> Nothing, datasets |-> {d}] /\ <<"read", "dataset">> \in role[g.role]
      => "match" \in CheckOutcomes(UserOf(g.user), "read", "dataset",
                                   [dept |-> dataset[d].owner, dataset |-> d])
=============================================================================
