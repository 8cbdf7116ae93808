----------------------------- MODULE Organisation -----------------------------
(***************************************************************************)
(* The administrators' requests together with the datasets they own, whose *)
(* schemas change while records are submitted and approved.                *)
(*                                                                         *)
(* Who approves a change, and which of several wins, is ApprovalWorkflow;  *)
(* here a record has one submission at a time, decided either way.         *)
(***************************************************************************)
EXTENDS Administration, Schemas

CONSTANTS
  Records,
  OfferedSchemas,   \* the schemas requests carry
  OfferedPayloads   \* the payloads they carry

ASSUME OrganisationAssumption ==
  OfferedSchemas \subseteq SchemaSet /\ OfferedPayloads \subseteq PayloadSet

VARIABLES
  dataset,    \* data_sets
  pending,    \* record_versions: per record, the submission awaiting approval
  stored,     \* data_records
  forced,     \* history: datasets changed with force=true
  undeclared  \* history: fields whose type a schema has dropped

dataVars == <<dataset, pending, stored, forced, undeclared>>
vars == <<admVars, dataVars>>

DatasetRows == [schema: SchemaSet, owner: Departments \union {Nothing},
                status: {"active", "archived", "migrating"}]
\* asOf: history, the schema the payload was checked against.
Submissions == [dataset: Datasets, payload: PayloadSet, asOf: SchemaSet]

Created == DOMAIN dataset

Init ==
  /\ AdmInit
  /\ dataset = [d \in {} |-> Nothing]
  /\ pending = [r \in Records |-> Nothing] /\ stored = [r \in Records |-> Nothing]
  /\ forced = {} /\ undeclared = {}

admTables == <<parent, gone, role, account, grants, tokens, audit, open, lost>>

\* owner_dept_id is a foreign key with ON DELETE SET NULL.
DeleteOwner(by, dept) ==
  /\ DeleteDepartment(by, dept)
  /\ dataset' = [d \in Created |->
       [dataset[d] EXCEPT !.owner = IF @ \in Doomed(dept) THEN Nothing ELSE @]]
  /\ UNCHANGED <<pending, stored, forced, undeclared>>

CreateDataset(by, d, schema, owner) ==
  /\ Allowed(by, "manage", "dataset")
  /\ d \notin Created /\ owner \in LiveDepartments \union {Nothing}
  /\ dataset' = With(dataset, d, [schema |-> schema, owner |-> owner, status |-> "active"])
  /\ Writes
  /\ UNCHANGED <<pending, stored, forced, undeclared, admTables>>

SchemaAccepted(old, new, force) == old = new \/ Compatible(old, new) \/ force

\* Everything in one UPDATE of a row locked FOR UPDATE.  No index job is sent.
UpdateDataset(by, d, schema, owner, status, force) ==
  /\ Allowed(by, "manage", "dataset")
  /\ d \in Created
  /\ SchemaAccepted(dataset[d].schema, schema, force)
  /\ owner = dataset[d].owner \/ owner \in LiveDepartments
  /\ dataset' = [dataset EXCEPT ![d] = [schema |-> schema, owner |-> owner, status |-> status]]
  /\ forced' = IF force THEN forced \union {d} ELSE forced
  /\ undeclared' = undeclared \union {<<d, f>> : f \in {g \in Fields : schema.types[g] \notin Types}}
  /\ Writes
  /\ UNCHANGED <<pending, stored, admTables>>

DeleteDataset(by, d) ==
  /\ Allowed(by, "manage", "dataset")
  /\ d \in Created
  /\ dataset' = [dataset EXCEPT ![d].status = "archived"]
  /\ Writes
  /\ UNCHANGED <<pending, stored, forced, undeclared, admTables>>

\* create_record and update_record: the schema of now, whatever the status.
Unvalidated(payload, schema) == TRUE
Validated(payload, schema) == Conforms(payload, schema)
Submit(by, r, d, payload) ==
  /\ Allowed(by, "write", "record")
  /\ d \in Created /\ pending[r] = Nothing
  /\ stored[r] # Nothing => stored[r].dataset = d
  /\ Validated(payload, dataset[d].schema)
  /\ pending' = [pending EXCEPT ![r] = [dataset |-> d, payload |-> payload,
                                        asOf |-> dataset[d].schema]]
  /\ Writes
  /\ UNCHANGED <<dataset, stored, forced, undeclared, admTables>>

\* WorkflowEngine.apply, or reject: the payload is not checked again.
Decide(r) ==
  /\ pending[r] # Nothing
  /\ pending' = [pending EXCEPT ![r] = Nothing]
  /\ stored' \in {stored, [stored EXCEPT ![r] = pending[r]]}
  /\ UNCHANGED <<dataset, forced, undeclared, admVars>>

OwnershipNext == \E by \in tokens, dept \in LiveDepartments : DeleteOwner(by, dept)

DatasetNext ==
  \/ \E by \in tokens, d \in Datasets :
       \/ \E schema \in OfferedSchemas, owner \in LiveDepartments \union {Nothing} :
            CreateDataset(by, d, schema, owner)
       \/ \E schema \in OfferedSchemas \union {dataset[c].schema : c \in Created},
             owner \in LiveDepartments \union {Nothing},
             status \in {"active", "archived", "migrating"}, force \in BOOLEAN :
            UpdateDataset(by, d, schema, owner, status, force)
       \/ DeleteDataset(by, d)
       \/ \E r \in Records, payload \in OfferedPayloads : Submit(by, r, d, payload)
  \/ \E r \in Records : Decide(r)

AdministrationNext ==
  (DepartmentNext \/ RoleNext \/ UserNext \/ SessionNext) /\ UNCHANGED dataVars

Next == AdministrationNext \/ OwnershipNext \/ DatasetNext

Spec == Init /\ [][Next]_vars
=============================================================================
