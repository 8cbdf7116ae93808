-------------------------- MODULE OrganisationProofs --------------------------
(***************************************************************************)
(* For any number of users, roles, departments, datasets, records, schemas *)
(* and handlers: the tables keep their columns and refer to rows that      *)
(* exist, and what follows from that.                                      *)
(***************************************************************************)
EXTENDS OrganisationProperties, TLAPS

AdmTypes ==
  /\ parent \in [LiveDepartments -> Departments \union {Nothing}]
  /\ LiveDepartments \subseteq Departments /\ gone \subseteq Departments \union Roles
  /\ LiveRoles \subseteq Roles /\ role \in [LiveRoles -> SUBSET Permits]
  /\ Known \subseteq Users /\ account \in [Known -> Accounts]
  /\ grants \subseteq Assignments /\ tokens \subseteq Users
  /\ audit \subseteq Entries /\ lost \subseteq Entries
  /\ open \in [Workers -> Requests \union {Idle}]
  /\ writes \in 0 .. MaxWrites

DataTypes ==
  /\ Created \subseteq Datasets /\ dataset \in [Created -> DatasetRows]
  /\ pending \in [Records -> Submissions \union {Nothing}]
  /\ stored \in [Records -> Submissions \union {Nothing}]
  /\ forced \subseteq Datasets /\ undeclared \subseteq Datasets \X Fields

LEMMA TypeParts == /\ TypeOK <=> AdmTypes /\ DataTypes
                   /\ TypeOK' <=> AdmTypes' /\ DataTypes'
BY DEF TypeOK, AdmTypes, DataTypes

LEMMA CountedWrite ==
  ASSUME AdmTypes, Writes
  PROVE  writes' \in 0 .. MaxWrites
BY AdministrationAssumption DEF AdmTypes, Writes

LEMMA BelowLive == \A d : Below(d) \subseteq LiveDepartments
BY DEF Below

LEMMA EntryType ==
  ASSUME NEW action \in {"login", "update_user", "disable_user"}, NEW by \in Users,
         NEW on \in Users, NEW status \in Statuses \union {Nothing}
  PROVE  Entry(action, by, on, status) \in Entries
BY DEF Entry, Entries

LEMMA InitTypes == ASSUME Init PROVE TypeOK
<1>1. AdmTypes
  BY AdministrationAssumption
  DEF Init, AdmInit, AdmTypes, LiveDepartments, LiveRoles, Known, Accounts
<1>2. DataTypes
  BY DEF Init, DataTypes, Created
<1> QED BY <1>1, <1>2, TypeParts

(***************************************************************************)
(* The administrators' requests keep the columns of their tables.          *)
(***************************************************************************)
LEMMA DepartmentTypes ==
  ASSUME AdmTypes, NEW by, NEW d \in Departments, NEW p,
         CreateDepartment(by, d, p) \/ UpdateDepartment(by, d, p) \/ DeleteDepartment(by, d)
  PROVE  AdmTypes'
<1>1. CASE CreateDepartment(by, d, p)
  <2>1. /\ DOMAIN parent' = DOMAIN parent \union {d}
        /\ parent' \in [DOMAIN parent' -> Departments \union {Nothing}]
    BY <1>1 DEF CreateDepartment, AdmTypes, LiveDepartments, With
  <2>2. writes' \in 0 .. MaxWrites
    BY <1>1, CountedWrite DEF CreateDepartment
  <2> QED BY <1>1, <2>1, <2>2
    DEF CreateDepartment, AdmTypes, LiveDepartments, LiveRoles, Known, tablesButDepartments
<1>2. CASE UpdateDepartment(by, d, p)
  <2>1. writes' \in 0 .. MaxWrites
    BY <1>2, CountedWrite DEF UpdateDepartment
  <2> QED BY <1>2, <2>1
    DEF UpdateDepartment, AdmTypes, LiveDepartments, LiveRoles, Known, tablesButDepartments
<1>3. CASE DeleteDepartment(by, d)
  <2>1. /\ DOMAIN parent' = DOMAIN parent \ Doomed(d)
        /\ parent' \in [DOMAIN parent' -> Departments \union {Nothing}]
    BY <1>3 DEF DeleteDepartment, AdmTypes, LiveDepartments, Without
  <2>2. writes' \in 0 .. MaxWrites
    BY <1>3, CountedWrite DEF DeleteDepartment
  <2>3. gone' \subseteq Departments \union Roles
    BY <1>3, BelowLive DEF DeleteDepartment, AdmTypes, Doomed
  <2>4. /\ DOMAIN account' = DOMAIN account
        /\ account' \in [DOMAIN account' -> Accounts]
    BY <1>3 DEF DeleteDepartment, AdmTypes, Known, Accounts, Remaining
  <2> QED BY <1>3, <2>1, <2>2, <2>3, <2>4
    DEF DeleteDepartment, AdmTypes, LiveDepartments, LiveRoles, Known, tablesButDepartments
<1> QED BY <1>1, <1>2, <1>3

LEMMA RoleTypes ==
  ASSUME AdmTypes, RoleNext
  PROVE  AdmTypes'
<1> PICK by \in tokens :
      \/ \E r \in Roles, perms \in PermissionSets :
           CreateRole(by, r, perms) \/ UpdateRole(by, r, perms)
      \/ \E r \in Roles : DeleteRole(by, r)
      \/ \E g \in [user: Known, role: LiveRoles, scope: GrantScopes] : AssignRole(by, g)
      \/ \E g \in grants : RevokeRole(by, g)
  BY DEF RoleNext
<1>1. ASSUME NEW r \in Roles, NEW perms \in PermissionSets, CreateRole(by, r, perms)
      PROVE  AdmTypes'
  <2>1. /\ DOMAIN role' = DOMAIN role \union {r}
        /\ role' \in [DOMAIN role' -> SUBSET Permits]
    BY <1>1, AdministrationAssumption DEF CreateRole, AdmTypes, LiveRoles, With
  <2>2. writes' \in 0 .. MaxWrites
    BY <1>1, CountedWrite DEF CreateRole
  <2> QED BY <1>1, <2>1, <2>2
    DEF CreateRole, AdmTypes, LiveDepartments, LiveRoles, Known, tablesButRoles
<1>2. ASSUME NEW r \in Roles, NEW perms \in PermissionSets, UpdateRole(by, r, perms)
      PROVE  AdmTypes'
  <2>1. writes' \in 0 .. MaxWrites
    BY <1>2, CountedWrite DEF UpdateRole
  <2> QED BY <1>2, <2>1, AdministrationAssumption
    DEF UpdateRole, AdmTypes, LiveDepartments, LiveRoles, Known, tablesButRoles
<1>3. ASSUME NEW r \in Roles, DeleteRole(by, r)
      PROVE  AdmTypes'
  <2>1. /\ DOMAIN role' = DOMAIN role \ {r}
        /\ role' \in [DOMAIN role' -> SUBSET Permits]
    BY <1>3 DEF DeleteRole, AdmTypes, LiveRoles, Without
  <2>2. writes' \in 0 .. MaxWrites
    BY <1>3, CountedWrite DEF DeleteRole
  <2> QED BY <1>3, <2>1, <2>2
    DEF DeleteRole, AdmTypes, LiveDepartments, LiveRoles, Known, tablesButRoles
<1>4. ASSUME NEW g \in [user: Known, role: LiveRoles, scope: GrantScopes], AssignRole(by, g)
      PROVE  AdmTypes'
  <2>1. writes' \in 0 .. MaxWrites
    BY <1>4, CountedWrite DEF AssignRole
  <2>2. g \in Assignments
    BY AdministrationAssumption DEF AdmTypes, Assignments
  <2> QED BY <1>4, <2>1, <2>2
    DEF AssignRole, AdmTypes, LiveDepartments, LiveRoles, Known, tablesButRoles
<1>5. ASSUME NEW g \in grants, RevokeRole(by, g)
      PROVE  AdmTypes'
  <2>1. writes' \in 0 .. MaxWrites
    BY <1>5, CountedWrite DEF RevokeRole
  <2> QED BY <1>5, <2>1
    DEF RevokeRole, AdmTypes, LiveDepartments, LiveRoles, Known, tablesButRoles
<1> QED BY <1>1, <1>2, <1>3, <1>4, <1>5

LEMMA UserTypes ==
  ASSUME AdmTypes, UserNext
  PROVE  AdmTypes'
<1> PICK by \in tokens, u \in Users :
      \/ \E admin \in BOOLEAN, depts \in SUBSET LiveDepartments, roles \in SUBSET LiveRoles :
           CreateUser(by, u, admin, depts, roles)
      \/ \E w \in Workers, status \in Statuses \union {Nothing},
            depts \in SUBSET LiveDepartments :
           UpdateUser(w, by, u, status, depts)
      \/ DeleteUser(by, u)
  BY DEF UserNext
<1>0. by \in Users
  BY DEF AdmTypes
<1>1. ASSUME NEW admin \in BOOLEAN, NEW depts \in SUBSET LiveDepartments,
             NEW roles \in SUBSET LiveRoles, CreateUser(by, u, admin, depts, roles)
      PROVE  AdmTypes'
  <2>1. [status |-> "active", admin |-> admin, depts |-> depts] \in Accounts
    BY DEF AdmTypes, Accounts, Statuses
  <2>2. /\ DOMAIN account' = DOMAIN account \union {u}
        /\ account' \in [DOMAIN account' -> Accounts]
    BY <1>1, <2>1 DEF CreateUser, AdmTypes, Known, With
  <2>3. FullScope \in Scopes
    BY DEF FullScope, Scopes
  <2>4. grants' \subseteq Assignments
    BY <1>1, <2>3 DEF CreateUser, AdmTypes, Assignments
  <2>5. writes' \in 0 .. MaxWrites
    BY <1>1, CountedWrite DEF CreateUser
  <2> QED BY <1>1, <2>2, <2>4, <2>5
    DEF CreateUser, AdmTypes, LiveDepartments, LiveRoles, Known
<1>2. ASSUME NEW w \in Workers, NEW status \in Statuses \union {Nothing},
             NEW depts \in SUBSET LiveDepartments, UpdateUser(w, by, u, status, depts)
      PROVE  AdmTypes'
  <2>1. /\ DOMAIN account' = DOMAIN account
        /\ account' \in [DOMAIN account' -> Accounts]
    BY <1>2 DEF UpdateUser, AdmTypes, Known, Accounts, NewStatus
  <2>2. [entry |-> Entry("update_user", by, u, status), audited |-> FALSE] \in Requests
    BY <1>0, EntryType DEF Requests
  <2>3. open' \in [Workers -> Requests \union {Idle}]
    BY <1>2, <2>2 DEF UpdateUser, AdmTypes
  <2>4. writes' \in 0 .. MaxWrites
    BY <1>2, CountedWrite DEF UpdateUser
  <2> QED BY <1>2, <2>1, <2>3, <2>4
    DEF UpdateUser, AdmTypes, LiveDepartments, LiveRoles, Known
<1>3. ASSUME DeleteUser(by, u) PROVE AdmTypes'
  <2>1. /\ DOMAIN account' = DOMAIN account
        /\ account' \in [DOMAIN account' -> Accounts]
    BY <1>3 DEF DeleteUser, AdmTypes, Known, Accounts, Statuses
  <2>2. audit' \subseteq Entries
    BY <1>0, <1>3, EntryType DEF DeleteUser, AdmTypes, Logged, Statuses
  <2>3. writes' \in 0 .. MaxWrites
    BY <1>3, CountedWrite DEF DeleteUser
  <2> QED BY <1>3, <2>1, <2>2, <2>3
    DEF DeleteUser, AdmTypes, LiveDepartments, LiveRoles, Known
<1> QED BY <1>1, <1>2, <1>3

LEMMA SessionTypes ==
  ASSUME AdmTypes, SessionNext
  PROVE  AdmTypes'
<1>1. ASSUME NEW w \in Workers, AuditCommit(w) PROVE AdmTypes'
  <2>1. open[w] \in Requests
    BY <1>1 DEF AuditCommit, AdmTypes
  <2>2. open' \in [Workers -> Requests \union {Idle}]
    BY <1>1, <2>1 DEF AuditCommit, AdmTypes, Requests
  <2>3. audit' \subseteq Entries
    BY <1>1, <2>1 DEF AuditCommit, AdmTypes, Requests
  <2> QED BY <1>1, <2>2, <2>3
    DEF AuditCommit, AdmTypes, LiveDepartments, LiveRoles, Known, tables
<1>2. ASSUME NEW w \in Workers, Answer(w) PROVE AdmTypes'
  BY <1>2 DEF Answer, AdmTypes, LiveDepartments, LiveRoles, Known, tables
<1>3. ASSUME NEW w \in Workers, Lose(w) PROVE AdmTypes'
  <2>1. open[w] \in Requests
    BY <1>3 DEF Lose, AdmTypes
  <2>2. lost' \subseteq Entries
    BY <1>3, <2>1 DEF Lose, AdmTypes, Requests
  <2> QED BY <1>3, <2>2 DEF Lose, AdmTypes, LiveDepartments, LiveRoles, Known, tables
<1>4. ASSUME NEW w \in Workers, NEW u \in Users, Login(w, u) PROVE AdmTypes'
  <2>1. [entry |-> Entry("login", u, u, Nothing), audited |-> FALSE] \in Requests
    BY EntryType DEF Requests
  <2>2. open' \in [Workers -> Requests \union {Idle}]
    BY <1>4, <2>1 DEF Login, AdmTypes
  <2>3. writes' \in 0 .. MaxWrites
    BY <1>4, CountedWrite DEF Login
  <2> QED BY <1>4, <2>2, <2>3 DEF Login, AdmTypes, LiveDepartments, LiveRoles, Known, tables
<1>5. ASSUME NEW u \in tokens, Expire(u) PROVE AdmTypes'
  BY <1>5 DEF Expire, AdmTypes, LiveDepartments, LiveRoles, Known, tables
<1> QED BY <1>1, <1>2, <1>3, <1>4, <1>5 DEF SessionNext

LEMMA AdministrationTypes ==
  ASSUME AdmTypes, DepartmentNext \/ RoleNext \/ UserNext \/ SessionNext
  PROVE  AdmTypes'
BY DepartmentTypes, RoleTypes, UserTypes, SessionTypes DEF DepartmentNext

(***************************************************************************)
(* The datasets' part.                                                     *)
(***************************************************************************)
LEMMA DatasetTypes ==
  ASSUME TypeOK, DatasetNext
  PROVE  TypeOK'
<1> USE TypeParts
<1>0. \A c \in Created : dataset[c] \in DatasetRows /\ dataset[c].schema \in SchemaSet
  BY DEF DataTypes, DatasetRows
<1>1. ASSUME NEW by \in tokens, NEW d \in Datasets, NEW schema \in OfferedSchemas,
             NEW owner \in LiveDepartments \union {Nothing},
             CreateDataset(by, d, schema, owner)
      PROVE  TypeOK'
  <2>1. [schema |-> schema, owner |-> owner, status |-> "active"] \in DatasetRows
    BY OrganisationAssumption DEF AdmTypes, DatasetRows
  <2>2. /\ DOMAIN dataset' = DOMAIN dataset \union {d}
        /\ dataset' \in [DOMAIN dataset' -> DatasetRows]
    BY <1>1, <2>1 DEF CreateDataset, DataTypes, Created, With
  <2>3. DataTypes'
    BY <1>1, <2>2 DEF CreateDataset, DataTypes, Created
  <2>4. AdmTypes'
    <3>1. writes' \in 0 .. MaxWrites
      BY <1>1, CountedWrite DEF CreateDataset
    <3> QED BY <1>1, <3>1
      DEF CreateDataset, AdmTypes, admTables, LiveDepartments, LiveRoles, Known
  <2> QED BY <2>3, <2>4
<1>2. ASSUME NEW by \in tokens, NEW d \in Datasets,
             NEW schema \in OfferedSchemas \union {dataset[c].schema : c \in Created},
             NEW owner \in LiveDepartments \union {Nothing},
             NEW status \in {"active", "archived", "migrating"}, NEW force \in BOOLEAN,
             UpdateDataset(by, d, schema, owner, status, force)
      PROVE  TypeOK'
  <2>1. schema \in SchemaSet
    BY <1>0, OrganisationAssumption
  <2>2. [schema |-> schema, owner |-> owner, status |-> status] \in DatasetRows
    BY <2>1 DEF AdmTypes, DatasetRows
  <2>3. DataTypes'
    BY <1>2, <2>2 DEF UpdateDataset, DataTypes, Created
  <2>4. AdmTypes'
    <3>1. writes' \in 0 .. MaxWrites
      BY <1>2, CountedWrite DEF UpdateDataset
    <3> QED BY <1>2, <3>1
      DEF UpdateDataset, AdmTypes, admTables, LiveDepartments, LiveRoles, Known
  <2> QED BY <2>3, <2>4
<1>3. ASSUME NEW by \in tokens, NEW d \in Datasets, DeleteDataset(by, d)
      PROVE  TypeOK'
  <2>1. DataTypes'
    BY <1>3, <1>0 DEF DeleteDataset, DataTypes, Created, DatasetRows
  <2>2. AdmTypes'
    <3>1. writes' \in 0 .. MaxWrites
      BY <1>3, CountedWrite DEF DeleteDataset
    <3> QED BY <1>3, <3>1
      DEF DeleteDataset, AdmTypes, admTables, LiveDepartments, LiveRoles, Known
  <2> QED BY <2>1, <2>2
<1>4. ASSUME NEW by \in tokens, NEW d \in Datasets, NEW r \in Records,
             NEW payload \in OfferedPayloads, Submit(by, r, d, payload)
      PROVE  TypeOK'
  <2>1. [dataset |-> d, payload |-> payload, asOf |-> dataset[d].schema] \in Submissions
    BY <1>4, <1>0, OrganisationAssumption DEF Submit, Submissions
  <2>2. DataTypes'
    BY <1>4, <2>1 DEF Submit, DataTypes, Created
  <2>3. AdmTypes'
    <3>1. writes' \in 0 .. MaxWrites
      BY <1>4, CountedWrite DEF Submit
    <3> QED BY <1>4, <3>1
      DEF Submit, AdmTypes, admTables, LiveDepartments, LiveRoles, Known
  <2> QED BY <2>2, <2>3
<1>5. ASSUME NEW r \in Records, Decide(r) PROVE TypeOK'
  <2>1. DataTypes'
    BY <1>5 DEF Decide, DataTypes, Created
  <2>2. AdmTypes'
    BY <1>5 DEF Decide, AdmTypes, admVars, LiveDepartments, LiveRoles, Known
  <2> QED BY <2>1, <2>2
<1> QED BY <1>1, <1>2, <1>3, <1>4, <1>5 DEF DatasetNext

LEMMA StepTypes ==
  ASSUME TypeOK, [Next]_vars
  PROVE  TypeOK'
<1> USE TypeParts
<1>1. CASE AdministrationNext
  <2>1. AdmTypes'
    BY <1>1, AdministrationTypes DEF AdministrationNext
  <2>2. DataTypes'
    BY <1>1 DEF AdministrationNext, dataVars, DataTypes, Created
  <2> QED BY <2>1, <2>2
<1>2. CASE OwnershipNext
  <2> PICK by \in tokens, dept \in LiveDepartments : DeleteOwner(by, dept)
    BY <1>2 DEF OwnershipNext
  <2>1. AdmTypes'
    BY DepartmentTypes DEF DeleteOwner, AdmTypes
  <2>2. \A c \in Created : dataset[c] \in DatasetRows
    BY DEF DataTypes
  <2>3. dataset' \in [Created -> DatasetRows] /\ Created' = Created
    BY <2>2 DEF DeleteOwner, DataTypes, Created, DatasetRows
  <2>4. DataTypes'
    BY <2>3 DEF DeleteOwner, DataTypes
  <2> QED BY <2>1, <2>4
<1>3. CASE DatasetNext
  BY <1>3, DatasetTypes
<1>4. CASE UNCHANGED vars
  BY <1>4 DEF vars, admVars, dataVars, AdmTypes, DataTypes, LiveDepartments, LiveRoles,
              Known, Created
<1> QED BY <1>1, <1>2, <1>3, <1>4 DEF Next

\* Every table keeps its columns, in a tenant of any size.
THEOREM TypeCorrect == Spec => []TypeOK
BY InitTypes, StepTypes, PTL DEF Spec

(***************************************************************************)
(* What is below a department.                                             *)
(***************************************************************************)
\* It is the least set that inherits from the department.
LEMMA BelowIsLeast ==
  ASSUME NEW d, NEW S \in SUBSET LiveDepartments,
         \A e \in LiveDepartments : parent[e] \in S \union {d} => e \in S
  PROVE  Below(d) \subseteq S
BY DEF Below

LEMMA BelowInherits ==
  ASSUME NEW d, NEW e \in LiveDepartments, parent[e] \in Below(d) \union {d}
  PROVE  e \in Below(d)
BY DEF Below

(***************************************************************************)
(* Rows refer to rows that exist.                                          *)
(***************************************************************************)
LEMMA DepartmentsReferToLive ==
  ASSUME TypeOK, RefersToLive, NEW by, NEW d \in Departments, NEW p,
         \/ (CreateDepartment(by, d, p) \/ UpdateDepartment(by, d, p)) /\ UNCHANGED dataVars
         \/ d \in LiveDepartments /\ DeleteOwner(by, d)
  PROVE  RefersToLive'
<1>1. CASE CreateDepartment(by, d, p) /\ UNCHANGED dataVars
  <2>1. /\ LiveDepartments' = LiveDepartments \union {d}
        /\ \A e \in LiveDepartments' : parent'[e] \in LiveDepartments \union {p, Nothing}
    BY <1>1 DEF CreateDepartment, LiveDepartments, With, RefersToLive
  <2>2. p \in LiveDepartments \union {Nothing}
    BY <1>1 DEF CreateDepartment
  <2>3. /\ Known' = Known /\ account' = account /\ grants' = grants /\ LiveRoles' = LiveRoles
        /\ dataset' = dataset /\ Created' = Created
    BY <1>1 DEF CreateDepartment, tablesButDepartments, dataVars, Known, LiveRoles, Created
  <2> QED BY <2>1, <2>2, <2>3 DEF RefersToLive
<1>2. CASE UpdateDepartment(by, d, p) /\ UNCHANGED dataVars
  <2>1. /\ LiveDepartments' = LiveDepartments
        /\ \A e \in LiveDepartments' : parent'[e] \in LiveDepartments \union {Nothing}
    BY <1>2 DEF UpdateDepartment, LiveDepartments, RefersToLive
  <2>2. /\ Known' = Known /\ account' = account /\ grants' = grants /\ LiveRoles' = LiveRoles
        /\ dataset' = dataset /\ Created' = Created
    BY <1>2 DEF UpdateDepartment, tablesButDepartments, dataVars, Known, LiveRoles, Created
  <2> QED BY <2>1, <2>2 DEF RefersToLive
<1>3. CASE d \in LiveDepartments /\ DeleteOwner(by, d)
  <2>1. /\ LiveDepartments' = LiveDepartments \ Doomed(d)
        /\ \A e \in LiveDepartments' : parent'[e] = parent[e]
    BY <1>3 DEF DeleteOwner, DeleteDepartment, LiveDepartments, Without
  <2>2. \A e \in LiveDepartments' : parent'[e] \in LiveDepartments' \union {Nothing}
    <3> SUFFICES ASSUME NEW e \in LiveDepartments',
                        parent[e] # Nothing
                 PROVE  parent[e] \in LiveDepartments \ Doomed(d)
      BY <2>1
    <3>1. e \in LiveDepartments /\ e \notin Doomed(d)
      BY <2>1
    <3>2. parent[e] \in LiveDepartments
      BY <3>1 DEF RefersToLive
    <3>3. parent[e] \notin Doomed(d)
      BY <3>1, BelowInherits DEF Doomed
    <3> QED BY <3>2, <3>3
  <2>3. /\ Known' = Known
        /\ \A u \in Known : account'[u].depts \subseteq LiveDepartments'
    BY <1>3, <2>1
    DEF DeleteOwner, DeleteDepartment, Known, Remaining, RefersToLive, TypeOK, Accounts
  <2>4. grants' = grants /\ LiveRoles' = LiveRoles
    BY <1>3 DEF DeleteOwner, DeleteDepartment, tablesButDepartments, LiveRoles
  <2>5. \A c \in Created : dataset[c] \in DatasetRows
    BY DEF TypeOK
  <2>6. /\ Created' = Created
        /\ \A c \in Created : dataset'[c].owner \in LiveDepartments' \union {Nothing}
    BY <1>3, <2>1, <2>5 DEF DeleteOwner, Created, RefersToLive, DatasetRows
  <2> QED BY <2>2, <2>3, <2>4, <2>6 DEF RefersToLive
<1> QED BY <1>1, <1>2, <1>3

LEMMA RolesReferToLive ==
  ASSUME TypeOK, RefersToLive, RoleNext, UNCHANGED dataVars
  PROVE  RefersToLive'
<1>0. LiveDepartments' = LiveDepartments /\ parent' = parent /\ Known' = Known
      /\ account' = account /\ dataset' = dataset /\ Created' = Created
  BY DEF RoleNext, CreateRole, UpdateRole, DeleteRole, AssignRole, RevokeRole, tablesButRoles,
         dataVars, LiveDepartments, Known, Created
<1>1. \A g \in grants' : g.user \in Known /\ g.role \in LiveRoles'
  BY DEF RoleNext, CreateRole, UpdateRole, DeleteRole, AssignRole, RevokeRole,
         LiveRoles, Without, With, RefersToLive
<1> QED BY <1>0, <1>1 DEF RefersToLive

LEMMA UsersReferToLive ==
  ASSUME TypeOK, RefersToLive, UserNext \/ SessionNext, UNCHANGED dataVars
  PROVE  RefersToLive'
<1>0. LiveDepartments' = LiveDepartments /\ parent' = parent /\ LiveRoles' = LiveRoles
      /\ dataset' = dataset /\ Created' = Created
  BY DEF UserNext, SessionNext, CreateUser, UpdateUser, DeleteUser, Login, AuditCommit, Answer,
         Lose, Expire, tables, dataVars, LiveDepartments, LiveRoles, Created
<1>1. CASE SessionNext
  <2>1. Known' = Known /\ account' = account /\ grants' = grants
    BY <1>1 DEF SessionNext, Login, AuditCommit, Answer, Lose, Expire, tables, Known
  <2> QED BY <1>0, <2>1 DEF RefersToLive
<1>2. ASSUME NEW by, NEW u \in Users, NEW admin, NEW depts \in SUBSET LiveDepartments,
             NEW roles \in SUBSET LiveRoles, CreateUser(by, u, admin, depts, roles)
      PROVE  RefersToLive'
  <2>1. Known' = Known \union {u}
    BY <1>2 DEF CreateUser, Known, With
  <2>2. \A v \in Known' : account'[v].depts \subseteq LiveDepartments
    BY <1>2 DEF CreateUser, Known, With, RefersToLive
  <2>3. \A g \in grants' : g.user \in Known' /\ g.role \in LiveRoles
    BY <1>2, <2>1 DEF CreateUser, RefersToLive
  <2> QED BY <1>0, <2>2, <2>3 DEF RefersToLive
<1>3. ASSUME NEW w, NEW by, NEW u \in Users, NEW status, NEW depts \in SUBSET LiveDepartments,
             UpdateUser(w, by, u, status, depts)
      PROVE  RefersToLive'
  <2>1. Known' = Known /\ grants' = grants
    BY <1>3 DEF UpdateUser, Known
  <2>2. \A v \in Known : account'[v].depts \subseteq LiveDepartments
    BY <1>3 DEF UpdateUser, Known, RefersToLive
  <2> QED BY <1>0, <2>1, <2>2 DEF RefersToLive
<1>4. ASSUME NEW by, NEW u \in Users, DeleteUser(by, u)
      PROVE  RefersToLive'
  <2>1. Known' = Known /\ grants' = grants
    BY <1>4 DEF DeleteUser, Known
  <2>2. \A v \in Known : account'[v].depts = account[v].depts
    BY <1>4 DEF DeleteUser, Known, TypeOK, Accounts
  <2> QED BY <1>0, <2>1, <2>2 DEF RefersToLive
<1> QED BY <1>1, <1>2, <1>3, <1>4 DEF UserNext

LEMMA DatasetsKeepTables == ASSUME DatasetNext PROVE UNCHANGED admTables
<1>1. ASSUME NEW by, NEW d, NEW schema, NEW owner, CreateDataset(by, d, schema, owner)
      PROVE  UNCHANGED admTables
  BY <1>1 DEF CreateDataset
<1>2. ASSUME NEW by, NEW d, NEW schema, NEW owner, NEW status, NEW force,
             UpdateDataset(by, d, schema, owner, status, force)
      PROVE  UNCHANGED admTables
  BY <1>2 DEF UpdateDataset
<1>3. ASSUME NEW by, NEW d, DeleteDataset(by, d)
      PROVE  UNCHANGED admTables
  BY <1>3 DEF DeleteDataset
<1>4. ASSUME NEW by, NEW r, NEW d, NEW payload, Submit(by, r, d, payload)
      PROVE  UNCHANGED admTables
  BY <1>4 DEF Submit
<1>5. ASSUME NEW r, Decide(r)
      PROVE  UNCHANGED admTables
  BY <1>5 DEF Decide, admVars, admTables
<1> QED BY <1>1, <1>2, <1>3, <1>4, <1>5 DEF DatasetNext

LEMMA DatasetsReferToLive ==
  ASSUME TypeOK, RefersToLive, DatasetNext
  PROVE  RefersToLive'
<1>1. LiveDepartments' = LiveDepartments /\ parent' = parent /\ LiveRoles' = LiveRoles
      /\ Known' = Known /\ account' = account /\ grants' = grants
  BY DatasetsKeepTables DEF admTables, LiveDepartments, LiveRoles, Known
<1>2. \A c \in Created' : dataset'[c].owner \in LiveDepartments \union {Nothing}
  <2>1. ASSUME NEW by, NEW d, NEW schema, NEW owner, CreateDataset(by, d, schema, owner)
        PROVE  \A c \in Created' : dataset'[c].owner \in LiveDepartments \union {Nothing}
    BY <2>1 DEF CreateDataset, Created, With, RefersToLive
  <2>2. ASSUME NEW by, NEW d, NEW schema, NEW owner, NEW status, NEW force,
               UpdateDataset(by, d, schema, owner, status, force)
        PROVE  \A c \in Created' : dataset'[c].owner \in LiveDepartments \union {Nothing}
    BY <2>2 DEF UpdateDataset, Created, RefersToLive
  <2>3. ASSUME NEW by, NEW d, DeleteDataset(by, d)
        PROVE  \A c \in Created' : dataset'[c].owner \in LiveDepartments \union {Nothing}
    <3>1. \A c \in Created : dataset[c] \in DatasetRows
      BY DEF TypeOK
    <3> QED BY <2>3, <3>1 DEF DeleteDataset, Created, RefersToLive, DatasetRows
  <2>4. ASSUME UNCHANGED dataset
        PROVE  \A c \in Created' : dataset'[c].owner \in LiveDepartments \union {Nothing}
    BY <2>4 DEF Created, RefersToLive
  <2> QED BY <2>1, <2>2, <2>3, <2>4 DEF DatasetNext, Submit, Decide
<1> QED BY <1>1, <1>2 DEF RefersToLive

LEMMA InitRefersToLive == ASSUME Init PROVE RefersToLive
<1>1. LiveDepartments = {} /\ Created = {}
  BY DEF Init, AdmInit, LiveDepartments, Created
<1>2. \A u \in Known : account[u].depts = {}
  BY AdministrationAssumption DEF Init, AdmInit, Known
<1>3. \A g \in grants : g.user \in Known /\ g.role \in LiveRoles
  BY AdministrationAssumption DEF Init, AdmInit, Known, LiveRoles
<1> QED BY <1>1, <1>2, <1>3 DEF RefersToLive

LEMMA StepRefersToLive ==
  ASSUME TypeOK, RefersToLive, [Next]_vars
  PROVE  RefersToLive'
<1>1. CASE AdministrationNext
  BY <1>1, DepartmentsReferToLive, RolesReferToLive, UsersReferToLive
  DEF AdministrationNext, DepartmentNext
<1>2. CASE OwnershipNext
  <2>1. LiveDepartments \subseteq Departments
    BY DEF TypeOK
  <2> QED BY <1>2, <2>1, DepartmentsReferToLive DEF OwnershipNext
<1>3. CASE DatasetNext
  BY <1>3, DatasetsReferToLive
<1>4. CASE UNCHANGED vars
  BY <1>4 DEF vars, admVars, dataVars, RefersToLive, LiveDepartments, LiveRoles, Known, Created
<1> QED BY <1>1, <1>2, <1>3, <1>4 DEF Next

\* No row refers to a row that is gone.
THEOREM Referential == Spec => []RefersToLive
<1>1. Init => TypeOK /\ RefersToLive
  BY InitTypes, InitRefersToLive
<1>2. TypeOK /\ RefersToLive /\ [Next]_vars => TypeOK' /\ RefersToLive'
  BY StepTypes, StepRefersToLive
<1> QED BY <1>1, <1>2, PTL DEF Spec

\* A check by a scope that names a deleted department stops at the user's
\* departments, which are all live.
LEMMA DanglingInert == ASSUME TypeOK, RefersToLive PROVE DanglingScopeInert
<1> SUFFICES ASSUME NEW g \in grants, g.scope.dept \in Departments \ LiveDepartments,
                    NEW res \in Resources
             PROVE  ScopeOutcome(UserOf(g.user), g.scope, res) = "miss"
  BY DEF DanglingScopeInert
<1>1. g.scope.dept # Nothing
  BY NothingAssumption
<1>2. g.scope # FullScope /\ res # Nothing
  BY <1>1, ResourceAssumption DEF FullScope
<1>3. g.scope.dept \notin UserOf(g.user).depts
  BY DEF RefersToLive, UserOf
<1> QED BY <1>1, <1>2, <1>3 DEF ScopeOutcome

\* An assignment whose scope names a deleted department lets nobody through.
THEOREM DanglingScopes == Spec => []DanglingScopeInert
<1>1. Init => TypeOK /\ RefersToLive
  BY InitTypes, InitRefersToLive
<1>2. TypeOK /\ RefersToLive /\ [Next]_vars => TypeOK' /\ RefersToLive'
  BY StepTypes, StepRefersToLive
<1> QED BY <1>1, <1>2, DanglingInert, PTL DEF Spec

(***************************************************************************)
(* The audit log.                                                          *)
(***************************************************************************)
LEMMA StepAudited ==
  ASSUME TypeOK, AnsweredAudited, [Next]_vars
  PROVE  AnsweredAudited'
<1>1. CASE UNCHANGED <<tokens, audit, open>>
  BY <1>1 DEF AnsweredAudited
<1>2. ASSUME NEW w \in Workers, AuditCommit(w) PROVE AnsweredAudited'
  <2>1. open[w] \in Requests /\ open' \in [Workers -> Requests \union {Idle}]
        /\ \A v \in Workers \ {w} : open'[v] = open[v]
    BY <1>2 DEF AuditCommit, TypeOK, Requests
  <2>2. open'[w].entry = open[w].entry /\ audit' = audit \union {open[w].entry}
        /\ tokens' = tokens
    BY <1>2, <2>1 DEF AuditCommit, TypeOK, Requests
  <2> QED BY <2>1, <2>2 DEF AnsweredAudited
<1>3. ASSUME NEW w \in Workers, Answer(w) PROVE AnsweredAudited'
  <2>1. open[w].entry \in audit /\ audit' = audit
    BY <1>3 DEF Answer, AnswerDue, AnsweredAudited
  <2>2. \A v \in Workers : open'[v] = Idle \/ open'[v] = open[v]
    BY <1>3 DEF Answer, TypeOK
  <2>3. \A u \in tokens' : Entry("login", u, u, Nothing) \in audit
    BY <1>3, <2>1 DEF Answer, AnsweredAudited
  <2> QED BY <2>1, <2>2, <2>3 DEF AnsweredAudited
<1>4. ASSUME NEW w \in Workers, Lose(w) PROVE AnsweredAudited'
  BY <1>4 DEF Lose, TypeOK, AnsweredAudited
<1>5. ASSUME NEW w \in Workers, NEW u \in Users, Login(w, u) PROVE AnsweredAudited'
  <2>1. /\ open'[w].audited = FALSE
        /\ \A v \in Workers \ {w} : open'[v] = open[v]
    BY <1>5 DEF Login, TypeOK
  <2> QED BY <1>5, <2>1 DEF Login, AnsweredAudited
<1>6. ASSUME NEW u \in tokens, Expire(u) PROVE AnsweredAudited'
  BY <1>6 DEF Expire, AnsweredAudited
<1>7. ASSUME NEW w \in Workers, NEW by, NEW u, NEW status, NEW depts,
             UpdateUser(w, by, u, status, depts)
      PROVE  AnsweredAudited'
  <2>1. /\ open'[w].audited = FALSE
        /\ \A v \in Workers \ {w} : open'[v] = open[v]
    BY <1>7 DEF UpdateUser, TypeOK
  <2> QED BY <1>7, <2>1 DEF UpdateUser, AnsweredAudited
<1>8. ASSUME NEW by, NEW u, DeleteUser(by, u) PROVE AnsweredAudited'
  BY <1>8 DEF DeleteUser, AnsweredAudited
<1>9. CASE UserNext
  BY <1>1, <1>7, <1>8, <1>9 DEF UserNext, CreateUser
<1>10. CASE SessionNext
  BY <1>2, <1>3, <1>4, <1>5, <1>6, <1>10 DEF SessionNext
<1>11. CASE DepartmentNext \/ RoleNext
  BY <1>1, <1>11 DEF DepartmentNext, CreateDepartment, UpdateDepartment, tablesButDepartments,
                     RoleNext, CreateRole, UpdateRole, DeleteRole, AssignRole, RevokeRole,
                     tablesButRoles
<1>12. CASE OwnershipNext
  BY <1>1, <1>12 DEF OwnershipNext, DeleteOwner, DeleteDepartment, tablesButDepartments
<1>13. CASE DatasetNext
  BY <1>1, <1>13, DatasetsKeepTables DEF admTables
<1>14. CASE UNCHANGED vars
  BY <1>1, <1>14 DEF vars, admVars
<1> QED BY <1>9, <1>10, <1>11, <1>12, <1>13, <1>14 DEF Next, AdministrationNext

LEMMA InitAudited == ASSUME Init PROVE AnsweredAudited
BY DEF Init, AdmInit, AnsweredAudited

\* An answer is sent, and a token handed out, after the audit entry is committed.
THEOREM AuditFirst == Spec => []AnsweredAudited
<1>1. TypeOK /\ AnsweredAudited /\ [Next]_vars => TypeOK' /\ AnsweredAudited'
  BY StepTypes, StepAudited
<1> QED BY <1>1, InitTypes, InitAudited, PTL DEF Spec

\* The seeded accounts are never removed.
SeededKnown == DOMAIN FirstAccounts \subseteq Known

\* What counts for a status is never taken back: an entry is in the log, lost,
\* or in a request that has not committed it.
Trail == audit \union lost \union {open[w].entry : w \in {v \in Workers : open[v] # Idle}}

LEMMA TrailGrows ==
  ASSUME TypeOK, AnsweredAudited,
         \/ UNCHANGED <<audit, lost, open>>
         \/ \E w \in Workers : AuditCommit(w) \/ Answer(w) \/ Lose(w)
         \/ \E w \in Workers, u \in Users : Login(w, u)
  PROVE  Trail \subseteq Trail'
<1>1. CASE UNCHANGED <<audit, lost, open>>
  BY <1>1 DEF Trail
<1>2. ASSUME NEW w \in Workers, AuditCommit(w) PROVE Trail \subseteq Trail'
  <2>1. /\ \A v \in Workers \ {w} : open'[v] = open[v]
        /\ audit' = audit \union {open[w].entry} /\ lost' = lost
    BY <1>2 DEF AuditCommit, TypeOK
  <2> QED BY <2>1 DEF Trail
<1>3. ASSUME NEW w \in Workers, Answer(w) PROVE Trail \subseteq Trail'
  <2>1. /\ \A v \in Workers \ {w} : open'[v] = open[v]
        /\ audit' = audit /\ lost' = lost /\ open[w].entry \in audit
    BY <1>3 DEF Answer, AnswerDue, TypeOK, AnsweredAudited
  <2> QED BY <2>1 DEF Trail
<1>4. ASSUME NEW w \in Workers, Lose(w) PROVE Trail \subseteq Trail'
  <2>1. /\ \A v \in Workers \ {w} : open'[v] = open[v]
        /\ audit' = audit /\ open[w].entry \in audit \union lost' /\ lost \subseteq lost'
    BY <1>4 DEF Lose, TypeOK, AnsweredAudited
  <2> QED BY <2>1 DEF Trail
<1>5. ASSUME NEW w \in Workers, NEW u \in Users, Login(w, u) PROVE Trail \subseteq Trail'
  <2>1. /\ \A v \in Workers \ {w} : open'[v] = open[v]
        /\ open[w] = Idle /\ audit' = audit /\ lost' = lost
    BY <1>5 DEF Login, TypeOK
  <2> QED BY <2>1 DEF Trail
<1> QED BY <1>1, <1>2, <1>3, <1>4, <1>5

\* Statuses and the trail unchanged or grown: what was accounted for still is.
LEMMA StillAccounted ==
  ASSUME StatusAccounted, Trail \subseteq Trail', Known' = Known,
         \A u \in Known : account'[u].status = account[u].status
  PROVE  StatusAccounted'
BY DEF StatusAccounted, Accounted, Trail

LEMMA StepAccounted ==
  ASSUME TypeOK, AnsweredAudited, SeededKnown, StatusAccounted, [Next]_vars
  PROVE  SeededKnown' /\ StatusAccounted'
<1>1. CASE UNCHANGED <<account, audit, lost, open>>
  BY <1>1, TrailGrows, StillAccounted DEF SeededKnown, Known
<1>2. CASE DepartmentNext \/ RoleNext
  BY <1>1, <1>2 DEF DepartmentNext, CreateDepartment, UpdateDepartment, tablesButDepartments,
                    RoleNext, CreateRole, UpdateRole, DeleteRole, AssignRole, RevokeRole,
                    tablesButRoles
<1>3. CASE SessionNext
  <2>1. SeededKnown' /\ Known' = Known /\ account' = account
    BY <1>3 DEF SessionNext, Login, AuditCommit, Answer, Lose, Expire, tables, SeededKnown, Known
  <2>2. CASE \E u \in tokens : Expire(u)
    BY <1>1, <2>2 DEF Expire, tables
  <2>3. CASE ~ \E u \in tokens : Expire(u)
    BY <1>3, <2>1, <2>3, TrailGrows, StillAccounted DEF SessionNext
  <2> QED BY <2>2, <2>3
<1>4. CASE OwnershipNext
  <2>1. /\ UNCHANGED <<audit, lost, open>> /\ Known' = Known
        /\ \A u \in Known : account'[u].status = account[u].status
    BY <1>4 DEF OwnershipNext, DeleteOwner, DeleteDepartment, tablesButDepartments, Known, TypeOK,
                Accounts
  <2> QED BY <2>1, TrailGrows, StillAccounted DEF SeededKnown
<1>5. ASSUME NEW by, NEW u \in Users, NEW admin, NEW depts, NEW roles,
             CreateUser(by, u, admin, depts, roles)
      PROVE  SeededKnown' /\ StatusAccounted'
  <2>1. /\ u \notin Known /\ Known' = Known \union {u} /\ UNCHANGED <<audit, lost, open>>
        /\ account'[u].status = "active" /\ \A v \in Known : account'[v] = account[v]
    BY <1>5 DEF CreateUser, Known, With
  <2>2. Trail \subseteq Trail'
    BY <2>1, TrailGrows
  <2>3. BornStatus(u) = "active"
    BY <2>1 DEF BornStatus, SeededKnown
  <2>4. \A v \in Known : account'[v].status = BornStatus(v) \/ Accounted(v)'
    BY <2>1, <2>2 DEF StatusAccounted, Accounted, Trail
  <2> QED BY <2>1, <2>3, <2>4 DEF StatusAccounted, SeededKnown
<1>6. ASSUME NEW w \in Workers, NEW by \in Users, NEW u \in Users,
             NEW status \in Statuses \union {Nothing}, NEW depts, UpdateUser(w, by, u, status, depts)
      PROVE  SeededKnown' /\ StatusAccounted'
  <2>1. /\ Known' = Known /\ u \in Known /\ UNCHANGED <<audit, lost>> /\ open[w] = Idle
        /\ account'[u].status = NewStatus(account[u].status, status)
        /\ \A v \in Known \ {u} : account'[v] = account[v]
        /\ open'[w] = [entry |-> Entry("update_user", by, u, status), audited |-> FALSE]
        /\ \A v \in Workers \ {w} : open'[v] = open[v]
    BY <1>6 DEF UpdateUser, TypeOK, Known
  <2>2. Trail \subseteq Trail'
    BY <2>1 DEF Trail
  <2>3. open'[w] # Idle
    <3>1. Entry("update_user", by, u, status) \in Entries
      BY EntryType
    <3>2. open'[w] \in Requests
      BY <2>1, <3>1 DEF Requests
    <3> QED BY <3>2, IdleAssumption
  <2>4. Entry("update_user", by, u, status) \in Trail'
    BY <2>1, <2>3 DEF Trail
  <2>5. account'[u].status = BornStatus(u) \/ Accounted(u)'
    <3>1. CASE status = Nothing
      BY <2>1, <2>2, <3>1 DEF NewStatus, StatusAccounted, Accounted, Trail
    <3>2. CASE status # Nothing
      BY <2>1, <2>4, <3>2 DEF NewStatus, Entry, Accounted, Trail
    <3> QED BY <3>1, <3>2
  <2>6. \A v \in Known \ {u} : account'[v].status = BornStatus(v) \/ Accounted(v)'
    BY <2>1, <2>2 DEF StatusAccounted, Accounted, Trail
  <2> QED BY <2>1, <2>5, <2>6 DEF StatusAccounted, SeededKnown
<1>7. ASSUME NEW by, NEW u \in Users, DeleteUser(by, u)
      PROVE  SeededKnown' /\ StatusAccounted'
  <2>1. /\ Known' = Known /\ UNCHANGED <<lost, open>>
        /\ audit' = audit \union {Entry("disable_user", by, u, "disabled")}
        /\ u \in Known => account'[u].status = "disabled"
        /\ \A v \in Known \ {u} : account'[v] = account[v]
    BY <1>7 DEF DeleteUser, Logged, Known, TypeOK, Accounts
  <2>2. Trail \subseteq Trail' /\ Entry("disable_user", by, u, "disabled") \in Trail'
    BY <2>1 DEF Trail
  <2>3. \A v \in Known \ {u} : account'[v].status = BornStatus(v) \/ Accounted(v)'
    BY <2>1, <2>2 DEF StatusAccounted, Accounted, Trail
  <2>4. u \in Known => Accounted(u)'
    BY <2>1, <2>2 DEF Accounted, Trail, Entry
  <2> QED BY <2>1, <2>3, <2>4 DEF StatusAccounted, SeededKnown
<1>8. CASE UserNext
  <2>1. tokens \subseteq Users
    BY DEF TypeOK
  <2> QED BY <1>5, <1>6, <1>7, <1>8, <2>1 DEF UserNext
<1>9. CASE DatasetNext
  BY <1>1, <1>9, DatasetsKeepTables DEF admTables
<1>10. CASE UNCHANGED vars
  BY <1>1, <1>10 DEF vars, admVars
<1> QED BY <1>2, <1>3, <1>4, <1>8, <1>9, <1>10 DEF Next, AdministrationNext

LEMMA InitAccounted == ASSUME Init PROVE SeededKnown /\ StatusAccounted
BY DEF Init, AdmInit, SeededKnown, StatusAccounted, BornStatus, Known

\* Where an account's status came from can be told from the log, but for the
\* entries that died with their request.
THEOREM StatusesAccounted == Spec => []StatusAccounted
<1> DEFINE Inv == TypeOK /\ AnsweredAudited /\ SeededKnown /\ StatusAccounted
<1>1. Init => Inv
  BY InitTypes, InitAudited, InitAccounted
<1>2. Inv /\ [Next]_vars => Inv'
  BY StepTypes, StepAudited, StepAccounted
<1> QED BY <1>1, <1>2, PTL DEF Spec

(***************************************************************************)
(* The audit trail: users and log implement the abstract specification.    *)
(***************************************************************************)
Standing == [u \in Known |-> account[u].status]

LEMMA LedgerStarts == ASSUME Init PROVE Ledger!Init
<1>1. account = FirstAccounts /\ audit = {} /\ lost = {} /\ open = [w \in Workers |-> Idle]
  BY DEF Init, AdmInit
<1>2. Announced = {}
  BY <1>1 DEF Announced
<1>3. Standing = [u \in DOMAIN FirstAccounts |-> FirstAccounts[u].status]
  BY <1>1 DEF Standing, Known
<1> QED BY <1>1, <1>2, <1>3 DEF Ledger!Init, Standing

\* The abstract specification does not see a step that changes neither a
\* status nor what is known of an entry.
LEMMA LedgerStutters ==
  ASSUME UNCHANGED <<audit, lost>>, Announced' = Announced, Known' = Known,
         \A u \in Known : account'[u].status = account[u].status
  PROVE  UNCHANGED Ledger!vars
<1>1. [u \in Known |-> account[u].status]' = [u \in Known |-> account[u].status]
  OBVIOUS
<1> QED BY <1>1 DEF Ledger!vars

LEMMA SameAnnounced == ASSUME open' = open PROVE Announced' = Announced
BY DEF Announced

\* A handler that takes a request announces its entry.
LEMMA HandlerAnnounces ==
  ASSUME TypeOK, NEW w \in Workers, NEW entry \in Entries, open[w] = Idle,
         open' = [open EXCEPT ![w] = [entry |-> entry, audited |-> FALSE]]
  PROVE  Announced' = Announced \union {entry}
<1>1. /\ open'[w] = [entry |-> entry, audited |-> FALSE]
      /\ \A v \in Workers \ {w} : open'[v] = open[v]
  BY DEF TypeOK
<1>2. open'[w] # Idle
  <2>1. [entry |-> entry, audited |-> FALSE] \in Requests
    BY DEF Requests
  <2> QED BY <1>1, <2>1, IdleAssumption
<1> QED BY <1>1, <1>2 DEF Announced

\* A handler that has committed its entry, or is gone, no longer announces it.
LEMMA HandlerIsDone ==
  ASSUME TypeOK, NEW w \in Workers, open[w] # Idle, ~open[w].audited,
         open' \in [Workers -> Requests \union {Idle}], open'[w] = Idle \/ open'[w].audited,
         \A v \in Workers \ {w} : open'[v] = open[v]
  PROVE  Ledger!Leaves(open[w].entry) /\ open[w].entry \in Entries
<1>1. open[w].entry \in Announced /\ open[w].entry \in Entries
  BY DEF Announced, TypeOK, Requests
<1>2. Announced' \subseteq Announced
  BY DEF Announced
<1>3. Announced \ {open[w].entry} \subseteq Announced'
  BY DEF Announced
<1>4. Announced' \in {Announced, Announced \ {open[w].entry}}
  BY <1>2, <1>3
<1> QED BY <1>1, <1>4 DEF Ledger!Leaves

\* One that had its entry committed before has nothing announced.
LEMMA NothingToSay ==
  ASSUME TypeOK, NEW w \in Workers, open[w] # Idle, open[w].audited,
         open' = [open EXCEPT ![w] = Idle]
  PROVE  Announced' = Announced
<1>1. open'[w] = Idle /\ \A v \in Workers \ {w} : open'[v] = open[v]
  BY DEF TypeOK
<1> QED BY <1>1 DEF Announced

LEMMA SessionLedger ==
  ASSUME TypeOK, SessionNext PROVE [Ledger!Next]_(Ledger!vars)
<1>0. /\ Known' = Known /\ account' = account
      /\ [u \in Known |-> account[u].status]' = [u \in Known |-> account[u].status]
  BY DEF SessionNext, Login, AuditCommit, Answer, Lose, Expire, tables, Known
<1>1. ASSUME NEW w \in Workers, AuditCommit(w) PROVE \E e \in Entries : Ledger!Arrive(e)
  <2>1. open[w] \in Requests
    BY <1>1 DEF AuditCommit, TypeOK
  <2>2. /\ open'[w].audited /\ open' \in [Workers -> Requests \union {Idle}]
        /\ \A v \in Workers \ {w} : open'[v] = open[v]
    BY <1>1, <2>1 DEF AuditCommit, TypeOK, Requests
  <2>3. Ledger!Leaves(open[w].entry) /\ open[w].entry \in Entries
    BY <1>1, <2>2, HandlerIsDone DEF AuditCommit
  <2> QED BY <1>0, <1>1, <2>3 DEF AuditCommit, Ledger!Arrive
<1>2. ASSUME NEW w \in Workers, Answer(w) PROVE UNCHANGED Ledger!vars
  <2>1. Announced' = Announced
    BY <1>2, NothingToSay DEF Answer, AnswerDue
  <2> QED BY <1>0, <1>2, <2>1, LedgerStutters DEF Answer
<1>3. ASSUME NEW w \in Workers, Lose(w)
      PROVE  (\E e \in Entries : Ledger!GoMissing(e)) \/ UNCHANGED Ledger!vars
  <2>1. CASE open[w].audited
    <3>1. Announced' = Announced
      BY <1>3, <2>1, NothingToSay DEF Lose
    <3> QED BY <1>0, <1>3, <2>1, <3>1, LedgerStutters DEF Lose
  <2>2. CASE ~open[w].audited
    <3>1. /\ open'[w] = Idle /\ open' \in [Workers -> Requests \union {Idle}]
          /\ \A v \in Workers \ {w} : open'[v] = open[v]
      BY <1>3 DEF Lose, TypeOK
    <3>2. Ledger!Leaves(open[w].entry) /\ open[w].entry \in Entries
      BY <1>3, <2>2, <3>1, HandlerIsDone DEF Lose
    <3>3. lost' = lost \union {open[w].entry} /\ audit' = audit
      BY <1>3, <2>2 DEF Lose
    <3> QED BY <1>0, <3>2, <3>3 DEF Ledger!GoMissing
  <2> QED BY <2>1, <2>2
<1>4. ASSUME NEW w \in Workers, NEW u \in Users, Login(w, u)
      PROVE  \E e \in Entries : Ledger!Announce(e)
  <2> DEFINE entry == Entry("login", u, u, Nothing)
  <2>1. entry \in Entries /\ entry.on = u /\ entry.status = Nothing
    BY EntryType DEF Entry
  <2> HIDE DEF entry
  <2>2. Announced' = Announced \union {entry}
    BY <1>4, <2>1, HandlerAnnounces DEF Login, entry
  <2>3. u \in DOMAIN [v \in Known |-> account[v].status] /\ UNCHANGED <<audit, lost>>
    BY <1>4 DEF Login
  <2> QED BY <1>0, <2>1, <2>2, <2>3 DEF Ledger!Announce
<1>5. ASSUME NEW u \in tokens, Expire(u) PROVE UNCHANGED Ledger!vars
  BY <1>0, <1>5, SameAnnounced, LedgerStutters DEF Expire
<1> QED BY <1>1, <1>2, <1>3, <1>4, <1>5 DEF SessionNext, Ledger!Next

LEMMA UserLedger ==
  ASSUME TypeOK, UserNext PROVE Ledger!Next
<1>1. ASSUME NEW by, NEW u \in Users, NEW admin, NEW depts, NEW roles,
             CreateUser(by, u, admin, depts, roles)
      PROVE  Ledger!Join(u)
  <2>1. /\ u \notin Known /\ Known' = Known \union {u} /\ UNCHANGED <<audit, lost, open>>
        /\ account'[u].status = "active" /\ \A v \in Known : account'[v] = account[v]
    BY <1>1 DEF CreateUser, Known, With
  <2>2. [v \in Known |-> account[v].status]' =
          [v \in Known \union {u} |-> IF v = u THEN "active" ELSE account[v].status]
    BY <2>1
  <2> QED BY <2>1, <2>2, SameAnnounced DEF Ledger!Join
<1>2. ASSUME NEW w \in Workers, NEW by \in Users, NEW u \in Users,
             NEW status \in Statuses \union {Nothing}, NEW depts,
             UpdateUser(w, by, u, status, depts)
      PROVE  \E e \in Entries : Ledger!Announce(e)
  <2> DEFINE entry == Entry("update_user", by, u, status)
  <2>1. entry \in Entries /\ entry.on = u /\ entry.status = status
    BY EntryType DEF Entry
  <2> HIDE DEF entry
  <2>2. /\ Known' = Known /\ u \in Known /\ UNCHANGED <<audit, lost>>
        /\ account'[u].status = NewStatus(account[u].status, status)
        /\ \A v \in Known \ {u} : account'[v] = account[v]
    BY <1>2 DEF UpdateUser, TypeOK, Known
  <2>3. Announced' = Announced \union {entry}
    BY <1>2, <2>1, HandlerAnnounces DEF UpdateUser, entry
  <2>4. [v \in Known |-> account[v].status]' =
          IF status = Nothing THEN [v \in Known |-> account[v].status]
          ELSE [[v \in Known |-> account[v].status] EXCEPT ![u] = status]
    BY <2>2 DEF NewStatus
  <2> QED BY <2>1, <2>2, <2>3, <2>4 DEF Ledger!Announce
<1>3. ASSUME NEW by \in Users, NEW u \in Users, DeleteUser(by, u)
      PROVE  \E e \in Entries : Ledger!Announce(e)
  <2> DEFINE entry == Entry("disable_user", by, u, "disabled")
  <2>1. entry \in Entries /\ entry.on = u /\ entry.status = "disabled"
    BY EntryType DEF Entry, Statuses
  <2>2. "disabled" # Nothing
    BY AdministrationAssumption DEF Statuses
  <2>3. /\ Known' = Known /\ u \in Known /\ UNCHANGED <<lost, open>>
        /\ audit' = audit \union {entry}
        /\ account'[u].status = "disabled"
        /\ \A v \in Known \ {u} : account'[v] = account[v]
    BY <1>3 DEF DeleteUser, Logged, Known, TypeOK, Accounts
  <2> HIDE DEF entry
  <2>4. [v \in Known |-> account[v].status]' =
          [[v \in Known |-> account[v].status] EXCEPT ![u] = "disabled"]
    BY <2>3
  <2> QED BY <2>1, <2>2, <2>3, <2>4, SameAnnounced DEF Ledger!Announce
<1> QED
  <2>1. tokens \subseteq Users
    BY DEF TypeOK
  <2> QED BY <1>1, <1>2, <1>3, <2>1 DEF UserNext, Ledger!Next

LEMMA LedgerStep ==
  ASSUME TypeOK, [Next]_vars PROVE [Ledger!Next]_(Ledger!vars)
<1>1. CASE UNCHANGED <<account, audit, lost, open>>
  BY <1>1, SameAnnounced, LedgerStutters DEF Known
<1>2. CASE DepartmentNext \/ RoleNext
  BY <1>1, <1>2 DEF DepartmentNext, CreateDepartment, UpdateDepartment, tablesButDepartments,
                    RoleNext, CreateRole, UpdateRole, DeleteRole, AssignRole, RevokeRole,
                    tablesButRoles
<1>3. CASE OwnershipNext
  <2>1. /\ UNCHANGED <<audit, lost, open>> /\ Known' = Known
        /\ \A u \in Known : account'[u].status = account[u].status
    BY <1>3 DEF OwnershipNext, DeleteOwner, DeleteDepartment, tablesButDepartments, Known, TypeOK,
                Accounts
  <2> QED BY <2>1, SameAnnounced, LedgerStutters
<1>4. CASE DatasetNext
  BY <1>1, <1>4, DatasetsKeepTables DEF admTables
<1>5. CASE UNCHANGED vars
  BY <1>1, <1>5 DEF vars, admVars
<1> QED BY <1>2, <1>3, <1>4, <1>5, SessionLedger, UserLedger DEF Next, AdministrationNext

\* Whatever handlers run side by side, users and audit log implement the
\* abstract trail: no change of a status goes without an entry.
THEOREM TrailIsImplemented == Spec => ImplementsAuditTrail
<1>1. TypeOK /\ [Next]_vars => [Ledger!Next]_(Ledger!vars)
  BY LedgerStep
<1>2. TypeOK /\ [Next]_vars => TypeOK'
  BY StepTypes
<1> QED BY <1>1, <1>2, InitTypes, LedgerStarts, PTL DEF Spec, ImplementsAuditTrail, Ledger!Spec

(***************************************************************************)
(* Payloads and schemas.                                                   *)
(***************************************************************************)
Rows == ({pending[r] : r \in Records} \union {stored[r] : r \in Records}) \ {Nothing}

\* What a record holds was there before, or has just been submitted and fits.
Fresh(row) ==
  /\ row.dataset \in Created /\ row.asOf = dataset[row.dataset].schema
  /\ Conforms(row.payload, row.asOf)

LEMMA StepRows ==
  ASSUME TypeOK, [Next]_vars
  PROVE  \/ Rows' \subseteq Rows
         \/ UNCHANGED <<dataset, forced, undeclared>> /\ \A row \in Rows' \ Rows : Fresh(row)
<1>1. CASE UNCHANGED <<pending, stored>>
  BY <1>1 DEF Rows
<1>2. ASSUME NEW r \in Records, Decide(r) PROVE Rows' \subseteq Rows
  <2>1. \A q \in Records : /\ pending'[q] \in {pending[q], Nothing}
                          /\ stored'[q] \in {stored[q], pending[q]}
    BY <1>2 DEF Decide, TypeOK
  <2> QED BY <2>1 DEF Rows
<1>3. ASSUME NEW by, NEW r \in Records, NEW d, NEW payload, Submit(by, r, d, payload)
      PROVE  UNCHANGED <<dataset, forced, undeclared>> /\ \A row \in Rows' \ Rows : Fresh(row)
  <2> DEFINE new == [dataset |-> d, payload |-> payload, asOf |-> dataset[d].schema]
  <2>1. /\ UNCHANGED <<dataset, forced, undeclared, stored>>
        /\ \A q \in Records : pending'[q] \in {pending[q], new}
    BY <1>3 DEF Submit, TypeOK
  <2>2. Fresh(new)
    BY <1>3 DEF Submit, Validated, Fresh
  <2>3. \A row \in Rows' \ Rows : row = new
    BY <2>1 DEF Rows
  <2> HIDE DEF new
  <2> QED BY <2>1, <2>2, <2>3
<1>4. CASE AdministrationNext \/ UNCHANGED vars
  BY <1>1, <1>4 DEF AdministrationNext, dataVars, vars
<1>5. CASE OwnershipNext
  BY <1>1, <1>5 DEF OwnershipNext, DeleteOwner
<1>6. CASE DatasetNext
  <2>1. ASSUME NEW by, NEW d, NEW schema, NEW owner, CreateDataset(by, d, schema, owner)
        PROVE  UNCHANGED <<pending, stored>>
    BY <2>1 DEF CreateDataset
  <2>2. ASSUME NEW by, NEW d, NEW schema, NEW owner, NEW status, NEW force,
               UpdateDataset(by, d, schema, owner, status, force)
        PROVE  UNCHANGED <<pending, stored>>
    BY <2>2 DEF UpdateDataset
  <2>3. ASSUME NEW by, NEW d, DeleteDataset(by, d)
        PROVE  UNCHANGED <<pending, stored>>
    BY <2>3 DEF DeleteDataset
  <2> QED BY <1>1, <1>2, <1>3, <1>6, <2>1, <2>2, <2>3 DEF DatasetNext
<1> QED BY <1>4, <1>5, <1>6 DEF Next

LEMMA InitRows == ASSUME Init PROVE Rows = {}
BY DEF Init, Rows

LEMMA MatchedRows ==
  /\ MatchedWhenSubmitted <=> \A row \in Rows : Conforms(row.payload, row.asOf)
  /\ MatchedWhenSubmitted' <=> \A row \in Rows' : Conforms(row.payload, row.asOf)
BY DEF MatchedWhenSubmitted, Rows

\* No payload waits or is stored that did not match when it was submitted.
THEOREM Matched == Spec => []MatchedWhenSubmitted
<1>1. Init => TypeOK /\ MatchedWhenSubmitted
  BY InitTypes, InitRows, MatchedRows
<1>2. TypeOK /\ MatchedWhenSubmitted /\ [Next]_vars => TypeOK' /\ MatchedWhenSubmitted'
  BY StepTypes, StepRows, MatchedRows DEF Fresh
<1> QED BY <1>1, <1>2, PTL DEF Spec

\* What a step does to the schema of a dataset.
LEMMA StepSchema ==
  ASSUME TypeOK, [Next]_vars, NEW c \in Created
  PROVE  /\ c \in Created' /\ forced \subseteq forced' /\ undeclared \subseteq undeclared'
         /\ \/ dataset'[c].schema = dataset[c].schema
            \/ /\ c \in forced' \/ Compatible(dataset[c].schema, dataset'[c].schema)
               /\ \A f \in Fields :
                    dataset'[c].schema.types[f] \notin Types => <<c, f>> \in undeclared'
<1>0. dataset[c] \in DatasetRows
  BY DEF TypeOK
<1>1. CASE UNCHANGED <<dataset, forced, undeclared>>
  BY <1>1 DEF Created
<1>2. ASSUME NEW by, NEW dept, DeleteOwner(by, dept)
      PROVE  /\ c \in Created' /\ UNCHANGED <<forced, undeclared>>
             /\ dataset'[c].schema = dataset[c].schema
  BY <1>0, <1>2 DEF DeleteOwner, Created, DatasetRows
<1>3. ASSUME NEW by, NEW d, NEW schema, NEW owner, CreateDataset(by, d, schema, owner)
      PROVE  /\ c \in Created' /\ UNCHANGED <<forced, undeclared>>
             /\ dataset'[c].schema = dataset[c].schema
  BY <1>3 DEF CreateDataset, Created, With
<1>4. ASSUME NEW by, NEW d, DeleteDataset(by, d)
      PROVE  /\ c \in Created' /\ UNCHANGED <<forced, undeclared>>
             /\ dataset'[c].schema = dataset[c].schema
  BY <1>0, <1>4 DEF DeleteDataset, Created, DatasetRows
<1>5. ASSUME NEW by, NEW d, NEW schema, NEW owner, NEW status, NEW force,
             UpdateDataset(by, d, schema, owner, status, force)
      PROVE  /\ c \in Created' /\ forced \subseteq forced' /\ undeclared \subseteq undeclared'
             /\ \/ dataset'[c].schema = dataset[c].schema
                \/ /\ c \in forced' \/ Compatible(dataset[c].schema, dataset'[c].schema)
                   /\ \A f \in Fields :
                        dataset'[c].schema.types[f] \notin Types => <<c, f>> \in undeclared'
  <2>1. /\ c \in Created' /\ forced \subseteq forced' /\ undeclared \subseteq undeclared'
        /\ c # d => dataset'[c] = dataset[c]
        /\ dataset'[d].schema = schema
    BY <1>5 DEF UpdateDataset, Created
  <2>2. \A f \in Fields : schema.types[f] \notin Types => <<d, f>> \in undeclared'
    BY <1>5 DEF UpdateDataset
  <2>3. \/ dataset[d].schema = schema \/ Compatible(dataset[d].schema, schema)
        \/ d \in forced'
    BY <1>5 DEF UpdateDataset, SchemaAccepted
  <2> QED BY <2>1, <2>2, <2>3
<1>6. CASE AdministrationNext \/ UNCHANGED vars
  BY <1>1, <1>6 DEF AdministrationNext, dataVars, vars
<1>7. CASE OwnershipNext
  BY <1>2, <1>7 DEF OwnershipNext
<1>8. CASE DatasetNext
  BY <1>1, <1>3, <1>4, <1>5, <1>8 DEF DatasetNext, Submit, Decide
<1> QED BY <1>6, <1>7, <1>8 DEF Next

LEMMA WideningComposes ==
  ASSUME NEW a \in Types, NEW b, NEW c, TypeCompatible(a, b)
  PROVE  b \in Types /\ (TypeCompatible(b, c) => TypeCompatible(a, c))
BY DEF Types, TypeCompatible

\* How far the schema of now is from the one a payload was checked against.
Wider(old, new, c) ==
  /\ old.required \subseteq new.required
  /\ \A f \in Fields : old.types[f] \in Types /\ <<c, f>> \notin undeclared
                       => TypeCompatible(old.types[f], new.types[f])
WidenedRows ==
  \A row \in Rows : /\ row.dataset \in Created
                    /\ row.dataset \notin forced
                         => Wider(row.asOf, dataset[row.dataset].schema, row.dataset)

LEMMA StepWidened ==
  ASSUME TypeOK, WidenedRows, [Next]_vars
  PROVE  WidenedRows'
<1>1. ASSUME NEW row \in Rows, row \in Rows'
      PROVE  /\ row.dataset \in Created'
             /\ row.dataset \notin forced'
                  => Wider(row.asOf, dataset[row.dataset].schema, row.dataset)'
  <2> DEFINE c == row.dataset
             old == dataset[c].schema
             new == dataset'[c].schema
  <2>1. c \in Created
    BY <1>1 DEF WidenedRows
  <2>2. /\ c \in Created' /\ forced \subseteq forced' /\ undeclared \subseteq undeclared'
        /\ \/ new = old
           \/ /\ c \in forced' \/ Compatible(old, new)
              /\ \A f \in Fields : new.types[f] \notin Types => <<c, f>> \in undeclared'
    BY <2>1, StepSchema
  <2>3. ASSUME c \notin forced'
        PROVE  /\ row.asOf.required \subseteq new.required
               /\ \A f \in Fields : row.asOf.types[f] \in Types /\ <<c, f>> \notin undeclared'
                                   => TypeCompatible(row.asOf.types[f], new.types[f])
    <3>1. Wider(row.asOf, old, c)
      BY <1>1, <2>2, <2>3 DEF WidenedRows
    <3>2. CASE new = old
      BY <2>2, <3>1, <3>2 DEF Wider
    <3>3. CASE new # old
      <4>1. row.asOf.required \subseteq new.required
        BY <2>2, <2>3, <3>1, <3>3 DEF Wider, Compatible
      <4>2. ASSUME NEW f \in Fields, row.asOf.types[f] \in Types, <<c, f>> \notin undeclared'
            PROVE  TypeCompatible(row.asOf.types[f], new.types[f])
        <5>1. TypeCompatible(row.asOf.types[f], old.types[f])
          BY <2>2, <3>1, <4>2 DEF Wider
        <5>2. old.types[f] \in Types
          BY <4>2, <5>1, WideningComposes
        <5>3. TypeCompatible(old.types[f], new.types[f])
          BY <2>2, <2>3, <3>3, <4>2, <5>2 DEF Compatible
        <5> QED BY <4>2, <5>1, <5>3, WideningComposes
      <4> QED BY <4>1, <4>2
    <3> QED BY <3>2, <3>3
  <2> QED BY <2>2, <2>3 DEF Wider
<1>2. CASE Rows' \subseteq Rows
  BY <1>1, <1>2 DEF WidenedRows
<1>3. CASE UNCHANGED <<dataset, forced, undeclared>> /\ \A row \in Rows' \ Rows : Fresh(row)
  <2>1. ASSUME NEW row \in Rows' \ Rows
        PROVE  /\ row.dataset \in Created'
               /\ row.asOf = dataset'[row.dataset].schema
    BY <1>3, <2>1 DEF Fresh, Created
  <2>2. \A row \in Rows' \ Rows : Wider(row.asOf, dataset[row.dataset].schema, row.dataset)'
    BY <2>1 DEF Wider, TypeCompatible
  <2> QED BY <1>1, <2>1, <2>2 DEF WidenedRows
<1> QED BY <1>2, <1>3, StepRows

\* Over any number of unforced changes a schema only widens, but for the fields
\* whose type it once dropped.
THEOREM SchemasWiden == Spec => []UnforcedWidens
<1>1. Init => TypeOK /\ WidenedRows
  BY InitTypes, InitRows DEF WidenedRows
<1>2. TypeOK /\ WidenedRows /\ [Next]_vars => TypeOK' /\ WidenedRows'
  BY StepTypes, StepWidened
<1>3. WidenedRows => UnforcedWidens
  BY DEF WidenedRows, UnforcedWidens, Rows, Wider
<1> QED BY <1>1, <1>2, <1>3, PTL DEF Spec

Gap(f, payload, old, new) ==
  \/ f \in new.required \ old.required
  \/ new.types[f] = "string" /\ payload[f] # "string"
  \/ new.types[f] \in Types /\ old.types[f] \notin Types

\* A payload that a compatible schema invalidates shows one of the three gaps.
LEMMA CompatibleGaps ==
  ASSUME NEW payload, NEW old \in SchemaSet, NEW new \in SchemaSet,
         Compatible(old, new), Conforms(payload, old),
         \A f \in Fields : ~Gap(f, payload, old, new)
  PROVE  Conforms(payload, new)
<1>1. new.required \subseteq old.required
  BY DEF Gap, SchemaSet
<1>2. ASSUME NEW f \in Fields, payload[f] # "absent", new.types[f] \in Types
      PROVE  payload[f] = new.types[f] \/ (payload[f] = "integer" /\ new.types[f] = "number")
  <2>1. old.types[f] \in Types /\ (new.types[f] = "string" => payload[f] = "string")
    BY <1>2 DEF Gap
  <2>2. TypeCompatible(old.types[f], new.types[f])
    BY <1>2, <2>1 DEF Compatible
  <2>3. payload[f] = old.types[f] \/ (payload[f] = "integer" /\ old.types[f] = "number")
    BY <1>2, <2>1 DEF Conforms, IsA
  <2> QED BY <2>1, <2>2, <2>3 DEF TypeCompatible
<1> QED BY <1>1, <1>2 DEF Conforms, IsA

LEMMA StepGaps ==
  ASSUME TypeOK, TypeOK', [Next]_vars, NEW row, row.dataset \in Created,
         row.dataset \notin forced',
         Conforms(row.payload, dataset[row.dataset].schema),
         ~Conforms(row.payload, dataset'[row.dataset].schema)
  PROVE  \E f \in Fields :
           Gap(f, row.payload, dataset[row.dataset].schema, dataset'[row.dataset].schema)
<1> DEFINE old == dataset[row.dataset].schema
           new == dataset'[row.dataset].schema
<1>1. row.dataset \in Created' /\ (new = old \/ Compatible(old, new))
  BY StepSchema
<1>2. old \in SchemaSet /\ new \in SchemaSet
  BY <1>1 DEF TypeOK, DatasetRows
<1>3. new # old
  OBVIOUS
<1> HIDE DEF old, new
<1> QED BY <1>1, <1>2, <1>3, CompatibleGaps DEF old, new

\* Nothing else than the three gaps makes an unforced change invalidate a payload.
THEOREM ThreeGaps == Spec => OnlyThreeGaps
<1>1. TypeOK /\ TypeOK' /\ [Next]_vars =>
        [\A r \in Records :
           LET row == stored[r]
           IN  row # Nothing /\ row.dataset \in Created =>
                 LET old == dataset[row.dataset].schema
                     new == dataset'[row.dataset].schema
                     gap(f) == \/ f \in new.required \ old.required
                               \/ new.types[f] = "string" /\ row.payload[f] # "string"
                               \/ new.types[f] \in Types /\ old.types[f] \notin Types
                 IN  row.dataset \notin forced' /\ Conforms(row.payload, old)
                       => Conforms(row.payload, new) \/ \E f \in Fields : gap(f)]_vars
  <2> SUFFICES ASSUME TypeOK, TypeOK', [Next]_vars, NEW r \in Records,
                      stored[r].dataset \in Created, stored[r].dataset \notin forced',
                      Conforms(stored[r].payload, dataset[stored[r].dataset].schema),
                      ~Conforms(stored[r].payload, dataset'[stored[r].dataset].schema)
               PROVE  \E f \in Fields :
                        Gap(f, stored[r].payload, dataset[stored[r].dataset].schema,
                            dataset'[stored[r].dataset].schema)
    BY DEF Gap
  <2> QED BY StepGaps
<1>2. TypeOK /\ [Next]_vars => TypeOK'
  BY StepTypes
<1> QED BY <1>1, <1>2, InitTypes, PTL DEF Spec, OnlyThreeGaps
=============================================================================
