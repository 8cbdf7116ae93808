---------------------------- MODULE Administration ----------------------------
(***************************************************************************)
(* Departments, roles, users and sign-in: what the administrators' requests *)
(* do to one tenant's rows, and what ties the rows together.               *)
(*                                                                         *)
(* Transactions are SERIALIZABLE, so a request that commits once is one    *)
(* step.  AuthService.login and update_user commit twice, the change first *)
(* and its audit entry after: such a request is kept in "open" between its *)
(* two commits and its answer, and may be lost there.                      *)
(***************************************************************************)
EXTENDS Permissions, Integers

CONSTANTS
  Users,
  Roles,
  SystemRoles,     \* the seeded ones
  PermissionSets,  \* what a request may give a role
  GrantScopes,     \* the scopes it may assign a role with
  Workers,         \* handlers of requests that commit twice
  Idle,
  FirstAccounts, FirstRoles, FirstGrants,  \* the seeded rows
  MaxWrites        \* bound: requests that change a row

Statuses == {"active", "disabled", "invited"}

\* The permissions table is filled by a migration and no request adds to it.
Permits ==
  ({"read", "write", "manage"} \X {"dataset"})
  \union ({"read", "write", "delete", "approve"} \X {"record"})
  \union ({"read", "manage"} \X {"user", "role", "department", "workflow", "tenant_settings"})
  \union {<<"read", "audit_log">>, <<"ai_query", "dataset">>}

Accounts == [status: Statuses, admin: BOOLEAN, depts: SUBSET Departments]
Assignments == [user: Users, role: Roles, scope: Scopes]

ASSUME AdministrationAssumption ==
  /\ SystemRoles \subseteq Roles /\ GrantScopes \subseteq Scopes
  /\ PermissionSets \subseteq SUBSET Permits
  /\ DOMAIN FirstAccounts \subseteq Users
  /\ FirstAccounts \in [DOMAIN FirstAccounts -> [status: Statuses, admin: BOOLEAN, depts: {{}}]]
  /\ SystemRoles \subseteq DOMAIN FirstRoles /\ DOMAIN FirstRoles \subseteq Roles
  /\ FirstRoles \in [DOMAIN FirstRoles -> SUBSET Permits]
  /\ FirstGrants \subseteq {g \in Assignments : /\ g.user \in DOMAIN FirstAccounts
                                                /\ g.role \in DOMAIN FirstRoles}
  /\ MaxWrites \in Nat
  /\ Nothing \notin Statuses \union Users

VARIABLES
  parent,   \* departments: of each live one, its parent or Nothing
  gone,     \* ids of deleted departments and roles: ids are never used again
  role,     \* roles: of each live one, its permissions
  account,  \* users
  grants,   \* user_roles
  tokens,   \* users who hold an access token
  audit,    \* audit_log
  open,     \* requests between their first commit and their answer
  lost,     \* history: entries that died with their request
  writes

admVars == <<parent, gone, role, account, grants, tokens, audit, open, lost, writes>>

Entries == [action: {"login", "update_user", "disable_user"}, by: Users, on: Users,
            status: Statuses \union {Nothing}]
Requests == [entry: Entries, audited: BOOLEAN]

ASSUME IdleAssumption == Idle \notin Requests

LiveDepartments == DOMAIN parent
LiveRoles == DOMAIN role
Known == DOMAIN account

AdmInit ==
  /\ parent = [d \in {} |-> Nothing] /\ gone = {}
  /\ role = FirstRoles /\ account = FirstAccounts /\ grants = FirstGrants
  /\ tokens = {} /\ audit = {} /\ open = [w \in Workers |-> Idle]
  /\ lost = {} /\ writes = 0

Entry(action, by, on, status) == [action |-> action, by |-> by, on |-> on, status |-> status]

\* The user object of a request, its roles loaded with it.
UserOf(u) ==
  [admin |-> account[u].admin, depts |-> account[u].depts,
   roles |-> {[perms |-> role[g.role], name |-> g.role, scope |-> g.scope] :
                g \in {h \in grants : h.user = u}}]

\* get_current_user and require_perm: the token says who, the row says the rest.
Allowed(by, action, type) ==
  /\ by \in tokens /\ account[by].status = "active"
  /\ RequirePerm(UserOf(by), action, type)

Writes == writes < MaxWrites /\ writes' = writes + 1

Without(f, S) == [x \in DOMAIN f \ S |-> f[x]]
With(f, x, y) == [z \in DOMAIN f \union {x} |-> IF z = x THEN y ELSE f[z]]

(***************************************************************************)
(* Departments.                                                            *)
(***************************************************************************)
tablesButDepartments == <<role, grants, tokens, audit, open, lost>>

\* Everything under d: the least set that holds d's children and the
\* children of its members.  The ORM walks it to delete it.
Below(d) ==
  LET Inherits(S) == \A e \in LiveDepartments : parent[e] \in S \union {d} => e \in S
  IN  {e \in LiveDepartments : \A S \in SUBSET LiveDepartments : Inherits(S) => e \in S}
OnCycle(d) == d \in Below(d)

CreateDepartment(by, d, p) ==
  /\ Allowed(by, "write", "department")
  /\ d \notin LiveDepartments \union gone
  /\ p \in LiveDepartments \union {Nothing}
  /\ parent' = With(parent, d, p)
  /\ Writes
  /\ UNCHANGED <<gone, account, tablesButDepartments>>

\* Only the department itself is refused as its own parent.
UpdateDepartment(by, d, p) ==
  /\ Allowed(by, "write", "department")
  /\ d \in LiveDepartments /\ p \in LiveDepartments \ {d}
  /\ parent' = [parent EXCEPT ![d] = p]
  /\ Writes
  /\ UNCHANGED <<gone, account, tablesButDepartments>>

\* children has cascade="all": what is below goes too.  A cycle cannot be put
\* in an order of deletion, and the flush raises.
OnlyTheRow(d) == {d}
Doomed(d) == Below(d) \union {d}
Deletable(d) == ~OnCycle(d)
MembersStay(depts, d) == depts
Remaining(depts, d) == depts \ Doomed(d)
DeleteDepartment(by, d) ==
  /\ Allowed(by, "delete", "department")
  /\ d \in LiveDepartments /\ Deletable(d)
  /\ parent' = Without(parent, Doomed(d))
  /\ gone' = gone \union Doomed(d)
  /\ account' = [u \in Known |-> [account[u] EXCEPT !.depts = Remaining(@, d)]]
  /\ Writes
  /\ UNCHANGED tablesButDepartments

(***************************************************************************)
(* Roles and their assignment.                                             *)
(***************************************************************************)
tablesButRoles == <<parent, account, tokens, audit, open, lost>>

CreateRole(by, r, perms) ==
  /\ Allowed(by, "write", "role")
  /\ r \notin LiveRoles \union gone
  /\ role' = With(role, r, perms)
  /\ Writes
  /\ UNCHANGED <<gone, grants, tablesButRoles>>

UpdateRole(by, r, perms) ==
  /\ Allowed(by, "write", "role")
  /\ r \in LiveRoles \ SystemRoles
  /\ role' = [role EXCEPT ![r] = perms]
  /\ Writes
  /\ UNCHANGED <<gone, grants, tablesButRoles>>

DeleteRole(by, r) ==
  /\ Allowed(by, "delete", "role")
  /\ r \in LiveRoles \ SystemRoles
  /\ role' = Without(role, {r})
  /\ gone' = gone \union {r}
  /\ grants' = {g \in grants : g.role # r}
  /\ Writes
  /\ UNCHANGED tablesButRoles

\* The scope is stored as it comes: a JSON value, not a foreign key.
AssignRole(by, g) ==
  /\ Allowed(by, "write", "role")
  /\ g.user \in Known /\ g.role \in LiveRoles /\ g \notin grants
  /\ grants' = grants \union {g}
  /\ Writes
  /\ UNCHANGED <<gone, role, tablesButRoles>>

RevokeRole(by, g) ==
  /\ Allowed(by, "write", "role")
  /\ g \in grants
  /\ grants' = grants \ {g}
  /\ Writes
  /\ UNCHANGED <<gone, role, tablesButRoles>>

(***************************************************************************)
(* Users.                                                                  *)
(***************************************************************************)
CreateUser(by, u, admin, depts, roles) ==
  /\ Allowed(by, "write", "user")
  /\ u \notin Known /\ depts \subseteq LiveDepartments /\ roles \subseteq LiveRoles
  /\ account' = With(account, u, [status |-> "active", admin |-> admin, depts |-> depts])
  /\ grants' = grants \union {[user |-> u, role |-> r, scope |-> FullScope] : r \in roles}
  /\ Writes
  /\ UNCHANGED <<parent, gone, role, tokens, audit, open, lost>>

StatusSent(old, status) == status
NewStatus(old, status) == IF status = Nothing THEN old ELSE status

\* The first commit; the entry follows in AuditCommit.
UpdateUser(w, by, u, status, depts) ==
  /\ open[w] = Idle /\ Allowed(by, "write", "user")
  /\ u \in Known /\ depts \subseteq LiveDepartments
  /\ account' = [account EXCEPT ![u] = [status |-> NewStatus(@.status, status),
                                        admin |-> @.admin, depts |-> depts]]
  /\ open' = [open EXCEPT ![w] = [entry |-> Entry("update_user", by, u, status),
                                  audited |-> FALSE]]
  /\ Writes
  /\ UNCHANGED <<parent, gone, role, grants, tokens, audit, lost>>

Logged(by, u) == {Entry("disable_user", by, u, "disabled")}
DeleteUser(by, u) ==
  /\ Allowed(by, "delete", "user")
  /\ u \in Known
  /\ account' = [account EXCEPT ![u].status = "disabled"]
  /\ audit' = audit \union Logged(by, u)
  /\ Writes
  /\ UNCHANGED <<parent, gone, role, grants, tokens, open, lost>>

(***************************************************************************)
(* Sign-in, and the second half of a request that commits twice.           *)
(***************************************************************************)
tables == <<parent, gone, role, account, grants>>

Login(w, u) ==
  /\ open[w] = Idle
  /\ u \in Known /\ account[u].status = "active"
  /\ open' = [open EXCEPT ![w] = [entry |-> Entry("login", u, u, Nothing), audited |-> FALSE]]
  /\ Writes
  /\ UNCHANGED <<tables, tokens, audit, lost>>

AuditCommit(w) ==
  /\ open[w] # Idle /\ ~open[w].audited
  /\ audit' = audit \union {open[w].entry}
  /\ open' = [open EXCEPT ![w].audited = TRUE]
  /\ UNCHANGED <<tables, writes, tokens, lost>>

AnswerEarly(w) == TRUE
AnswerDue(w) == open[w].audited
Answer(w) ==
  /\ open[w] # Idle /\ AnswerDue(w)
  /\ tokens' = tokens \union {u \in Users : open[w].entry = Entry("login", u, u, Nothing)}
  /\ open' = [open EXCEPT ![w] = Idle]
  /\ UNCHANGED <<tables, writes, audit, lost>>

\* The process dies, the client hangs up, or a statement or commit fails.
Lose(w) ==
  /\ open[w] # Idle
  /\ lost' = IF open[w].audited THEN lost ELSE lost \union {open[w].entry}
  /\ open' = [open EXCEPT ![w] = Idle]
  /\ UNCHANGED <<tables, writes, tokens, audit>>

\* An access token lives fifteen minutes; refresh answers 501.
Expire(u) ==
  /\ u \in tokens
  /\ tokens' = tokens \ {u}
  /\ UNCHANGED <<tables, writes, audit, open, lost>>

DepartmentNext ==
  \E by \in tokens, d \in Departments, p \in LiveDepartments \union {Nothing} :
    CreateDepartment(by, d, p) \/ UpdateDepartment(by, d, p)

RoleNext ==
  \E by \in tokens :
    \/ \E r \in Roles, perms \in PermissionSets :
         CreateRole(by, r, perms) \/ UpdateRole(by, r, perms)
    \/ \E r \in Roles : DeleteRole(by, r)
    \/ \E g \in [user: Known, role: LiveRoles, scope: GrantScopes] : AssignRole(by, g)
    \/ \E g \in grants : RevokeRole(by, g)

UserNext ==
  \E by \in tokens, u \in Users :
    \/ \E admin \in BOOLEAN, depts \in SUBSET LiveDepartments, roles \in SUBSET LiveRoles :
         CreateUser(by, u, admin, depts, roles)
    \/ \E w \in Workers, status \in Statuses \union {Nothing}, depts \in SUBSET LiveDepartments :
         UpdateUser(w, by, u, status, depts)
    \/ DeleteUser(by, u)

SessionNext ==
  \/ \E w \in Workers : AuditCommit(w) \/ Answer(w) \/ Lose(w)
  \/ \E w \in Workers, u \in Users : Login(w, u)
  \/ \E u \in tokens : Expire(u)
=============================================================================
