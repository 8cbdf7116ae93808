----------------------------- MODULE Permissions -----------------------------
(***************************************************************************)
(* PermissionService and require_perm: what a user may do, as operators on *)
(* the user object with its roles loaded.                                  *)
(*                                                                         *)
(* A user is [admin, depts, roles], roles a set of [perms, name, scope]:   *)
(* a UserRole with its Role and permissions.  The order in which a user's  *)
(* roles are loaded is not specified, so what depends on it is a set of    *)
(* outcomes.                                                               *)
(***************************************************************************)

CONSTANTS
  Departments,
  Datasets,
  Nothing        \* Python's None, or a key that a scope does not have

ASSUME NothingAssumption == Nothing \notin Departments \union Datasets

Sensitivities == {"public", "internal", "confidential", "restricted"}

Scopes == [dept: Departments \union {Nothing},
           datasets: (SUBSET Datasets) \union {Nothing}]
FullScope == [dept |-> Nothing, datasets |-> Nothing]

Resources == [dept: Departments \union {Nothing}, dataset: Datasets \union {Nothing}]

ASSUME ResourceAssumption == Nothing \notin Resources

Holds(role, action, type) == <<action, type>> \in role.perms

\* deps.require_perm looks at the permissions alone, not at their scope.
RequirePerm(user, action, type) ==
  user.admin \/ \E role \in user.roles : Holds(role, action, type)

\* _scope_matches.  The ids it compares come from the database as UUID
\* objects, and UUID(<UUID>) raises AttributeError: a constraint that gets
\* as far as comparing the resource's own id matches nothing and excludes
\* nothing, it fails.
ScopeOutcome(user, scope, obj) ==
  IF scope = FullScope \/ obj = Nothing THEN "match"
  ELSE IF scope.dept # Nothing /\ scope.dept \notin user.depts THEN "miss"
  ELSE IF scope.dept # Nothing /\ obj.dept # Nothing THEN "raise"
  ELSE IF scope.datasets = Nothing THEN "match"
  ELSE IF obj.dataset = Nothing THEN "miss" ELSE "raise"

\* check() returns at the first role that matches; a role that raises before
\* it decides otherwise.
CheckOutcomes(user, action, type, obj) ==
  LET found == {ScopeOutcome(user, role.scope, obj) :
                  role \in {r \in user.roles : Holds(r, action, type)}}
  IN  IF user.admin THEN {"match"}
      ELSE IF found \subseteq {"miss"} THEN {"miss"} ELSE found \ {"miss"}

Unlimited(user) == user.admin \/ \E role \in user.roles : role.scope = FullScope

\* The empty list says "all" by its docstring.
AccessibleDatasets(user) ==
  IF Unlimited(user) THEN {}
  ELSE UNION {role.scope.datasets :
                role \in {r \in user.roles : r.scope.datasets # Nothing}}

AccessibleDepartments(user) ==
  LET named == {role.scope.dept : role \in user.roles} \ {Nothing}
  IN  IF Unlimited(user) THEN {}
      ELSE IF named = {} THEN user.depts ELSE named

AllowedSensitivities(user) ==
  LET names == {role.name : role \in user.roles}
  IN  IF user.admin \/ "dataset_admin" \in names THEN Sensitivities
      ELSE IF names \intersect {"editor", "viewer", "ai_user", "approver"} # {}
           THEN {"public", "internal"} ELSE {"public"}
=============================================================================
