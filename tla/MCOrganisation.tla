---------------------------- MODULE MCOrganisation ----------------------------
(***************************************************************************)
(* A small instance of the organisation for TLC.                           *)
(***************************************************************************)
EXTENDS OrganisationProperties, TLC

CONSTANTS root, clerk,     \* users
          sys, custom,     \* roles
          amount, note     \* fields

MCFirstAccounts ==
  root :> [status |-> "active", admin |-> TRUE, depts |-> {}]
MCFirstRoles == sys :> {<<"manage", "user">>, <<"manage", "dataset">>, <<"write", "record">>}
MCReader == sys :> {<<"read", "dataset">>}
MCFirstGrants == {}
MCPermissionSets == {{}, {<<"manage", "role">>}}
MCGrantScopes == {FullScope} \union [dept: Departments, datasets: {Nothing}]
MCDatasetScopes == [dept: {Nothing}, datasets: {Datasets}]

Schema(t, u, required) ==
  [types |-> amount :> t @@ note :> u, required |-> required]
MCSchemas == {Schema("integer", "absent", {amount}), Schema("number", "absent", {amount}),
              Schema("string", "absent", {amount}),
              Schema("integer", "string", {amount, note}), Schema("any", "absent", {amount})}
MCPayloads == {amount :> "integer" @@ note :> "absent", amount :> "number" @@ note :> "absent"}

\* The handlers are alike.
Symmetry == Permutations(Workers)
=============================================================================
