SPECIFICATION Spec
CONSTANTS
  root = root
  clerk = clerk
  sys = sys
  custom = custom
  amount = amount
  note = note
  Nothing = Nothing
  Idle = Idle
  Departments = {d1, d2}
  Datasets = {ds}
  Users = {root, clerk}
  Roles = {sys, custom}
  SystemRoles = {sys}
  Workers = {w1, w2}
  Fields = {amount, note}
  Records = {r1}
  MaxWrites = 5
  FirstAccounts <- MCFirstAccounts
  FirstRoles <- MCFirstRoles
  FirstGrants <- MCFirstGrants
  PermissionSets <- MCPermissionSets
  GrantScopes <- MCGrantScopes
  OfferedSchemas <- MCSchemas
  OfferedPayloads <- MCPayloads
SYMMETRY Symmetry
CHECK_DEADLOCK FALSE
INVARIANTS TypeOK RefersToLive DanglingScopeInert AnsweredAudited MatchedWhenSubmitted UnforcedWidens
PROPERTIES OnlyThreeGaps ImplementsAuditTrail
