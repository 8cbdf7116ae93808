SPECIFICATION Spec
CONSTANTS
  Users = {u1, u2}
  manager = manager
  Roles = {manager}
  Tags = {t1}
  Payloads = {a, Empty}
  EmptyPayload = Empty
  NoPayload = NoPayload
  MaxSteps = 2
  Records = {r1}
  Versions = {v1, v2}
  Workflows = {w1}
  AutoApprove = AutoApprove
  NoRecord = NoRecord
  NoUser = NoUser
  StepLists <- MixedLists
SYMMETRY Symmetry
CHECK_DEADLOCK FALSE
INVARIANTS TypeOK FourEyes
PROPERTIES DecisionIsFinal
