SPECIFICATION StableSpec
CONSTANTS
  Users = {u1, u2}
  manager = manager
  Roles = {manager}
  Tags = {t1}
  Payloads = {a, b, Empty}
  EmptyPayload = Empty
  NoPayload = NoPayload
  MaxSteps = 2
  Records = {r1, r2}
  Versions = {v1, v2, v3, v4}
  Workflows = {w1}
  AutoApprove = AutoApprove
  NoRecord = NoRecord
  NoUser = NoUser
  StepLists <- SmallLists
SYMMETRY Symmetry
CHECK_DEADLOCK FALSE
INVARIANTS SerialHistory RecordIsLastWrite
PROPERTIES ImplementsHistory AppliedAsReviewed NoLostUpdate
