SPECIFICATION StableSpec
CONSTANTS
  Users = {u1, u2, u3}
  manager = manager
  Roles = {manager}
  Tags = {t1}
  Payloads = {a, Empty}
  EmptyPayload = Empty
  NoPayload = NoPayload
  MaxSteps = 2
  Records = {r1, r2}
  Versions = {v1, v2}
  Workflows = {w1}
  AutoApprove = AutoApprove
  NoRecord = NoRecord
  NoUser = NoUser
  StepLists <- TwoStepLists
SYMMETRY Symmetry
CHECK_DEADLOCK FALSE
INVARIANTS EveryStepCountersigned
