SPECIFICATION Spec
CONSTANTS
  clerk = clerk
  boss = boss
  fin = fin
  s1 = s1
  s2 = s2
  Users <- MCUsers
  Role <- MCRole
  Members <- MCMembers
  NoUser = NoUser
  Spds = {s1, s2}
  Replicas = {r1, r2}
  LegacyRows <- LegacyNone
  RLSEnforced = FALSE
  MaxFaults = 0
  FaultKinds = {}
PROPERTY DecisionFinalAlways
CHECK_DEADLOCK FALSE
