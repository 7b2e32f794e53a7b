SPECIFICATION Spec
CONSTANTS
  clerk = clerk
  boss = boss
  fin = fin
  s1 = s1
  s2 = s2
  Users <- MCUsers
  Role <- MCRole
  Members <- MCMembers
  NoUser = NoUser
  Spds = {s1, s2}
  Replicas = {r1}
  LegacyRows <- LegacyOne
  RLSEnforced = FALSE
  MaxFaults = 1
  FaultKinds = {"publish", "deliver", "crash"}
INVARIANT TypeOK
 
 
 
CHECK_DEADLOCK FALSE
