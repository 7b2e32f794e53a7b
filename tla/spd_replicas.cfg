SPECIFICATION FairSpec
CONSTANTS
  clerk = clerk
  boss = boss
  fin = fin
  s1 = s1
  s2 = s2
  Users <- MCUsers
  Role <- MCRole
  Members <- MCMembers
  NoUser = NoUser
  Spds = {s1, s2}
  Replicas = {r1, r2}
  LegacyRows <- LegacySteps
  RLSEnforced = TRUE
  MaxFaults = 1
  FaultKinds = {"deliver", "crash"}
INVARIANT LocksExclusive
INVARIANT StatusBacked
INVARIANT OneRowPerReplica
INVARIANT NoStuckSpd
PROPERTY RowsImmutableAlways
 
PROPERTY EventuallyQueued
CHECK_DEADLOCK FALSE
