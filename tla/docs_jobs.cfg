SPECIFICATION FairSpec
CONSTANTS
  Jobs = {j1, j2}
  Buildable = {j1}
  Replicas = {r1, r2}
  MaxFaults = 3
  FaultKinds = {"publish", "deliver", "crash", "connect", "job"}
INVARIANT RowsHaveObjects
INVARIANT NoLostJob
PROPERTY EventuallyGenerated
CHECK_DEADLOCK FALSE
