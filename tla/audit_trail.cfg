SPECIFICATION FairSpec
CONSTANTS
  make = make
  grab = grab
  peek = peek
  view = view
  sealed = sealed
  Requests <- MCRequests
  Action <- MCAction
  Manager <- MCManager
  Imported = {sealed}
  Sealed = {sealed}
  NoBudget = NoBudget
  Servers = {s1}
  Auditors = {a1, a2}
  MaxFaults = 1
  FaultKinds = {"publish", "deliver", "server", "connect", "auditor"}
INVARIANT LogTruthful
INVARIANT NoLostAudit
PROPERTY EventuallyLogged
CHECK_DEADLOCK FALSE
