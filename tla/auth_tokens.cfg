SPECIFICATION Spec
CONSTANTS
  NoToken = NoToken
  Tokens = {t1, t2, t3, t4, t5}
  Requests = {q1, q2}
  MaxFaults = 2
  FaultKinds = {"refresh", "answer", "logout"}
SYMMETRY Symmetry
INVARIANT ParentDead
INVARIANT OneLive
 
INVARIANT SessionGoesOn
PROPERTY RevokedForeverAlways
PROPERTY SessionsEnd
CHECK_DEADLOCK FALSE
