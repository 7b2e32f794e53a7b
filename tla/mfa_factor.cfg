SPECIFICATION MfaSpec
CONSTANTS
  NoSecret = NoSecret
  Secrets = {x1, x2, x3}
  Calls = {q1, q2}
 
INVARIANT EnabledVerified
PROPERTY LockoutIsPermanentAlways
CHECK_DEADLOCK FALSE
