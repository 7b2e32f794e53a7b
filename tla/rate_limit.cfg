SPECIFICATION FairSpec
CONSTANTS
  Clients = {c1}
  Replicas = {r1, r2}
  Redis = Redis
  MaxHits = 2
  Window = 3
  Burst = 5
  MaxOutages = 1
  MaxRestarts = 1
INVARIANT RateBounded
PROPERTY NotLockedOut
