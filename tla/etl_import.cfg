SPECIFICATION Spec
CONSTANTS
  Order <- MCOrder
  Legacy <- MCLegacy
  Seed <- AdminSeed
  Seeded = TRUE
  LiveTables = {"spds", "approvals"}
  Keys = {"k1", "k2", "k3"}
  MaxId = 3
  MaxRuns = 2
INVARIANT LegacyKept
INVARIANT RefsIntact
INVARIANT IdsFree
INVARIANT RerunIdle
CHECK_DEADLOCK FALSE
