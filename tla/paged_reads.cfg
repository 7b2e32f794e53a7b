SPECIFICATION PagingFairSpec
CONSTANTS
  old1 = old1
  old2 = old2
  old3 = old3
  today = today
  late = late
  new = new
  foreign = foreign
  Rows = {old1, old2, old3, today, late, new, foreign}
  Old = {old1, old2, old3, today, foreign}
  Stamp <- MCStamp
  Hidden = {foreign}
  Broken = {old2}
  MaxLimit = 3
  MaxOffset = 3
  Limits = {0, 1, 2, 9}
INVARIANT NothingSkipped
PROPERTY EndsUnlessOutgrown
CHECK_DEADLOCK FALSE
