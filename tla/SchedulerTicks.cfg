SPECIFICATION FairSpec
CONSTANTS
  Types = {t1, t2}
  Backlog = 3
  Published = 1
  BatchSize = 2
  MaxListing = 1
  MaxCost = 2
  Timeout = 6
  MaxFailures = 2
INVARIANTS TypeOK UsesOpenEngine
PROPERTIES NothingAfterStop EachRunGains BacklogSettles
CHECK_DEADLOCK FALSE
