SPECIFICATION FairSpec
CONSTANTS
  MaxReports = 10
  PageSize = 3
  MaxPages = 3
  Malformed = {4}
  MaxWithdrawn = 1
INVARIANTS TypeOK YieldedOnce Complete
PROPERTY EventuallyKnown
