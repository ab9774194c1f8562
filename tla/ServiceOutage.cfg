SPECIFICATION FairSpec
CONSTANTS
  Calls = {c1, c2, c3}
  NoCall = NoCall
  Clients = {"data"}
  PoolSize = 2
  Threads = 3
  MaxOrphans = 1
INVARIANTS TypeOK ThreadsForReports ConnectionsNeeded NothingLost
PROPERTIES OutageContained EveryCallEnds
