SPECIFICATION Spec
CONSTANTS
  w1 = w1
  w2 = w2
  r1 = r1
  r2 = r2
  r3 = r3
  t1 = t1
  t2 = t2
  c1 = c1
  c2 = c2
  Nil = Nil
  Scheduler = w1
  Workers = {w1, w2}
  Reports = {r1, r2, r3}
  Types = {t1}
  Contents = {c1, c2}
  Listed <- MCListedOne
  Serves <- MCServes
  PublishedAt <- MCPublishedAt
  Invocations <- MCBackfill
  MaxRetries = 2
  BatchSize = 2
  MaxFaults = 1
INVARIANTS TypeOK RowsCoherent DuplicateHasOriginal ExtractionMatches LocksReleased WorkedOnOnce WaitsForListing CopiesBounded
PROPERTIES LifecycleSpec
