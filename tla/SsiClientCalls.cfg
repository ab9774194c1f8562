SPECIFICATION FairSpec
CONSTANTS
  c1 = c1
  c2 = c2
  c3 = c3
  k1 = k1
  Nil = Nil
  Callers = {c1, c2, c3}
  Keys = {k1}
  Ttl = 2
  MaxTime = 3
  MaxCancels = 1
INVARIANTS TypeOK OneCallerInSdk
PROPERTIES PromiseSpec CallsEnd
