CONSTANTS
  k1 = k1
  k2 = k2
  t1 = t1
  t2 = t2
  Keys = {k1, k2}
  Threads = {t1}
  Stripes = {0, 1}
  StripeOf <- Apart
  Gc = Gc
  Free = Free
  Absent = Absent
  NoExpiry = NoExpiry
  NoOp = NoOp
  Text = Text
  MinInt = 0
  MaxInt = 1
  WriteValues = {0}
  Deltas = {}
  Ttls = {1}
  MaxBatch = 2
  MaxTime = 1
  Faults = {}
  MaxFaults = 0
SPECIFICATION FairSpec
INVARIANTS
  ExpiringEntriesIndexed
PROPERTIES
  MapSpec
  ExpiredEventuallyCollected
  IndexEventuallyDrained
