CONSTANTS
  k1 = k1
  k2 = k2
  t1 = t1
  t2 = t2
  Keys = {k1}
  Threads = {t1}
  Stripes = {0}
  StripeOf <- Alone
  Gc = Gc
  Free = Free
  Absent = Absent
  NoExpiry = NoExpiry
  NoOp = NoOp
  Text = Text
  MinInt = 0
  MaxInt = 1
  WriteValues = {0}
  Deltas = {}
  Ttls = {1}
  MaxBatch = 0
  MaxTime = 1
  Faults = {"crash"}
  MaxFaults = 1
SPECIFICATION FairSpec
PROPERTIES
  ExpiredEventuallyCollected
