CONSTANTS
  k1 = k1
  k2 = k2
  t1 = t1
  t2 = t2
  Keys = {k1}
  Threads = {t1, t2}
  Stripes = {0}
  StripeOf <- Alone
  Gc = Gc
  Free = Free
  Absent = Absent
  NoExpiry = NoExpiry
  NoOp = NoOp
  Text = Text
  MinInt = 0
  MaxInt = 1
  WriteValues = {Text}
  Deltas = {1}
  Ttls = {0, 1}
  MaxBatch = 0
  MaxTime = 2
  Faults = {"crash", "io", "panic"}
  MaxFaults = 1
SYMMETRY ThreadSymmetry
SPECIFICATION Spec
INVARIANTS
  TypeOK
  LocksHeld
  ClockReadings
  NoLostIncrement
  ExpiringEntriesIndexed
PROPERTIES
  OnlyExpiredCollected
  MapSpec
