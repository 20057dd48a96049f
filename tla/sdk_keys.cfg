CONSTANTS
  c1 = c1
  c2 = c2
  t1 = t1
  t2 = t2
  Calls = {c1, c2}
  Threads = {t1}
  Names <- EscapedNames
  Keys <- EscapedKeys
  RetryLimit = 0
  NoCall = NoCall
  Nobody = Nobody
  Pending = Pending
  Absent = Absent
  NoExpiry = NoExpiry
  NoOp = NoOp
  Text = Text
  MinInt = 0
  MaxInt = 1
  WriteValues = {0}
  Deltas = {0, 1}
  Ttls = {0}
  MaxBatch = 1
SPECIFICATION Spec
CHECK_DEADLOCK FALSE
INVARIANTS
  ReadTruthful
