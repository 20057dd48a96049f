CONSTANTS
  k1 = k1
  k2 = k2
  Keys = {k1}
  Absent = Absent
  NoExpiry = NoExpiry
  NoOp = NoOp
  Text = Text
  NotFound = NotFound
  NoKey = NoKey
  MinInt = 0
  MaxInt = 1
  WriteValues = {0}
  Deltas = {1}
  Ttls = {0, 1}
  MaxBatch = 0
  MaxTime = 3
  Threads = {t1}
  Readers = {r1}
SPECIFICATION Spec
PROPERTIES
  GetServesLive
  ListBetween
