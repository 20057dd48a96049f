SPECIFICATION Spec
CONSTANTS
  Keys <- MCKeys
  Absent = Absent
  Bad = Bad
  MinInt <- MinusEight
  MaxInt = 6
  FloatExact = 2
  MaxFloat = 12
  Bodies <- MCBodies
  ContentTypes <- MCContentTypes
  Ttls <- MCTtls
  DefaultTtls <- MCDefaultTtls
  MaxTtl = 2
  MaxInstant = 2
  Ticks = 2
  Radix = 4
  Separator = 2
  Start <- MinusThree
  End = 3
INVARIANTS
  TypeOK
  KindsReadBack
  CountersFaithful
  
PROPERTY SweepExact
