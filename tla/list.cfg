SPECIFICATION Spec
CONSTANTS
  Colon = 1
  Bucket <- MCBucket
  Buckets <- MCBuckets
  UserKeys <- MCUserKeys
  AskedPrefixes <- MCPrefixes
  Scopes <- MCScopes
  Limits = {0, 1, 2, 9}
  Skips = {0, 1, 2}
  MaxUsize = 9
  MaxCapacity = 8
  None = None
  ReadError = ReadError
  Panicked = Panicked
INVARIANT AnswersPromised
INVARIANT WindowBounded
CHECK_DEADLOCK FALSE
