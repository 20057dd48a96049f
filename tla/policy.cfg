SPECIFICATION Spec
CONSTANTS
  h1 = h1  h2 = h2
  admin = admin  writer = writer
  s1 = s1  s2 = s2
  x = x  y = y
  None = None
  NoBucket = NoBucket
  NoRequest = NoRequest
  Empty = Empty
  Undecodable = Undecodable
  Secrets = {admin, writer}
  SigningKeys = {s1, s2}
  Letters = {x, y}
  Handlers = {h1, h2}
  Writers = {h1}
  Ttls = {0, 1}
  DefaultTtl = 2
  Forms <- MCForms
  Patches <- AllPatches
  Grants <- MCGrants
  Txns <- MCTxns
  MaxTime = 1
  MaxTokens = 1
  MaxGeneration = 2
INVARIANT TypeOK
INVARIANT AnonymousMatrix
INVARIANT RevokedStaysRevoked
INVARIANT AdmittedWhileEntitled
 
PROPERTY SecretStays
CHECK_DEADLOCK FALSE
