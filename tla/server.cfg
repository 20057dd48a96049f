SPECIFICATION FairSpec
CONSTANTS
  a = a  b = b  d = d
  k1 = k1  k2 = k2
  Unset = Unset
  Values = {a, b, d}
  Blank = Blank
  Garbage = Garbage
  NotUnicode = NotUnicode
  Off = Off
  Secrets = {k1, k2}
  Placeholder = Placeholder
  Malformed = Malformed
  Defaults <- MCDefaults
  Clients = {1, 2}
  Gc = 0
  PoolSize = 1
  Inits = {1, 2}
  InitKey <- MCInitKey
  InstanceDir = a
  StartFiles <- MCStartFiles
  ServeLines <- MCServeLines
  InitLines <- MCInitLines
  Hosts <- MCHosts
  MaxFaults = 1
INVARIANT TypeOK
INVARIANT ConfigWhole
 
INVARIANT ReadinessTruthful
PROPERTY ConfigPrecedence
 
PROPERTY ShutdownCompletes
