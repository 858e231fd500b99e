\* One transaction of every type, three blocks, reorgs and restarts.
SPECIFICATION Spec
CONSTANTS
  None = None
  legacy = legacy
  dynamic = dynamic
  blob = blob
  setcode = setcode
  listed = listed
  User = {legacy, dynamic, blob, setcode, listed}
  TypeOf <- MCTypeOf
  FirstPoL = 2
  MaxNumber = 3
  MaxPerBlock = 2
INVARIANTS
  BlocksUnaltered
  PoolServable
PROPERTIES
  ReorgReturns
