\* A job over a pool of up to five transactions of three senders.
SPECIFICATION Spec
CONSTANTS
  None = None
  alice = alice
  bob = bob
  carol = carol
  a0 = a0
  a1 = a1
  b0 = b0
  b1 = b1
  c0 = c0
  Tx = {a0, a1, b0, b1, c0}
  Sender = {alice, bob, carol}
  Info <- MCInfo
  StateNonce <- MCStateNonce
  BlockGasLimit = 4
  ProtocolMaxBlobs = 3
  MaxRlpBlockSize = 8
  SizeSlack = 2
  Overhead = 2
  WithdrawalsSize = 1
  Networks <- MCNetworks
  MaxAttempts = 2
INVARIANTS
  TypeOK
  LimitsNotFatal
  BlobsAccounted
  NothingLeftOut
PROPERTIES
  
  PayloadsImprove
CHECK_DEADLOCK FALSE
