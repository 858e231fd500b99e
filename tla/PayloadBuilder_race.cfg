\* A fetch before the first payload, with an attempt of its own.
SPECIFICATION FairSpec
CONSTANTS
  None = None
  alice = alice
  bob = bob
  carol = carol
  a0 = a0
  a1 = a1
  b0 = b0
  b1 = b1
  c0 = c0
  Tx = {a1, b0, b1, c0}
  Sender = {alice, bob, carol}
  Info <- OddInfo
  StateNonce <- MCStateNonce
  BlockGasLimit = 4
  ProtocolMaxBlobs = 3
  MaxRlpBlockSize = 8
  SizeSlack = 2
  Overhead = 2
  WithdrawalsSize = 1
  Networks <- RacingNetworks
  MaxAttempts = 1
PROPERTIES
  FetchAnswered
CHECK_DEADLOCK FALSE
