SPECIFICATION Spec
CONSTANTS
  Never = Never
  None = None
  k0 = k0
  k1 = k1
  blobs = blobs
  more = more
  plain = plain
  usual = usual
  other = other
  tracer = tracer
  Pubkey = {k0, k1}
  ZeroKey = k0
  UserTx = {blobs, more, plain}
  TxGasLimit <- MCTxGasLimit
  TxGasUsed <- MCTxGasUsed
  TxLog <- MCTxLog
  TxBlobs <- MCTxBlobs
  ForkBlobs <- MCForkBlobs
  Osaka1MinimumBlobFee = 5
  PolGas = 7
  OtherAttributes = {usual, other}
  PendingChoice = usual
  BlockTime = 1
  Inspector = {tracer}
  Schedules <- MCSchedules
  PolOutcomes <- MCPolOutcomes
  Bodies <- MCBodies
  GasLimit = 4
  Elasticity = 2
  LondonDenominator = 2
  Prague1Denominator = 4
  Prague1MinimumBaseFee = 3
  Prague2MinimumBaseFee = 1
  Osaka1MinimumBaseFee = 2
  GenesisBaseFee = 2
  MaxBlocks = 3
  MaxTime = 3
CHECK_DEADLOCK FALSE
INVARIANTS SameExecution PendingKeyed ReadersTold
