SPECIFICATION FairSpec
CONSTANTS
  Never = Never
  None = None
  k1 = k1
  k2 = k2
  deposit = deposit
  transfer = transfer
  Pubkey = {k1, k2}
  UserTx = {deposit, transfer}
  TxGasLimit <- MCTxGasLimit
  TxGasUsed <- MCTxGasUsed
  TxLog <- MCTxLog
  GasLimit = 4
  Elasticity = 2
  LondonDenominator = 2
  Prague1Denominator = 4
  Prague1MinimumBaseFee = 3
  Prague2MinimumBaseFee = 1
  Osaka1MinimumBaseFee = 2
  Schedules <- MCSchedules
  PolOutcomes <- MCPolOutcomes
  GenesisBaseFee = 2
  MaxBlocks = 1
  MaxPayloads = 0
  MaxTime = 3
  PeerBlocks <- MCPeerBlocks
CHECK_DEADLOCK FALSE
INVARIANTS TypeOK  GasAccounted  DepositsRequestedOnce
PROPERTIES  ImportsDecided
