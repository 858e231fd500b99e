SPECIFICATION Spec
CONSTANTS
  Never = Never
  None = None
  k1 = k1
  k2 = k2
  deposit = deposit
  transfer = transfer
  Pubkey = {k1}
  UserTx = {deposit, transfer}
  TxGasLimit <- MCTxGasLimit
  TxGasUsed <- MCTxGasUsed
  TxLog <- MCTxLog
  GasLimit = 4
  Elasticity = 2
  LondonDenominator = 2
  Prague1Denominator = 4
  Prague1MinimumBaseFee = 3
  Prague2MinimumBaseFee = 1
  Osaka1MinimumBaseFee = 2
  Schedules <- MCSchedules
  PolOutcomes <- MCPolOutcomes
  GenesisBaseFee = 2
  MaxBlocks = 2
  MaxPayloads = 2
  MaxTime = 3
  PeerBlocks <- OtherProposer
CHECK_DEADLOCK FALSE
INVARIANTS SendersAligned NoReplay
PROPERTIES OwnPayloadsAccepted
