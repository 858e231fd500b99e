\* Two tasks with batches while heads, reorgs included, arrive around two forks.
SPECIFICATION Spec
CONSTANTS
  None = None
  Never = Never
  alice = alice
  lena = lena
  legacy = legacy
  dynamic = dynamic
  own = own
  w1 = w1
  w2 = w2
  Task = {w1, w2}
  Tx = {legacy, dynamic, own}
  Info <- MCInfo
  Sender = {alice, lena}
  LocalSender = {lena}
  NoExemptions = FALSE
  MinimumPriorityFee = 1
  Schedules <- MCSchedules
  GasLimit = 4
  Elasticity = 2
  LondonDenominator = 2
  Prague1Denominator = 4
  Prague1MinimumBaseFee = 3
  Prague2MinimumBaseFee = 1
  Osaka1MinimumBaseFee = 4
  GenesisBaseFee = 2
  Batches <- MCBatches
  MaxTime = 2
  MaxHeight = 2
  MaxLag = 2
SYMMETRY Workers
INVARIANTS
  TypeOK
  FeesAgree
  OutcomesInOrder
  JudgedByCurrentFee
  NoFreeRiders
CHECK_DEADLOCK FALSE
