\* Any client, on three networks, with times up to 2.
SPECIFICATION Spec
CONSTANTS
  None = None
  Never = Never
  k0 = k0
  k1 = k1
  r0 = r0
  r1 = r1
  Key = {k0, k1}
  ZeroKey = k0
  Requests = {r0, r1}
  NoRequests = r0
  AcceptHash = FALSE
  Networks <- MCNetworks
  MaxTime = 2
  MaxBlocks = 1
  MaxJobs = 1
INVARIANTS
  TypeOK
  KeysMatchFork
  JobsBuildable
  PayloadsAsAsked
  RightCallsServed
