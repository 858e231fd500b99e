\* Headers sealed on three networks and every list of up to eight items.
SPECIFICATION HeaderSpec
CONSTANTS
  Absent = Absent
  Never = Never
  Networks <- MCNetworks
  MaxTime = 2
INVARIANTS
  TypeOK
  HashKept
