\* Every schedule over three times, loaded by one node.
SPECIFICATION Spec
CONSTANTS
  Never = Never
  n1 = n1
  n2 = n2
  Node = {n1}
  InitialFiles <- EveryFile
  Releases <- NoRelease
  MaxTime = 2
INVARIANTS
  TypeOK
  AcceptanceExact
CHECK_DEADLOCK FALSE
