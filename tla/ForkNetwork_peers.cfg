\* Two nodes through releases, restarts, forks and reorganisations.
SPECIFICATION Spec
CONSTANTS
  Never = Never
  n1 = n1
  n2 = n2
  Node = {n1, n2}
  InitialFiles <- NetworkFiles
  Releases <- AnyRelease
  MaxTime = 5
INVARIANTS
  StatusCurrent
  PeersAgree
  ConfigAgrees
