\* A genesis file whose Osaka1 floor is below Prague2's is accepted.
SPECIFICATION Spec
CONSTANTS
  Never = Never
  n1 = n1
  n2 = n2
  Node = {n1}
  InitialFiles <- LowFloor
  Releases <- NoRelease
  MaxTime = 5
INVARIANTS
  Osaka1RaisesFloor
