CONSTANTS
  c1 = c1
  c2 = c2
  c3 = c3
  Containers <- ThreeContainers
SYMMETRY Alike
SPECIFICATION Spec
CHECK_DEADLOCK FALSE
INVARIANTS
  TypeOK
  ClosedRemoved
  ClosedQuiet
PROPERTY
  CleanContainer
