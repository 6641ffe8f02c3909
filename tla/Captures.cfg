SPECIFICATION Spec
CONSTANTS
  a = a
  k = k
  s = s
  b1 = b1
  b2 = b2
  MaxRows = 3
  Processes = {p1, p2}
  Agents = {a}
  Keys = {k}
  Subjects = {s}
  Bodies = {b1, b2}
  Kinds = {"working", "inference"}
  Inputs <- MCInputs
  None = none
  QuotaLimit = 1
SYMMETRY Symmetry
CONSTRAINT Small
INVARIANTS
  NoDuplicateContent
  OverrunIsBounded
PROPERTIES
  KeysAreStable
  SeenConflictIsHeld
CHECK_DEADLOCK FALSE
