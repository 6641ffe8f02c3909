SPECIFICATION Spec
CONSTANTS
  MaxRows = 3
  Agents = {a1, a2}
  Branches = {main, noBranch}
  NoBranch = noBranch
  GlobalBranch = global
  Checkpoints = {c1, c2}
  None = none
  QuotaLimit = 1
  MaxSequence = 4
  Replacements <- MCReplacements
SYMMETRY Symmetry
CONSTRAINT FewChanged
INVARIANTS
  OneHeadPerLineage
  NoTwoSuccessors
  SuccessionFollowsLineage
  RecallIsNewest
  QuotaHeld
CHECK_DEADLOCK FALSE
