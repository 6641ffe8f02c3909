SPECIFICATION LiveSpec
CONSTANTS
  Procs = {p1, p2, p3}
  Nobody = nobody
  Records = {r1, r2}
  MaxRevision = 2
  MaxFailures = 1
INVARIANTS
  OutboxIsCurrent
  AckedIsPublished
PROPERTY ImplementsStore
