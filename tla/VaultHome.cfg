SPECIFICATION Spec
CONSTANTS
    Processes = {p1, p2, p3}
    Roots = {"/a/app", "/b/app"}
    Ids = {"app", "app-1", "app-2"}
    Candidates <- MCCandidates
    Links = {l1, l2}
    NoHolder = NoHolder
INVARIANTS TableFollowsFile Restartable
PROPERTIES RegistrationsKept MemoriesKept CommittedIsUsable
SYMMETRY Symmetry
CHECK_DEADLOCK FALSE
