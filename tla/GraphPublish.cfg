SPECIFICATION Spec
CONSTANTS
    Projects = {"app", "lib"}
    Builders = {b1, b2}
    Files = {1, 2, 3, 4, 5}
    Commits = {1, 2, 3}
    CommitTime <- MCTime
    Tree <- MCTree
    Records = {"note"}
    Citation <- MCCitation
    MaxMoves = 1
    MaxGenerations = 4
INVARIANTS HeadOrder ReferencesResolved AsOfLatest EvidenceCurrent
SYMMETRY Symmetry
CHECK_DEADLOCK FALSE
