SPECIFICATION SpecAdapters
CONSTANTS
    A = A
    B = B
    h1 = h1
    h2 = h2
    Groups <- MCGroups
    Projects <- MCProjects
    Settings = {"stdio"}
    Homes <- MCHomes
    Texts = {"text"}
    Found = {"missing", "empty"}
    MaxChanges = 2
SYMMETRY Symmetry
INVARIANTS ConsumersMatch DisconnectLeavesNothing VerifiedIsRemovable
PROPERTY UserPartKept
CONSTRAINT FewChanges
CHECK_DEADLOCK FALSE
