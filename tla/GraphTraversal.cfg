SPECIFICATION SpecWalk
CONSTANTS
    Nodes = {1, 2, 3, 4}
    ProjectOf <- MCProjectOf
    Worlds <- MCWorlds
    Requests <- MCRequests
INVARIANTS PathsAuthorized BestPaths
CHECK_DEADLOCK FALSE
