SPECIFICATION Spec
CONSTANTS
    Procs = {"p", "q"}
    Files = {1, 2}
    Plan <- SamePlan
    Target <- SameTarget
    Name <- MCName
    Final <- NoFinal
    Versions <- NoVersions
    Start = {"user"}
    Absent = "absent"
    Emptied = "emptied"
    Installed = "installed"
    Free = "free"
INVARIANT CommittedIsLeft
CHECK_DEADLOCK FALSE
