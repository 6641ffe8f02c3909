SPECIFICATION Spec
CONSTANTS
    Procs = {"p", "q"}
    Files = {1, 2}
    Plan <- ApartPlan
    Target <- SameTarget
    Name <- OneName
    Final <- NoFinal
    Versions <- NoVersions
    Start = {"user"}
    Absent = "absent"
    Emptied = "emptied"
    Installed = "installed"
    Free = "free"
INVARIANT BackupNeverLost
CHECK_DEADLOCK FALSE
