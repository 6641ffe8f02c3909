SPECIFICATION Spec
CONSTANTS
    Procs = {"p", "q"}
    Files = {1, 2}
    Plan <- MCPlan
    Target <- MCTarget
    Name <- MCName
    Final <- MCFinal
    Versions <- MCVersions
    Start = {"user"}
    Absent = "absent"
    Emptied = "emptied"
    Installed = "installed"
    Free = "free"
INVARIANTS NoSilentLoss CleanFailure BackupKept NoHalfInstall
PROPERTY BatchEnds
CHECK_DEADLOCK FALSE
