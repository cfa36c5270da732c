SPECIFICATION Spec
CONSTANTS
    FsyncMode = "EveryWrite"
    MaxTx = 1
    MaxIncidents = 1
    MaxBoot = 0
INVARIANTS AbortedLeaveNothing
CHECK_DEADLOCK FALSE
