SPECIFICATION Spec
CONSTANTS
    Files <- MCWholeFile
    BatchSize = 2
    Interval = 2
    MaxErrors = 2
    MaxRegistrations = 3
    MaxRegistering = 1
    MaxIncidents = 1
    MaxCrashes = 2
INVARIANTS NoRowLost
CHECK_DEADLOCK FALSE
