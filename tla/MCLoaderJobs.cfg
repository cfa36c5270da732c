SPECIFICATION Spec
CONSTANTS
    Files <- MCFiles
    BatchSize = 2
    Interval = 2
    MaxErrors = 2
    MaxRegistrations = 3
    MaxRegistering = 2
    MaxIncidents = 1
    MaxCrashes = 2
INVARIANTS RowsAccounted CheckpointTruthful ReloadedWereExposed RunningIsLive
PROPERTIES ImplementsLifecycle RunsEnd
CHECK_DEADLOCK FALSE
