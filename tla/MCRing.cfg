SPECIFICATION MCSpec
CONSTANTS
    Shards = {1, 2, 3}
    MaxVNodes = 1
    Place <- MCPlace
    Retry <- MCRetry
    Keys <- MCKeys
    Replicas = {1, 2}
    Migrations = {1, 2}
    LocalTime <- MCLocalTime
    Commands <- MCCommands
    Bootstrap <- MCBootstrap
    MaxCommands = 7
    MaxLag = 1
    MaxRestarts = 1
    MaxDiscards = 1
INVARIANTS RoutedAreKnown NodesListed ReplicasOK ReplicasAgree RingMirror
PROPERTIES KeysStay VersionCoversChanges
CHECK_DEADLOCK FALSE
