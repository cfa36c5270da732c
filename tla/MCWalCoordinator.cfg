SPECIFICATION FairSpec
CONSTANTS
    FsyncMode = "EveryWrite"
    MaxTx = 2
    MaxIncidents = 1
    MaxBoot = 1
INVARIANTS TypeOK WriteAhead CommitAfterPrepare AbortIsFinal
PROPERTIES TransactionsEnd
CHECK_DEADLOCK FALSE
