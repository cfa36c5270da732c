SPECIFICATION FairSpec
CONSTANTS
    Senders = {s1}
    Replayer = r
    Events = {e1, e2}
    MaxPending = 1
    MaxAttempts = 1
    FailureThreshold = 1
    SuccessThreshold = 1
    HalfOpenMaxRequests = 1
    MaxLsn = 3
    MaxReplays = 1
    MaxBoot = 1
INVARIANTS TypeOK NothingForgotten AcknowledgedDelivered
PROPERTIES CallsReturn
CHECK_DEADLOCK FALSE
