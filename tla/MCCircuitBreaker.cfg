SPECIFICATION FairSpec
CONSTANTS
    Callers = {c1, c2, c3, c4}
    FailureThreshold = 2
    SuccessThreshold = 3
    HalfOpenMaxRequests = 2
INVARIANTS TypeOK NoSlotLeak FailureCountBounded
PROPERTIES RecoversWhenBrokerDoes
