SPECIFICATION Spec
CONSTANTS
    Coordinators = {n1, n2, n3}
    Candidates = {n1, n2}
    MaxTerm = 2
    MaxRestarts = 2
SYMMETRY CoordinatorSymmetry
INVARIANTS TypeOK LeadersShareAVoter LeaderVotesGenuine
PROPERTIES ElectionTermsIncrease
CHECK_DEADLOCK FALSE
