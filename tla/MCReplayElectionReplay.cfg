SPECIFICATION Spec
CONSTANTS
    Coordinators = {n1, n2, n3}
    Candidates = {n1, n2, n3}
    MaxTerm = 1
    MaxRestarts = 0
SYMMETRY CoordinatorSymmetry
INVARIANTS OneReplayAtATime
