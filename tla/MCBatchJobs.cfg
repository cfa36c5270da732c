SPECIFICATION Spec
CONSTANTS
    x = x
    y = y
    Execs = {x, y}
    Calls = {c1, c2}
    Cancellers = {k}
    Deleters = {d}
    Arrivals = {{c1, k, d}, {c1, c2, k}}
    Jobs <- MCJobs
    MaxCrashes = 1
INVARIANTS OneExecutorRuns DependenciesFirst CompletedMeansLoaded IndexExact
PROPERTIES ExecutorsReturn
CHECK_DEADLOCK FALSE
