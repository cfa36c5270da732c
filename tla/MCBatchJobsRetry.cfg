SPECIFICATION Spec
CONSTANTS
    x = x
    y = y
    Execs = {x, y}
    Calls = {c1}
    Cancellers = {}
    Deleters = {}
    Arrivals = {{c1}}
    Jobs <- MCJobs
    MaxCrashes = 0
PROPERTIES RetriesRun
CHECK_DEADLOCK FALSE
