CONSTANTS
    Workers = {w1, w2}
    Requests = {q1}
    NoRun = NoRun
    MAX_ATTEMPTS = 2
    MaxRuns = 2
    MaxCrashes = 1
    MaxMisses = 1
SPECIFICATION FairSpec
INVARIANTS
    ExecutionsBounded
    OneExecutor
PROPERTIES
    EndIsFinal
    RunsEnd
CHECK_DEADLOCK FALSE
