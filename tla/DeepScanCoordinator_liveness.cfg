CONSTANTS
    Discovery = {1,2,3,4}
    Reducer = {11,12,13,14}
    Setup = {}
    MaxDiscoveryRuns = 2
    StopAfterNoNew = 1
    MaxGeneration = 3
    MaxAttempt = 1
    Workers = 2
    ErrorLimit = 2
    Incidents = {"crash", "shutdown"}
    MaxLost = 0
SPECIFICATION MCSpec
INVARIANTS
    LimitsAreKept
PROPERTIES
    CallsAreAnswered
    CoordinatorsEnd
    RunEnds
CHECK_DEADLOCK FALSE
