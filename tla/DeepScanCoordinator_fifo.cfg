CONSTANTS
    Discovery = {1,2,3}
    Reducer = {11,12}
    Setup = {}
    MaxDiscoveryRuns = 3
    StopAfterNoNew = 2
    MaxGeneration = 2
    MaxAttempt = 1
    Workers = 2
    ErrorLimit = 2
    Incidents = {}
    MaxLost = 1
SPECIFICATION SystemSpec
INVARIANTS
    FifoIsCompletionOrder
CHECK_DEADLOCK FALSE
