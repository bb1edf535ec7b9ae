CONSTANTS
    Discovery = {1,2,3,4,5,6}
    Reducer = {11,12,13}
    Setup = {}
    MaxDiscoveryRuns = 3
    StopAfterNoNew = 2
    MaxGeneration = 3
    MaxAttempt = 1
    Workers = 2
    ErrorLimit = 1
    Incidents = {"crash"}
    MaxLost = 0
SPECIFICATION SystemSpec
INVARIANTS
    AdoptionRetainsResults
CHECK_DEADLOCK FALSE
