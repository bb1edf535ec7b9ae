CONSTANTS
    Discovery = {d1, d2, d3}
    Reducer = {r1, r2}
    Setup = {s1}
    MaxDiscoveryRuns = 2
    StopAfterNoNew = 2
    MaxGeneration = 4
    MaxAttempt = 2
SYMMETRY Symmetry
SPECIFICATION InstanceSpec
INVARIANTS
    TypeOK
    MergeStateFollowsReducers
    OneReducer
    StreaksCountOnce
    StoppedIsIdle
    ParentAgrees
    SuccessAccountsForAll
    DispatchBudget
    CompletionOrder
PROPERTIES
    NothingIsUndone
    ImplementsRun
CHECK_DEADLOCK FALSE
