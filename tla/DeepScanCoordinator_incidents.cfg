SPECIFICATION MCSpec
INVARIANTS
    CoordinatorsAreSound
    ServersAreSound
PROPERTIES
    SuccessIsReported
CHECK_DEADLOCK FALSE
