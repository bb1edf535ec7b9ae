CONSTANTS
    Server = {s1, s2}
    Caller = {c1, c2}
    MaxGeneration = 4
    MaxCoordinators = 4
SPECIFICATION ServerSpec
INVARIANT ReplacedDoNotDecide
CHECK_DEADLOCK FALSE
