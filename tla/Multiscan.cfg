CONSTANTS
    Supervisor = {p1, p2, p3}
    Legacy = Legacy
    None = None
    Task = {t1, t2}
    Worker = {w1, w2}
    Config = {c1, c2}
SPECIFICATION MCSpec
INVARIANTS
    LockIsKept
    LedgersAreSound
    CostIsAccounted
    ValidationIsSound
    ComponentsAreSound
    MatchingIsSound
PROPERTIES
    LocksAreFreed
    TasksAreAnswered
CHECK_DEADLOCK FALSE
