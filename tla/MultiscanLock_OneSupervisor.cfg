CONSTANTS
    Supervisor = {p1, p2, p3}
    NoFile = NoFile
    Legacy = Legacy
    CrashIn = {"created"}
SPECIFICATION LockSpec
INVARIANT OneSupervisor
SYMMETRY Symmetry
CHECK_DEADLOCK FALSE
