CONSTANTS
    Thread = {t1, t2}
    Second = t2
    Extra = f2
    AppToken = {a1, a2}
    RecoveryToken = {r1}
    None = None
    Origin = {"app", "prompt", "headless", "cli"}
    Finding = {f1, f2}
    Worker = {w1}
    MaxCrashes = 1
    Incidents = {"restart", "disk", "invalid"}
SPECIFICATION InstanceSpec
INVARIANTS
    TypeOK
    HandoffIsSound
    CompletionIsSound
    EvidenceIsSafe
PROPERTIES
    DecisionsAreFinal
CHECK_DEADLOCK FALSE
