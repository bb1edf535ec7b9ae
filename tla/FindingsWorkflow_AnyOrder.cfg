CONSTANTS
    Destination = {d1}
    FindingPair = {p1}
    Unbound = Unbound
    Orderly = FALSE
    MaxFaults = 2
    MaxSource = 0
SPECIFICATION WorkflowLiveSpec
PROPERTY WorkflowFinishes
CHECK_DEADLOCK FALSE
