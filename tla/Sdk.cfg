CONSTANTS
    None = None
    Stray = Stray
    Findings = {f1, f2}
    Destination = {d1, d2}
SPECIFICATION MCSpec
INVARIANTS
    SessionIsSound
    PublicationIsSound
    WorkflowIsSound
    GroupsAreSound
PROPERTY SdkSettles
CHECK_DEADLOCK FALSE
