CONSTANTS
    Request = {r1, r2}
    ActionToken = {k1, k2}
    MaxEdits = 0
    MaxVersion = 7
    MaxInFlight = 1
    Author = {a1, a2}
    Candidate = {c1}
    Worker = {w1, w2}
    Identity = {id1, id2}
    Text = {x1, x2}
    Surface = {s1}
    Deferral = {d1}
    None = None
SYMMETRY Symmetry
SPECIFICATION MCSpec
INVARIANTS
    AttemptsAreSound
    ResultsAreKept
PROPERTIES
    RequestsDoNotCollide
    FindingsPersist
CHECK_DEADLOCK FALSE
