CONSTANTS
    Requests = {r1, r2, r3}
    MaxCas = 3
    MaxLeaves = 1
    MaxTime = 4
    MinTtl = 1
    MaxTtl = 2
    Day = 2
    SvidTtl = 1
    Slack = 3
    ReadToSign = 1
    StampToCommit = 1
SPECIFICATION Spec
SYMMETRY RequestSymmetry
CHECK_DEADLOCK FALSE
INVARIANTS
    TypeOK
    CaLostOnlyMidRotation
PROPERTIES
    KeepsTrust
