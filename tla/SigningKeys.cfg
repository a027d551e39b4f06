CONSTANTS
    Requests = {r1, r2, r3}
    MaxKeys = 3
    MaxTime = 4
    MaxTokens = 1
    MinTtl = 2
    MaxTtl = 2
    DefaultTtl = 2
    Grace = 2
    ReadToSign = 1
    StampToCommit = 1
SPECIFICATION Spec
SYMMETRY RequestSymmetry
CHECK_DEADLOCK FALSE
INVARIANTS
    TypeOK
    KeylessOnlyMidRotation
PROPERTIES
    HealsToNewest
    KeepsTrust
