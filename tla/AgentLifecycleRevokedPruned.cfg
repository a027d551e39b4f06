CONSTANTS
    capable = capable
    jwtOnly = jwtOnly
    Requests = {r1, r2}
    Agents = {jwtOnly}
    WithBiscuit = {}
    Nobody = nobody
    MaxTtl = 1
    Grace = 1
    MaxTime = 3
SPECIFICATION Spec
SYMMETRY RequestSymmetry
CHECK_DEADLOCK FALSE
INVARIANTS
    RevokedIsKept
