CONSTANTS
    capable = capable
    jwtOnly = jwtOnly
    Requests = {r1, r2, r3}
    Agents = {capable, jwtOnly}
    WithBiscuit = {capable}
    Nobody = nobody
    MaxTtl = 1
    Grace = 0
    MaxTime = 2
SPECIFICATION Spec
SYMMETRY RequestSymmetry
CHECK_DEADLOCK FALSE
INVARIANTS
    TypeOK
    RevokedStaysDead
    RevokedShowsUntilExpiry
    ValidIsKept
