CONSTANTS
    Requests = {r1, r2, r3}
    Challenges = {c1}
    Calls = {d1, d2}
    Proofs = {x1}
    Nothing = Nothing
    MaxAge = 2
    Skew = 1
    ChallengeTtl = 2
    MaxTime = 3
SPECIFICATION Spec
SYMMETRY HandlerSymmetry
CHECK_DEADLOCK FALSE
INVARIANTS
    TypeOK
    ChallengeServesOne
    RefusedForCause
    ReplayOnlyAtWindowsEnd
