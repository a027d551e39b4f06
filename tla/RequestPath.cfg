CONSTANTS
    c1 = c1
    c2 = c2
    k1 = k1
    boot = boot
    here = here
    Calls = {c1, c2}
    MaxRetries = 1
    Processes = {p1}
    Capacity = 2
    None = none
    ScopedKeys = {k1}
    Bootstrap = boot
    KeyScopes <- MCKeyScopes
    CacheSize = 1
    Addresses = {here}
    AddressOf <- MCAddressOf
    Budgets <- MCBudgets
    Window = 2
    MaxTime = 2
    Workloads <- MCWorkloads
    MaxCrashes = 1
SPECIFICATION MCSpec
CHECK_DEADLOCK FALSE
INVARIANTS
    TypeOK
    RevokedKeyIsRefused
    KeyRefusedForCause
    EffectAtMostOnce
    AnswerTellsTheTruth
    StallNeedsFullHouse
    BurstBound
PROPERTIES
    EveryRequestEnds
