CONSTANTS
    k = k
    l = l
    a1 = a1
    weak = weak
    x = x
    y = y
    inner = inner
    outer = outer
    beside = beside
    db = db
    Resources = {db}
    Actions = {"read", "write", any}
    Wildcard = any
    Blank = blank
    Bare = bare
    Paths = {x, y, up}
    NoPath = nopath
    Escaping = {up}
    Patterns = {inner, outer, beside}
    Matches <- MCMatches
    Keys = {k, l}
    NoKey = nokey
    Provider = provider
    AnchorKeys = {a1, weak}
    Strong = {a1}
    EntryIds = {e1, e2}
    Absent = absent
    Applications <- MCApplications
    Evidence <- MCEvidence
    Rotators = {r1, r2}
    MaxRoots = 3
    MaxTime = 4
    MaxTtl = 1
    Grace = 2
    StampToCommit = 1
    Issuers = {i1}
    Holders = {h1, h2, h3}
    Nobody = nobody
    Narrowing <- MCNarrowing
    Budgets <- MCBudgets
SPECIFICATION MCSpec
SYMMETRY MCSymmetry
CHECK_DEADLOCK FALSE
INVARIANTS
    TypeOK
    LintedTablesDecide
    MintsWereApproved
    UsesAreBound
    DeniedStaysDenied
PROPERTIES
    RightsOnlyShrink
    KeepsTrust
