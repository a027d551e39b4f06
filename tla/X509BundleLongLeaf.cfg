CONSTANTS
    Requests = {r1}
    MaxCas = 2
    MaxLeaves = 1
    MaxTime = 14
    MinTtl = 1
    MaxTtl = 288
    Day = 288
    SvidTtl = 12
    Slack = 1
    ReadToSign = 0
    StampToCommit = 0
SPECIFICATION Spec
CHECK_DEADLOCK FALSE
INVARIANT BundleOutlivesLeaves
