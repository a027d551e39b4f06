CONSTANTS
    signedDoc = signedDoc
    podToken = podToken
    ec2Doc = ec2Doc
    Calls = {1, 2}
    Evidence = {ec2Doc}
    Kind <- MCKind
    Name <- MCName
    Expiry <- MCExpiry
    Window = 2
    MaxTime = 2
SPECIFICATION MCSpec
CHECK_DEADLOCK FALSE
INVARIANTS
    OneMintPerDocument
