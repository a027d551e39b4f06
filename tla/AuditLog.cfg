CONSTANTS
    thread1 = thread1
    thread2 = thread2
    other = other
    Writers = {thread1, thread2, other}
    Process <- MCProcess
    Retries = 2
    MaxRows = 6
SPECIFICATION Spec
CHECK_DEADLOCK FALSE
INVARIANTS
    TypeOK
    ChainIntact
    GivesUpOnlyToProgress
PROPERTIES
    EveryCallEnds
    KeepsPromise
