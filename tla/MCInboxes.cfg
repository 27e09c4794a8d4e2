CONSTANTS
    n1 = n1
    n2 = n2
    o1 = o1
    o2 = o2
    Nodes = {n1, n2}
    Origins = {o1, o2}
    Heights = {0, 1, 2}
    Indices = {0, 1}
    U32 = 4
    Sent <- MCSent
    Named <- MCNamed
    Deprecated <- MCDeprecated
    RetiredAt = 1
    MaxBlocks = 3
    MaxIncoming = 2
SPECIFICATION Spec
CHECK_DEADLOCK FALSE
INVARIANTS
    TypeOK
    InboxesNeverFail
    QueuesMatchHistory
    ConsumedOnceInOrder
    UnskippableQueueMatchesInboxes
PROPERTY AnticipatedBundlesArrive
