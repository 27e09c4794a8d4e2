CONSTANTS
    r1 = r1
    r2 = r2
    r3 = r3
    direct = direct
    channel = channel
    Recipients = {r1, r2, r3}
    Mediums <- MCMediums
    Targets <- ThreeRecipients
    Heights = {0, 1}
    IsValidator = FALSE
    tracked_chains = {r1, r2}
    OpenChain = {}
    Callers = {1}
    MaxUpdates = 1
    queue_size = 2
SPECIFICATION Safety
CHECK_DEADLOCK FALSE
INVARIANTS
    TypeOK
    CountersMatchOutboxes
    OutboxKeepsUnreceived
    NothingSkipped
    NotifiedAfterDelivery
