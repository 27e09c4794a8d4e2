CONSTANTS
    r1 = r1
    r2 = r2
    r3 = r3
    direct = direct
    channel = channel
    Recipients = {r1}
    Mediums <- MCMediums
    Targets <- TwoMediums
    Heights = {0, 1}
    IsValidator = TRUE
    tracked_chains = {}
    OpenChain <- SecondBlockOpens
    Callers = {1}
    MaxUpdates = 2
    queue_size = 2
SPECIFICATION Spec
CHECK_DEADLOCK FALSE
PROPERTY MessagesArrive
