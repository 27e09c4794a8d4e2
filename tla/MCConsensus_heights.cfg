SPECIFICATION Spec
CONSTANTS
    v1 = v1 v2 = v2 v3 = v3 v4 = v4 n1 = n1
    alice = alice bob = bob carol = carol
    p1 = p1 p2 = p2 o1 = o1 o2 = o2
    SuperOwners = {}
    Owners = {alice}
    MultiLeaderRounds = 1
    FastTimesOut = TRUE
    U32Max = 1
    Payload = {p2}
    OutcomeSet = {o1, o2}
    Execution <- MCOracleExecution
    OraclePayload = {p2}
    FallbackOwners = {carol}
    RoundLeader <- MCRoundLeader
    Honest = {v1, v2}
    Faulty = {v3}
    Observers = {n1}
    Quorum = {{v1, v2}}
    MaxHeight = 2
    Explored <- FallbackRounds
SYMMETRY MCOutcomeSymmetry
CHECK_DEADLOCK FALSE
INVARIANTS ChainsAgree
PROPERTY ImplementsLedger
