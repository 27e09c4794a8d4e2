SPECIFICATION Spec
CONSTANTS
    v1 = v1 v2 = v2 v3 = v3 v4 = v4 n1 = n1
    alice = alice bob = bob carol = carol
    p1 = p1 p2 = p2 o1 = o1 o2 = o2
    SuperOwners = {alice}
    Owners = {bob}
    MultiLeaderRounds = 2
    FastTimesOut = FALSE
    U32Max = 2
    Payload = {p1, p2}
    OutcomeSet = {o1, o2}
    Execution <- MCExecution
    OraclePayload = {}
    FallbackOwners = {carol}
    RoundLeader <- MCRoundLeader
    Honest = {v1, v2, v3}
    Faulty = {v4}
    Observers = {}
    Quorum = {{v1, v2, v3}, {v1, v2, v4}, {v1, v3, v4}, {v2, v3, v4}}
    MaxHeight = 1
    Explored <- FastAndMultiLeaderRounds
SYMMETRY MCPayloadSymmetry
CHECK_DEADLOCK FALSE
INVARIANTS RepeatedProposalIsAnswered SafetyInv ConfirmedIsFinal SlowAgreement ProgressPossible
