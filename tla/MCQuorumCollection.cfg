SPECIFICATION Spec
CHECK_DEADLOCK FALSE
CONSTANTS
    v1 = v1 v2 = v2 v3 = v3 v4 = v4 v5 = v5
    Validators = {v1, v2, v3, v4, v5}
    Votes <- MCVotes
    Weight <- MCWeight
    Honest = {v2, v3, v4, v5}
    U64 = 64
    Keys = {k1, k2}
    Errors = {e1, e2}
    Waiting = Waiting
INVARIANTS TypeOK CertificateIsValid TrustedErrorIsHonest FailsOnlyWithoutQuorum
PROPERTIES HonestVotesSuffice GivesUpWithoutQuorum
