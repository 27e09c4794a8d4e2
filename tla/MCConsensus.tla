---------------------------- MODULE MCConsensus -----------------------------
(***************************************************************************)
(* Small instances of Consensus: four validators of weight 1, of which one *)
(* is faulty, so that every three are a quorum; for several heights, two   *)
(* honest validators of weight 2 and a faulty one of weight 1.  The        *)
(* configurations list the minimal quorums.                                *)
(***************************************************************************)
EXTENDS Consensus, TLC

CONSTANTS v1, v2, v3, v4, n1, alice, bob, carol, p1, p2, o1, o2

\* No payload uses oracles; every payload has one outcome.
MCExecution == [p \in Payload |-> {o1}]

\* p2 uses an oracle that may answer o1 or o2.
MCOracleExecution == [p \in Payload |-> IF p = p2 THEN {o1, o2} ELSE {o1}]

\* alice leads the single-leader rounds, carol the validator rounds.
MCRoundLeader ==
    [h \in 0 .. MaxHeight - 1 |-> [r \in Round |->
        IF r < Validator(0) /\ Owners # {} THEN alice ELSE carol]]

TwoSingleLeaderRounds    == {SingleLeader(0), SingleLeader(1)}
FastAndMultiLeaderRounds == {Fast, MultiLeader(0), MultiLeader(1)}
FallbackRounds           == {MultiLeader(0), Validator(0)}

\* Payloads are interchangeable where none uses oracles, and outcomes where the
\* only payload does.
MCPayloadSymmetry == Permutations(Honest) \cup Permutations(Payload)
MCOutcomeSymmetry == Permutations(Honest) \cup Permutations(OutcomeSet)
=============================================================================
