---------------------------- MODULE ChainManager ----------------------------
(***************************************************************************)
(* The chain manager (linera-chain/src/manager.rs): the state one node     *)
(* keeps to agree on the next block of one microchain, and the functions   *)
(* that check proposals and certificates and create votes.  They are       *)
(* operators on manager records here; the module Consensus runs them on    *)
(* every node.                                                             *)
(*                                                                         *)
(* Data.  The hash of a block commits to all its ancestors, so a hash is   *)
(* represented by the chain that the block ends: a sequence of             *)
(* <<payload, outcome>> pairs.  A block is its previous hash and a payload *)
(* (messages, operations, timestamp...); an executed block adds what the   *)
(* execution gave (messages, state hash, oracle responses, events).        *)
(***************************************************************************)
EXTENDS ChainOwnership, Sequences, FiniteSetsExt

CONSTANTS Payload,          \* what blocks may contain
          OutcomeSet,       \* what executing a block may give
          Execution,        \* Execution[p]: the possible outcomes of payload p
          OraclePayload,    \* the payloads that use oracles
          FallbackOwners,   \* the validators' keys, owners in fallback mode
          MaxHeight,        \* bound: heights explored, BlockHeight::MAX in the code
          RoundLeader       \* RoundLeader[h][r]: the owner sampled for round r at height h

AllOwners == SuperOwners \cup Owners \cup FallbackOwners

ASSUME ExecutionAssumption ==
    /\ Execution \in [Payload -> SUBSET OutcomeSet]
    /\ \A p \in Payload \ OraclePayload : \E o \in OutcomeSet : Execution[p] = {o}

ASSUME HeightAssumption == MaxHeight \in Nat

ASSUME LeaderAssumption == RoundLeader \in [0 .. MaxHeight - 1 -> [Round -> AllOwners]]

CryptoHash    == Seq(Payload \X OutcomeSet)
Block         == [previous_block_hash : CryptoHash, payload : Payload]
ExecutedBlock == [block : Block, outcome : OutcomeSet]

height(block) == Len(block.previous_block_hash)
hash(value)   == Append(value.block.previous_block_hash,
                        <<value.block.payload, value.outcome>>)

\* A certificate, without its signatures.
Certificate == [value : ExecutedBlock, round : Round]

\* A signed proposal; cert is the optional validated block certificate, whose
\* oracle responses (here, whose outcome) are forced on the execution.
BlockProposal == [block : Block, round : Round, owner : AllOwners,
                  cert : SUBSET Certificate]

new_initial(round, block, owner) ==
    [block |-> block, round |-> round, owner |-> owner, cert |-> {}]

new_retry(round, c, owner) ==
    [block |-> c.value.block, round |-> round, owner |-> owner, cert |-> {c}]

\* What the owner signs; forced is the optional forced outcome.
ProposalContent == [block : Block, round : Round, forced : SUBSET OutcomeSet]

Vote == [kind : {"validated", "confirmed"}, value : ExecutedBlock, round : Round]

-----------------------------------------------------------------------------
(***************************************************************************)
(* The manager's fields.  proposed keeps the signed content of a proposal, *)
(* the votes and certificates for a timeout are just their rounds.  The    *)
(* owners and the leaders sampled for each height are constants, and       *)
(* round_timeout is the clock: whether it is set depends on current_round  *)
(* alone, and when it expires is left to the environment.                  *)
(***************************************************************************)
Manager ==
    [proposed      : SUBSET ProposalContent,
     locked        : SUBSET Certificate,
     timeout       : SUBSET Round,
     pending       : SUBSET Vote,
     timeout_vote  : SUBSET Round,
     fallback_vote : BOOLEAN,
     current_round : Round]

ChainManager_new ==
    [proposed      |-> {},
     locked        |-> {},
     timeout       |-> {},
     pending       |-> {},
     timeout_vote  |-> {},
     fallback_vote |-> FALSE,
     current_round |-> first_round]

is_super(owner) == owner \in SuperOwners

verify_owner(p) ==
    \/ is_super(p.owner)
    \/ is_multi_leader(p.round) /\ p.owner \in Owners
    \/ /\ SingleLeader(0) <= p.round
       /\ p.owner = RoundLeader[height(p.block)][p.round]
       /\ p.owner \in IF p.round < Validator(0) THEN Owners ELSE FallbackOwners

\* The lowest round a proposal may be for: after its certificate's round and
\* not below the current one.
expected_round(m, p) ==
    Max({m.current_round} \cup {successor(c.round) : c \in p.cert})

\* In leader rotation mode the round must be the expected one; only the first
\* single-leader round can be entered at any time.
has_expected_round(m, p) ==
    /\ \A c \in p.cert : next_round(c.round) # {}
    /\ IF is_super(p.owner) \/ (p.round <= SingleLeader(0) /\ ~is_fast(expected_round(m, p)))
       THEN expected_round(m, p) <= p.round
       ELSE expected_round(m, p) = p.round

\* A fast proposal counts as locked, for validators confirm it immediately.
follows_proposed(m, p) ==
    \A old \in m.proposed :
        /\ p.round > old.round
        /\ is_fast(old.round) /\ p.cert = {} => old.block = p.block

\* Mutants of follows_lock: the lock is ignored; only a newer block unlocks.
ignores_lock(m, p) == TRUE
follows_lock_strictly(m, p) == \A l \in m.locked : \E c \in p.cert : l.round < c.round

follows_lock(m, p) == \A l \in m.locked : \E c \in p.cert : l.round <= c.round

(***************************************************************************)
(* Whether a proposal is accepted.  A proposal equal to the one already    *)
(* voted for is skipped, which changes nothing either.                     *)
(***************************************************************************)
check_proposed_block(m, p) ==
    has_expected_round(m, p) /\ follows_proposed(m, p) /\ follows_lock(m, p)

\* Whether a validated block certificate is accepted, i.e. neither refused nor
\* skipped as one already handled.
check_validated_block(m, c) ==
    /\ \A v \in m.pending :
          IF v.kind = "confirmed"
          THEN ~ (v.value.block = c.value.block /\ v.round = c.round)
          ELSE c.round >= v.round
    /\ \A l \in m.locked : c.round > l.round

-----------------------------------------------------------------------------
\* The round after a timeout certificate's, or the last one if there is none.
round_after_timeout(r) == IF next_round(r) = {} THEN Validator(U32Max) ELSE successor(r)

\* A mutant of known_rounds: the proposal is forgotten.
known_rounds_without_proposed(m) ==
    {round_after_timeout(r) : r \in m.timeout} \cup {c.round : c \in m.locked} \cup {first_round}

\* The rounds that a manager's timeout certificate, lock and proposal lead to.
known_rounds(m) ==
    {round_after_timeout(r) : r \in m.timeout}
        \cup {c.round : c \in m.locked}
        \cup {p.round : p \in m.proposed}
        \cup {first_round}

update_current_round(m) ==
    [m EXCEPT !.current_round = Max({m.current_round} \cup known_rounds(m))]

\* A mutant of create_vote: a vote that is pending is not replaced.
create_vote_keeping_pending(m, p, value, has_key) ==
    LET content == [block |-> p.block, round |-> p.round,
                    forced |-> {c.value.outcome : c \in p.cert}]
        newer   == {c \in p.cert : \A l \in m.locked : l.round < c.round}
        kind    == IF is_fast(p.round) THEN "confirmed" ELSE "validated"
        m1      == update_current_round([m EXCEPT !.proposed = {content}])
    IN  [m1 EXCEPT !.locked  = IF newer = {} THEN @ ELSE newer,
                   !.pending = IF has_key /\ @ = {}
                               THEN {[kind |-> kind, value |-> value, round |-> p.round]} ELSE @]

create_vote(m, p, value, has_key) ==
    LET content == [block |-> p.block, round |-> p.round,
                    forced |-> {c.value.outcome : c \in p.cert}]
        newer   == {c \in p.cert : \A l \in m.locked : l.round < c.round}
        kind    == IF is_fast(p.round) THEN "confirmed" ELSE "validated"
        m1      == update_current_round([m EXCEPT !.proposed = {content}])
    IN  [m1 EXCEPT !.locked  = IF newer = {} THEN @ ELSE newer,
                   !.pending = IF has_key THEN {[kind |-> kind, value |-> value, round |-> p.round]}
                               ELSE @]

\* A mutant of create_final_vote: the block is confirmed but not locked.
create_final_vote_unlocked(m, c, has_key) ==
    IF has_key /\ c.round < m.current_round THEN m
    ELSE [m EXCEPT !.pending = {[kind |-> "confirmed", value |-> c.value, round |-> c.round]}]

\* A validator ignores a validated block from before its current round.
create_final_vote(m, c, has_key) ==
    IF has_key /\ c.round < m.current_round THEN m
    ELSE LET m1 == update_current_round([m EXCEPT !.locked = {c}])
         IN  [m1 EXCEPT !.pending =
                 IF has_key THEN {[kind |-> "confirmed", value |-> c.value, round |-> c.round]}
                 ELSE @]

handle_timeout_certificate(m, r) ==
    IF \E known \in m.timeout : known >= r THEN m
    ELSE update_current_round([m EXCEPT !.timeout = {r}])

\* Whether a validator signs a timeout of its current round, once that round's
\* time is over.
can_vote_timeout(m) ==
    /\ round_timeout(m.current_round)
    /\ Owners # {}
    /\ m.timeout_vote # {m.current_round}

vote_timeout(m) == [m EXCEPT !.timeout_vote = {m.current_round}]

can_vote_fallback(m) == ~m.fallback_vote /\ m.current_round < Validator(0)

vote_fallback(m) == [m EXCEPT !.fallback_vote = TRUE]
=============================================================================
