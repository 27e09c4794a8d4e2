----------------------------- MODULE Consensus ------------------------------
(***************************************************************************)
(* The consensus of a microchain: every node (a validator's or a client's  *)
(* chain worker, linera-core/src/chain_worker/state) keeps the tip of its  *)
(* chain and a chain manager for the next height, and handles proposals,   *)
(* certificates and timeout requests one at a time, saving its state       *)
(* before it answers.                                                      *)
(*                                                                         *)
(* Owners, clients and the network are the environment: a node may be      *)
(* given any proposal an owner can sign, any certificate a quorum has      *)
(* signed and any request, in any order, any number of times or never.     *)
(* Faulty validators sign everything.  A certificate exists as soon as all *)
(* the honest members of a quorum have cast the vote.                      *)
(***************************************************************************)
EXTENDS ChainManager

CONSTANTS Honest,     \* the validators that follow the protocol
          Faulty,     \* the other validators
          Observers,  \* nodes without a validator key: clients' local nodes
          Quorum,     \* the sets of validators that have a quorum of votes
          Explored    \* bound: the rounds that proposals and timeouts enter

ASSUME CommitteeAssumption ==
    /\ Honest \cap (Faulty \cup Observers) = {}
    /\ Quorum \subseteq SUBSET (Honest \cup Faulty)
    /\ \A Q1, Q2 \in Quorum : Q1 \cap Q2 \cap Honest # {}

ASSUME BoundAssumption == Explored \subseteq Round

Nodes == Honest \cup Observers

VARIABLES chain,      \* chain[n]: tip_state.block_hash of node n
          manager,    \* manager[n]: the chain manager of node n
          validated,  \* the ValidatedBlock votes cast by honest validators
          confirmed,  \* the ConfirmedBlock votes cast by honest validators
          timeouts    \* the Timeout votes cast by honest validators

vars == <<chain, manager, validated, confirmed, timeouts>>

BlockVote   == [validator : Honest, value : ExecutedBlock, round : Round]
TimeoutVote == [validator : Honest, height : Nat, round : Round]

Init ==
    /\ chain = [n \in Nodes |-> <<>>]
    /\ manager = [n \in Nodes |-> ChainManager_new]
    /\ validated = {}
    /\ confirmed = {}
    /\ timeouts = {}

has_key(n) == n \in Honest

next_block_height(n) == Len(chain[n])

\* The bounds on timeouts: none beyond the last height or into other rounds.
InBounds(n, r) ==
    next_block_height(n) < MaxHeight /\ round_after_timeout(r) \in Explored

-----------------------------------------------------------------------------
(***************************************************************************)
(* Certificates that a quorum has signed.                                  *)
(***************************************************************************)
\* A mutant of HasQuorum: one honest vote is enough.
HasValidity(signers) == \E Q \in Quorum : Q \cap signers # {}

HasQuorum(signers) == \E Q \in Quorum : Q \cap Honest \subseteq signers

ValidatedCert(c) ==
    HasQuorum({v \in Honest : [validator |-> v, value |-> c.value, round |-> c.round] \in validated})

ConfirmedCert(c) ==
    HasQuorum({v \in Honest : [validator |-> v, value |-> c.value, round |-> c.round] \in confirmed})

TimeoutCert(h, r) ==
    HasQuorum({v \in Honest : [validator |-> v, height |-> h, round |-> r] \in timeouts})

Certs(votes) == {[value |-> v.value, round |-> v.round] : v \in votes}

-----------------------------------------------------------------------------
\* vote is added to the votes if the node is a validator.
Cast(n, votes, value, round) ==
    IF has_key(n) THEN votes \cup {[validator |-> n, value |-> value, round |-> round]}
    ELSE votes

\* A mutant of execute_block: the outcome of a certified block is not forced.
execute_block_afresh(p) == Execution[p.block.payload]

(***************************************************************************)
(* The outcomes of executing a block: the forced one if there is a         *)
(* certificate, which must be for this very block; else any one execution  *)
(* can give; blocks of the fast round may not use oracles.                 *)
(***************************************************************************)
execute_block(p) ==
    IF p.cert = {}
    THEN IF is_fast(p.round) /\ p.block.payload \in OraclePayload THEN {}
         ELSE Execution[p.block.payload]
    ELSE {c.value.outcome : c \in {d \in p.cert : d.value.block = p.block}}

handle_block_proposal(n, p) ==
    /\ p.block.previous_block_hash = chain[n]
    /\ height(p.block) < MaxHeight
    /\ verify_owner(p)
    /\ check_proposed_block(manager[n], p)
    /\ \A c \in p.cert : ValidatedCert(c)
    /\ \E outcome \in execute_block(p) :
          LET value == [block |-> p.block, outcome |-> outcome]
          IN  /\ manager' = [manager EXCEPT ![n] = create_vote(@, p, value, has_key(n))]
              /\ IF is_fast(p.round)
                 THEN /\ confirmed' = Cast(n, confirmed, value, p.round)
                      /\ UNCHANGED validated
                 ELSE /\ validated' = Cast(n, validated, value, p.round)
                      /\ UNCHANGED confirmed
    /\ UNCHANGED <<chain, timeouts>>

process_validated_block(n, c) ==
    /\ height(c.value.block) = next_block_height(n)
    /\ check_validated_block(manager[n], c)
    /\ ValidatedCert(c)
    /\ manager' = [manager EXCEPT ![n] = create_final_vote(@, c, has_key(n))]
    /\ confirmed' = IF c.round < manager[n].current_round THEN confirmed
                    ELSE Cast(n, confirmed, c.value, c.round)
    /\ UNCHANGED <<chain, validated, timeouts>>

\* A mutant of process_confirmed_block: blocks in between are skipped.
process_confirmed_block_anywhere(n, c) ==
    /\ ConfirmedCert(c)
    /\ height(c.value.block) >= next_block_height(n)
    /\ chain' = [chain EXCEPT ![n] = hash(c.value)]
    /\ manager' = [manager EXCEPT ![n] = ChainManager_new]
    /\ UNCHANGED <<validated, confirmed, timeouts>>

process_confirmed_block(n, c) ==
    /\ c.value.block.previous_block_hash = chain[n]
    /\ ConfirmedCert(c)
    /\ chain' = [chain EXCEPT ![n] = hash(c.value)]
    /\ manager' = [manager EXCEPT ![n] = ChainManager_new]
    /\ UNCHANGED <<validated, confirmed, timeouts>>

process_timeout(n, r) ==
    /\ TimeoutCert(next_block_height(n), r)
    /\ manager' = [manager EXCEPT ![n] = handle_timeout_certificate(@, r)]
    /\ UNCHANGED <<chain, validated, confirmed, timeouts>>

vote_for_leader_timeout(n) ==
    /\ has_key(n)
    /\ can_vote_timeout(manager[n])
    /\ InBounds(n, manager[n].current_round)
    /\ manager' = [manager EXCEPT ![n] = vote_timeout(@)]
    /\ timeouts' = timeouts \cup {[validator |-> n, height |-> next_block_height(n),
                                   round |-> manager[n].current_round]}
    /\ UNCHANGED <<chain, validated, confirmed>>

\* Sent once an incoming message has been waiting for the fallback duration;
\* whether one has is left to the environment.
vote_for_fallback(n) ==
    /\ has_key(n)
    /\ can_vote_fallback(manager[n])
    /\ InBounds(n, SingleLeader(U32Max))
    /\ manager' = [manager EXCEPT ![n] = vote_fallback(@)]
    /\ timeouts' = timeouts \cup {[validator |-> n, height |-> next_block_height(n),
                                   round |-> SingleLeader(U32Max)]}
    /\ UNCHANGED <<chain, validated, confirmed>>

-----------------------------------------------------------------------------
(***************************************************************************)
(* A node may receive any new block on top of its chain, or any block with *)
(* a validated block certificate, in any round, from any owner.            *)
(***************************************************************************)
Next ==
    \E n \in Nodes :
        \/ \E payload \in Payload, r \in Explored, o \in AllOwners :
              LET block == [previous_block_hash |-> chain[n], payload |-> payload]
              IN  handle_block_proposal(n, new_initial(r, block, o))
        \/ \E c \in Certs(validated), r \in Explored, o \in AllOwners :
              handle_block_proposal(n, new_retry(r, c, o))
        \/ \E c \in Certs(validated) : process_validated_block(n, c)
        \/ \E c \in Certs(confirmed) : process_confirmed_block(n, c)
        \/ \E t \in timeouts : process_timeout(n, t.round)
        \/ vote_for_leader_timeout(n)
        \/ vote_for_fallback(n)

Spec == Init /\ [][Next]_vars

-----------------------------------------------------------------------------
AtMostOne(S) == \A x, y \in S : x = y

IsManager(m) ==
    /\ m \in Manager
    /\ AtMostOne(m.proposed) /\ AtMostOne(m.locked) /\ AtMostOne(m.pending)
    /\ AtMostOne(m.timeout) /\ AtMostOne(m.timeout_vote)

\* Every field has its type, and every optional field at most one value.
TypeOK ==
    /\ chain \in [Nodes -> CryptoHash]
    /\ manager = [n \in Nodes |-> manager[n]] /\ \A n \in Nodes : IsManager(manager[n])
    /\ validated \subseteq BlockVote
    /\ confirmed \subseteq BlockVote
    /\ timeouts \subseteq TimeoutVote

SameHeight(a, b) == height(a.block) = height(b.block)

\* Nothing a manager knows of is beyond its current round, although create_vote
\* raises locked after update_current_round, without a second update; and a
\* validator that voted to confirm a block is locked on a block of that round or
\* a later one.
RoundsInOrder ==
    \A n \in Nodes :
        LET m == manager[n] IN
        /\ \A x \in m.locked \cup m.proposed : x.round <= m.current_round
        /\ \A t \in m.timeout : \A r \in next_round(t) : r <= m.current_round
        /\ \A v \in m.pending : v.kind = "confirmed" /\ ~is_fast(v.round)
                                    => \E l \in m.locked : l.round >= v.round

\* "We already voted for this proposal; nothing to do": a proposal that is sent again
\* is skipped, and answered with the vote that is pending.  So a validator that has a
\* proposal still has its vote for it, or else one that confirms what it has locked in
\* that round or a later one.
RepeatedProposalIsAnswered ==
    \A v \in Honest : \A q \in manager[v].proposed : \E x \in manager[v].pending :
        \/ /\ x.value.block = q.block /\ x.round = q.round
           /\ x.kind = IF is_fast(q.round) THEN "confirmed" ELSE "validated"
        \/ /\ x.kind = "confirmed" /\ q.round <= x.round
           /\ [value |-> x.value, round |-> x.round] \in manager[v].locked

\* At most one ConfirmedBlock certificate per height: whatever the owners
\* propose, and whatever is lost, delayed or repeated, no two quorums sign
\* different blocks (module doc of manager.rs).
Agreement ==
    \A c, d \in Certs(confirmed) :
        ConfirmedCert(c) /\ ConfirmedCert(d) /\ SameHeight(c.value, d.value)
            => c.value = d.value

\* The same for the certificates of the rounds with two votes, which holds even
\* if the chain has super owners and a fast round.
SlowAgreement ==
    \A c, d \in Certs(confirmed) :
        /\ ConfirmedCert(c) /\ ~is_fast(c.round)
        /\ ConfirmedCert(d) /\ ~is_fast(d.round)
        /\ SameHeight(c.value, d.value)
      => c.value = d.value

\* A validator that voted to confirm B in round s votes to validate another block
\* in a later round r only if that block was validated in between (the second
\* safety rule in the doc of manager.rs, enforced by check_proposed_block).
LockedBlockRule ==
    \A x \in validated, y \in confirmed :
        /\ x.validator = y.validator
        /\ SameHeight(x.value, y.value) /\ x.value # y.value
        /\ y.round < x.round /\ ~is_fast(y.round)
      => \E c \in Certs(validated) :
            /\ ValidatedCert(c) /\ c.value = x.value
            /\ y.round <= c.round /\ c.round < x.round

\* Once a quorum has voted to confirm a block, no other block of that height is
\* ever validated in a later round (the conclusion drawn in manager.rs).
ConfirmedIsFinal ==
    \A c \in Certs(confirmed), d \in Certs(validated) :
        /\ ConfirmedCert(c) /\ ~is_fast(c.round) /\ ValidatedCert(d)
        /\ SameHeight(c.value, d.value) /\ c.round <= d.round
      => c.value = d.value

\* The chains of any two nodes are prefixes of one chain.
ChainsAgree ==
    \A m, n \in Nodes : \A i \in DOMAIN chain[m] \cap DOMAIN chain[n] :
        chain[m][i] = chain[n][i]

\* No validator votes for a block, or for a timeout of the round it is in, after
\* a vote in a later round for the same height (the first safety rule).  The
\* votes for fallback mode are exempt: they are for the last single-leader round
\* whatever the current round is.
LeaderTimeouts == {t \in timeouts : t.round # SingleLeader(U32Max)}

CastBefore(v, h, r) ==
    \/ \E x \in validated \cup confirmed :
          x.validator = v /\ height(x.value.block) = h /\ x.round > r
    \/ \E t \in LeaderTimeouts : t.validator = v /\ t.height = h /\ t.round > r

VotesNeverGoBack ==
    [][ /\ \A x \in (validated' \ validated) \cup (confirmed' \ confirmed) :
              ~CastBefore(x.validator, height(x.value.block), x.round)
        /\ \A t \in LeaderTimeouts' \ LeaderTimeouts :
              ~CastBefore(t.validator, t.height, t.round) ]_vars

-----------------------------------------------------------------------------
(***************************************************************************)
(* The inductive invariant behind Agreement: what an honest validator's    *)
(* manager remembers of the votes it has cast for its next height.         *)
(***************************************************************************)
VotesFor(votes, v) ==
    {x \in votes : x.validator = v /\ height(x.value.block) = next_block_height(v)}

VotesNotAhead ==
    \A x \in validated \cup confirmed :
        height(x.value.block) <= next_block_height(x.validator)

ProposedNotBelowVotes ==
    \A v \in Honest : \A x \in VotesFor(validated, v) :
        \E q \in manager[v].proposed : x.round <= q.round

CurrentRoundNotBelowProposed ==
    \A v \in Honest : \A q \in manager[v].proposed : q.round <= manager[v].current_round

OneValidatedPerRound ==
    \A x, y \in validated :
        x.validator = y.validator /\ x.round = y.round /\ SameHeight(x.value, y.value)
            => x.value = y.value

LockedNotBelowVotes ==
    \A v \in Honest : \A y \in VotesFor(confirmed, v) :
        ~is_fast(y.round) => \E l \in manager[v].locked : y.round <= l.round

ConfirmedWasValidated ==
    \A y \in confirmed : ~is_fast(y.round)
        => ValidatedCert([value |-> y.value, round |-> y.round])

\* What the manager of a validator remembers bounds the votes it has cast: its
\* proposal the validated ones, its lock the confirmed ones.  With LockedBlockRule
\* this is preserved by every step, and implies SlowAgreement.
SafetyInv ==
    /\ VotesNotAhead
    /\ ProposedNotBelowVotes
    /\ CurrentRoundNotBelowProposed
    /\ OneValidatedPerRound
    /\ LockedNotBelowVotes
    /\ ConfirmedWasValidated
    /\ LockedBlockRule

\* Without super owners there is no fast round.
NoFastRound ==
    SuperOwners = {} => /\ \A n \in Nodes : ~is_fast(manager[n].current_round)
                        /\ \A x \in validated \cup confirmed : ~is_fast(x.round)

\* Every block of a node's chain has been confirmed by a quorum at its height.
ChainCertified ==
    \A n \in Nodes : \A i \in DOMAIN chain[n] : \E c \in Certs(confirmed) :
        /\ ConfirmedCert(c)
        /\ height(c.value.block) + 1 = i
        /\ chain[n][i] = <<c.value.block.payload, c.value.outcome>>

-----------------------------------------------------------------------------
(***************************************************************************)
(* Progress in cooperative mode: an owner that has fetched the highest     *)
(* locked certificate and all proposals from the honest validators, and    *)
(* proposes the locked block (or, if there is none, any block) in a higher *)
(* multi-leader round, has its proposal accepted by all of them: it is     *)
(* never in a state where some lock rules out what the others require.     *)
(***************************************************************************)
KnownLocks == UNION {manager[v].locked : v \in Honest}

ProgressPossible ==
    \A r \in Explored, o \in Owners, p \in Payload, h \in {chain[v] : v \in Honest} :
        /\ r < MultiLeader(MultiLeaderRounds)
        /\ \A v \in Honest :
              /\ chain[v] = h
              /\ ~is_fast(manager[v].current_round) /\ manager[v].current_round <= r
              /\ \A q \in manager[v].proposed : q.round < r /\ ~is_fast(q.round)
      => \E c \in {{}} \cup {{l} : l \in KnownLocks} :
              /\ \A l \in KnownLocks : \E k \in c : l.round <= k.round
              /\ LET block == IF c = {} THEN [previous_block_hash |-> h, payload |-> p]
                              ELSE (CHOOSE k \in c : TRUE).value.block
                     prop  == [block |-> block, round |-> r, owner |-> o, cert |-> c]
                 IN  \A v \in Honest : /\ verify_owner(prop)
                                       /\ block.previous_block_hash = chain[v]
                                       /\ check_proposed_block(manager[v], prop)

-----------------------------------------------------------------------------
(***************************************************************************)
(* The refinement: the chain that has been decided is the one that the     *)
(* highest confirmed block certificate ends.                               *)
(***************************************************************************)
ConfirmedChains == {<<>>} \cup {hash(c.value) : c \in {d \in Certs(confirmed) : ConfirmedCert(d)}}

Decided ==
    LET chains == ConfirmedChains
    IN  CHOOSE s \in chains : \A t \in chains : Len(t) <= Len(s)

L == INSTANCE Ledger WITH Blocks <- Payload \X OutcomeSet, decided <- Decided, delivered <- chain

\* The nodes implement one ledger: certificates extend a single chain by one
\* block at a time, and every node executes that chain in order.
ImplementsLedger == L!Spec
=============================================================================
