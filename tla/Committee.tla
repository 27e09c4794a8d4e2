----------------------------- MODULE Committee ------------------------------
(***************************************************************************)
(* A committee (linera-execution/src/committee.rs): validators with voting *)
(* power, and the thresholds for a quorum and for validity.  Weight[S] is  *)
(* the sum of the votes of the validators in S, which the code computes by *)
(* folds; the proofs only need that it is additive and that sets of validators    *)
(* without votes weigh nothing.                                            *)
(***************************************************************************)
EXTENDS Integers, FiniteSets

CONSTANTS Validators,
          Votes,      \* Votes[v]: the voting power of v, possibly 0
          Weight,     \* Weight[S]: the sum of Votes over S
          Honest,     \* the validators that follow the protocol
          U64         \* the number of values of a u64: 2^64 in the code

ASSUME VotesAssumption ==
    /\ Votes \in [Validators -> Nat]
    /\ Weight \in [SUBSET Validators -> Nat]
    /\ Weight[{}] = 0
    /\ \A v \in Validators : Weight[{v}] = Votes[v]
    /\ \A S \in SUBSET Validators : (\A v \in S : Votes[v] = 0) => Weight[S] = 0
    /\ \A S, T \in SUBSET Validators : S \cap T = {} => Weight[S \cup T] = Weight[S] + Weight[T]

total_votes == Weight[Validators]

\* The code adds up votes and doubles the total without overflow checks.
ASSUME U64Assumption == U64 \in Nat /\ 2 * total_votes + 2 < U64

\* Less than a third of the voting power is faulty.
ASSUME HonestAssumption ==
    /\ Honest \subseteq Validators
    /\ 3 * Weight[Validators \ Honest] < total_votes

quorum_threshold == ((2 * total_votes) % U64) \div 3 + 1

\* A mutant of validity_threshold: rounded down.
validity_threshold_rounded_down == (total_votes % U64) \div 3

validity_threshold == ((total_votes + 2) % U64) \div 3

weight(v) == IF v \in Validators THEN Votes[v] ELSE 0

(***************************************************************************)
(* Whether a certificate with these signatures, a sequence of signers, is  *)
(* valid: no signer twice or without votes, and a quorum of them.          *)
(***************************************************************************)
check_signatures(signers) ==
    /\ \A i, j \in DOMAIN signers : signers[i] = signers[j] => i = j
    /\ \A i \in DOMAIN signers : weight(signers[i]) > 0
    /\ Weight[{signers[i] : i \in DOMAIN signers}] >= quorum_threshold

\* Any two quorums share an honest validator: what the consensus assumes of its
\* committee, from the thresholds that Committee::new computes.
QuorumsIntersect ==
    \A Q1, Q2 \in SUBSET Validators :
        Weight[Q1] >= quorum_threshold /\ Weight[Q2] >= quorum_threshold
            => Q1 \cap Q2 \cap Honest # {}

\* The honest validators alone are a quorum, so faulty ones cannot prevent one.
HonestAreQuorum == Weight[Honest] >= quorum_threshold

\* Validators with validity_threshold votes include an honest one, and those
\* without them cannot prevent a quorum (the comment in Committee::new).
ValidityHasHonest ==
    \A S \in SUBSET Validators :
        Weight[S] >= validity_threshold <=> Weight[Validators \ S] < quorum_threshold
=============================================================================
