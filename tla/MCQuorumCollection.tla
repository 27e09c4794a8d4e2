------------------------- MODULE MCQuorumCollection -------------------------
(***************************************************************************)
(* A committee of five with unequal votes, one of them without any: a      *)
(* total of 7, of which the faulty validator has 2; the quorum is 5 and    *)
(* the validity threshold 3.                                               *)
(***************************************************************************)
EXTENDS QuorumCollection

CONSTANTS v1, v2, v3, v4, v5

MCVotes  == [v \in Validators |-> CASE v = v1 -> 2 [] v = v2 -> 2 [] v = v3 -> 2 [] v = v4 -> 1 [] OTHER -> 0]
MCWeight == [S \in SUBSET Validators |-> MapThenSumSet(LAMBDA v : MCVotes[v], S)]
=============================================================================
