--------------------------- MODULE ChainOwnership ---------------------------
(***************************************************************************)
(* The ownership configuration of a microchain and the arithmetic of its   *)
(* consensus rounds (linera-base/src/ownership.rs, data_types.rs).         *)
(*                                                                         *)
(* A Round is Fast, MultiLeader(r), SingleLeader(r) or Validator(r) with r *)
(* a u32, ordered in that order.  The model numbers the rounds by their    *)
(* rank in this order, so that the derived Ord of the enumeration is <= on *)
(* the integers.  U32Max stands for u32::MAX.                              *)
(***************************************************************************)
EXTENDS Integers

CONSTANTS SuperOwners,        \* owners that may propose in any round
          Owners,             \* regular owners
          MultiLeaderRounds,  \* multi_leader_rounds of the ownership
          FastTimesOut,       \* fast_round_duration is Some(..)
          U32Max              \* the largest u32

ASSUME OwnershipAssumption ==
    /\ U32Max \in Nat
    /\ MultiLeaderRounds \in 0 .. U32Max
    /\ FastTimesOut \in BOOLEAN

Fast            == 0
MultiLeader(r)  == 1 + r
SingleLeader(r) == U32Max + 2 + r
Validator(r)    == 2 * U32Max + 3 + r

Round == Fast .. Validator(U32Max)

is_fast(r)         == r = Fast
is_multi_leader(r) == Fast < r /\ r < SingleLeader(0)

first_round ==
    IF SuperOwners # {} THEN Fast
    ELSE IF Owners = {} THEN Validator(0)
    ELSE IF MultiLeaderRounds > 0 THEN MultiLeader(0)
    ELSE SingleLeader(0)

(***************************************************************************)
(* An Option is modelled throughout by the set of its values: {} is None   *)
(* and {x} is Some(x).  next_round is None after the last validator round; *)
(* it skips the multi-leader rounds beyond the configured number; the last *)
(* single-leader round is followed by the first validator round.           *)
(***************************************************************************)
successor(r) ==
    IF r < SingleLeader(0) /\ ~ (r < MultiLeader(MultiLeaderRounds - 1))
    THEN SingleLeader(0)
    ELSE r + 1

next_round(r) == IF r = Validator(U32Max) THEN {} ELSE {successor(r)}

saturating_add_one(n) == IF n = U32Max THEN n ELSE n + 1

\* Whether the round has a duration, i.e. round_timeout(r) is Some(..).
round_timeout(r) ==
    IF is_fast(r) THEN FastTimesOut
    ELSE is_multi_leader(r) =>
             saturating_add_one(r - MultiLeader(0)) = MultiLeaderRounds
=============================================================================
