------------------------------- MODULE Ledger -------------------------------
(***************************************************************************)
(* What the consensus of a microchain promises: a single chain of blocks   *)
(* that grows by one block at a time and is never rewritten, and of which  *)
(* every node executes a prefix, block by block.                           *)
(***************************************************************************)
EXTENDS Naturals, Sequences

CONSTANTS Nodes,   \* who follows the chain
          Blocks   \* what a block may be

VARIABLES decided,   \* the chain
          delivered  \* delivered[n]: the part of it that n has executed

Init ==
    /\ decided = <<>>
    /\ delivered = [n \in Nodes |-> <<>>]

Decide ==
    /\ UNCHANGED delivered
    /\ Len(decided') = Len(decided) + 1
    /\ \E b \in Blocks : decided' = Append(decided, b)

Deliver(n) ==
    /\ Len(delivered'[n]) = Len(delivered[n]) + 1
    /\ Len(delivered[n]) < Len(decided)
    /\ delivered' = [delivered EXCEPT ![n] = Append(@, decided[Len(@) + 1])]
    /\ UNCHANGED decided

Next == Decide \/ \E n \in Nodes : Deliver(n)

Spec == Init /\ [][Next]_<<decided, delivered>>
=============================================================================
