---------------------------- MODULE MCJournaling ----------------------------
(* Instances of Journaling for TLC: batches of different lengths, with     *)
(* insertions and deletions, of which some are too large for a transaction.*)
EXTENDS Journaling, TLC

CONSTANTS a, b

MCValueLen == [v \in Values |-> IF v = a THEN 1 ELSE 9]

MCBatches == {<<<<1, a>>>>, <<<<1, Absent>>, <<2, a>>>>,
              <<<<1, b>>, <<2, b>>, <<3, b>>, <<4, b>>>>,
              <<<<3, Absent>>, <<1, a>>, <<2, b>>, <<4, a>>, <<5, a>>>>}
=============================================================================
