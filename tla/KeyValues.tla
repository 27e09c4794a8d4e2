----------------------------- MODULE KeyValues ------------------------------
(***************************************************************************)
(* The content of a key-value store, and the operations of a batch: a pair *)
(* <<key, value>> sets a key, or deletes it if the value is Absent.        *)
(***************************************************************************)
CONSTANTS Keys, Values, Absent

Content   == [Keys -> Values \cup {Absent}]
Operation == Keys \X (Values \cup {Absent})

\* The content after operations on distinct keys, in any order.
Apply(db, ops) ==
    [k \in Keys |-> IF \E op \in ops : op[1] = k THEN (CHOOSE op \in ops : op[1] = k)[2] ELSE db[k]]
=============================================================================
