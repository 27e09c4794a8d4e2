---------------------------- MODULE AtomicStore -----------------------------
(***************************************************************************)
(* What linera-views expects of a key-value store: a batch is written as a *)
(* whole or not at all, also if the process crashes meanwhile, and it is   *)
(* there to stay once write_batch returns without an error.                *)
(***************************************************************************)
EXTENDS KeyValues

CONSTANTS Batches, Writers

VARIABLES content,   \* what a reader of the store finds
          pending,   \* [w]: the operations that w is about to write, at most one set
          status     \* [w]: "running", or the result of the last call of write_batch

Init ==
    /\ content = [k \in Keys |-> Absent]
    /\ pending = [w \in Writers |-> {}]
    /\ status = [w \in Writers |-> "none"]

begin(w, ops) ==
    /\ status[w] # "running"
    /\ pending' = [pending EXCEPT ![w] = {ops}]
    /\ status' = [status EXCEPT ![w] = "running"]
    /\ UNCHANGED content

commit(w) ==
    /\ \E ops \in pending[w] : content' = Apply(content, ops)
    /\ pending' = [pending EXCEPT ![w] = {}]
    /\ UNCHANGED status

\* Only what is committed is reported as written.
succeed(w) ==
    /\ status[w] = "running" /\ pending[w] = {}
    /\ status' = [status EXCEPT ![w] = "ok"]
    /\ UNCHANGED <<content, pending>>

\* Calls end with an error, or in a crash, before or after they are committed.
fail ==
    /\ \E failed \in SUBSET {w \in Writers : status[w] = "running"} :
          /\ pending' = [w \in Writers |-> IF w \in failed THEN {} ELSE pending[w]]
          /\ status' = [w \in Writers |-> IF w \in failed THEN "failed" ELSE status[w]]
    /\ UNCHANGED content

Next ==
    \/ \E w \in Writers : commit(w) \/ succeed(w) \/ \E ops \in Batches : begin(w, ops)
    \/ fail

Spec == Init /\ [][Next]_<<content, pending, status>>
=============================================================================
