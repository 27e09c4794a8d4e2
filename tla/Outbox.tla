------------------------------- MODULE Outbox -------------------------------
(***************************************************************************)
(* The outboxes of one chain (linera-chain/src/outbox.rs and chain.rs): an *)
(* outbox per target holds the heights of the blocks with messages that    *)
(* the target has not acknowledged, and counters per height say in how     *)
(* many outboxes it is.                                                    *)
(*                                                                         *)
(* Heights are pushed in increasing order, so a queue is the set of its    *)
(* heights.  An outbox that is not in the collection is EmptyOutbox, which *)
(* is also what an entry contains when it is created and when it is left   *)
(* behind empty (by an acknowledgement that comes twice); a counter that   *)
(* is not in the map is 0, for those that become 0 are removed.            *)
(***************************************************************************)
EXTENDS Naturals, FiniteSets

CONSTANTS Targets,    \* the recipients of messages, each with a medium
          Heights     \* the heights of the chain's blocks

OutboxState == [next_height_to_schedule : Nat, queue : SUBSET Heights]

EmptyOutbox == [next_height_to_schedule |-> 0, queue |-> {}]

\* Whether schedule_message makes a change.
is_scheduled(o, h) == h >= o.next_height_to_schedule

schedule_message(o, h) ==
    IF is_scheduled(o, h) THEN [next_height_to_schedule |-> h + 1, queue |-> o.queue \cup {h}]
    ELSE o

\* A mutant of acknowledged: everything sent so far is.
acknowledged_all(o, h) == o.queue

\* The heights that an acknowledgement of h takes from the queue.
acknowledged(o, h) == {q \in o.queue : q <= h}

\* What is left of an outbox without some heights.  It is removed when this
\* empties it, and forgets the next height to schedule.
without(o, heights) ==
    IF heights # {} /\ o.queue \ heights = {} THEN EmptyOutbox
    ELSE [o EXCEPT !.queue = @ \ heights]

-----------------------------------------------------------------------------
\* The messages of a block at height h are scheduled for its targets.
schedule_outboxes(outboxes, targets, h) ==
    [t \in Targets |-> IF t \in targets THEN schedule_message(outboxes[t], h) ELSE outboxes[t]]

\* A mutant of schedule_counters: one message is counted per block.
schedule_counters_once(counters, outboxes, targets, h) ==
    [counters EXCEPT ![h] = @ + IF targets = {} THEN 0 ELSE 1]

schedule_counters(counters, outboxes, targets, h) ==
    [counters EXCEPT ![h] = @ + Cardinality({t \in targets : is_scheduled(outboxes[t], h)})]

(***************************************************************************)
(* mark_messages_as_received for several targets: done[t] are the heights  *)
(* that are taken from the outbox of t.                                    *)
(***************************************************************************)
mark_outboxes(outboxes, done) == [t \in Targets |-> without(outboxes[t], done[t])]

mark_counters(counters, done) ==
    [h \in Heights |-> counters[h] - Cardinality({t \in Targets : h \in done[t]})]

all_messages_delivered_up_to(counters, h) == \A q \in Heights : counters[q] > 0 => q > h
=============================================================================
