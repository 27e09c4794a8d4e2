------------------------------ MODULE Delivery ------------------------------
(***************************************************************************)
(* Cross-chain messages on one node (validator or client): a chain's       *)
(* blocks schedule messages for other chains, UpdateRecipient requests     *)
(* carry them to the recipients' inboxes, ConfirmUpdatedRecipient requests *)
(* acknowledge them, and callers are notified once the messages of a block *)
(* are delivered.  Requests between the shards of a node are sent by       *)
(* concurrent tasks that retry and finally give up                         *)
(* (forward_cross_chain_queries): they are lost, repeated and reordered.   *)
(*                                                                         *)
(* A block is the set of targets it has messages for.  An inbox is the     *)
(* next height to receive, and the heights received so far.  The handler   *)
(* of an update calls the recipient's chain worker once per medium, and    *)
(* other handlers run between these calls.                                 *)
(***************************************************************************)
EXTENDS Outbox, Sequences, FiniteSetsExt

CONSTANTS Recipients,      \* the recipient chains
          Mediums,         \* the sequence of mediums: direct, then channels
          IsValidator,     \* validators have no set of tracked chains
          tracked_chains,  \* the recipients whose chains a client tracks
          OpenChain,       \* <<t, h>>: the message for t at height h creates the recipient
          Callers,         \* those who wait for the delivery of messages
          queue_size,      \* bounds the number of requests in flight
          MaxUpdates       \* bound: handlers of updates that are under way at a time

ASSUME TargetsAssumption == Targets \subseteq Recipients \X Range(Mediums)
ASSUME DeliveryAssumption ==
    /\ IsFiniteSet(Targets)
    /\ Heights \subseteq Nat
    /\ IsValidator \in BOOLEAN /\ tracked_chains \subseteq Recipients
    /\ OpenChain \subseteq Targets \X Heights
    /\ queue_size \in Nat /\ MaxUpdates \in Nat

VARIABLES blocks,                    \* the blocks processed: blocks[h + 1] \subseteq Targets
          outboxes, outbox_counters, \* the chain's outboxes
          next_height_to_receive,    \* [t]: the state of the recipient's inbox
          received,                  \* [t]: the heights that were added to it
          is_active,                 \* [r]: the recipient chain is active here
          network,                   \* the requests in flight
          updating,                  \* the handlers of updates between two mediums
          notifying,                 \* the heights found to be delivered by the worker
          callers                    \* [c]: what a caller waits for

sender_vars    == <<blocks, outboxes, outbox_counters>>
recipient_vars == <<next_height_to_receive, received, is_active>>

vars == <<sender_vars, recipient_vars, network, updating, notifying, callers>>

is_tracked(t) == IsValidator \/ t[1] \in tracked_chains

\* Clients keep the state of chains that they do not know yet to exist.
allow_inactive_chains == ~IsValidator

\* This chain's blocks create the recipient r.
is_child(r) == \E x \in OpenChain : x[1][1] = r

\* A request carries the heights for each medium; a confirmation the latest
\* height for each medium that was updated, in the order of the mediums.
Update(r, heights)      == [kind |-> "update", recipient |-> r, heights |-> heights]
Confirm(r, latest)      == [kind |-> "confirm", recipient |-> r, latest |-> latest]

\* A caller that has its worker's answer holds the requests to be sent.
Idle                    == [state |-> "idle"]
Registering(h, actions) == [state |-> "registering", height |-> h, actions |-> actions]
Waiting(h)              == [state |-> "waiting", height |-> h]
Notified(h)             == [state |-> "notified", height |-> h]

Init ==
    /\ blocks = <<>>
    /\ outboxes = [t \in Targets |-> EmptyOutbox]
    /\ outbox_counters = [h \in Heights |-> 0]
    /\ next_height_to_receive = [t \in Targets |-> 0]
    /\ received = [t \in Targets |-> {}]
    /\ is_active \in {a \in [Recipients -> BOOLEAN] : \A r \in Recipients : a[r] => ~is_child(r)}
    /\ network = {} /\ updating = {} /\ notifying = {}
    /\ callers = [c \in Callers |-> Idle]

-----------------------------------------------------------------------------
\* Loads the pending requests: one for each recipient, with all heights that
\* are not acknowledged.
create_network_actions(boxes) ==
    {Update(r, [m \in Range(Mediums) |->
                   IF <<r, m>> \in Targets /\ is_tracked(<<r, m>>) THEN boxes[<<r, m>>].queue ELSE {}]) :
        r \in {t[1] : t \in {x \in Targets : is_tracked(x) /\ boxes[x].queue # {}}}}

has_messages_lower_or_equal_than(request, h) ==
    \E m \in Range(Mediums) : \E q \in request.heights[m] : q <= h

\* A mutant of send: the queue is not bounded.
send_unbounded(requests) == network' = network \cup requests

\* handle_network_actions: the requests are queued in the order they were loaded in,
\* up to the first for which the queue is full.  Any order is allowed here, so those
\* that are sent are any that fill the queue.
send(requests) ==
    \E sent \in SUBSET requests :
        /\ network' = network \cup sent
        /\ Cardinality(network') <= queue_size
        /\ sent = requests \/ Cardinality(network') = queue_size

(***************************************************************************)
(* A caller hands in the certificate of the block at height h.  The worker *)
(* executes it if it is the next one; if it was executed already, it loads *)
(* the pending requests again.  The caller may ask to be notified.         *)
(***************************************************************************)
process_confirmed_block(c, targets) ==
    /\ callers[c].state = "idle"
    /\ Len(blocks) \in Heights
    /\ LET h     == Len(blocks)
           boxes == schedule_outboxes(outboxes, targets, h)
       IN  /\ outboxes' = boxes
           /\ outbox_counters' = schedule_counters(outbox_counters, outboxes, targets, h)
           /\ callers' = [callers EXCEPT ![c] = Registering(h, create_network_actions(boxes))]
    /\ blocks' = Append(blocks, targets)
    /\ UNCHANGED <<recipient_vars, network, updating, notifying>>

process_confirmed_block_again(c, h) ==
    /\ callers[c].state = "idle"
    /\ h < Len(blocks)
    /\ callers' = [callers EXCEPT ![c] = Registering(h, create_network_actions(outboxes))]
    /\ UNCHANGED <<sender_vars, recipient_vars, network, updating, notifying>>

\* Requests are loaded again when a proposal or a query is handled.
resend ==
    /\ send(create_network_actions(outboxes))
    /\ UNCHANGED <<sender_vars, recipient_vars, updating, notifying, callers>>

(***************************************************************************)
(* Some time after the worker's answer the notifier is registered and the  *)
(* requests are sent.  A caller that has nothing to wait for is notified.  *)
(***************************************************************************)
register_delivery_notifier(c) ==
    /\ callers[c].state = "registering"
    /\ LET h       == callers[c].height
           actions == callers[c].actions
           wait    == \E a \in actions : has_messages_lower_or_equal_than(a, h)
       IN  /\ callers' = [callers EXCEPT ![c] = IF wait THEN Waiting(h) ELSE Notified(h)]
           /\ send(actions)
    /\ UNCHANGED <<sender_vars, recipient_vars, updating, notifying>>

\* A caller is done, or does not wait any longer.
leave(c) ==
    /\ callers[c].state \in {"waiting", "notified"}
    /\ callers' = [callers EXCEPT ![c] = Idle]
    /\ UNCHANGED <<sender_vars, recipient_vars, network, updating, notifying>>

-----------------------------------------------------------------------------
\* A mutant of select_message_heights: off by one.
select_message_heights_after(t, heights) == {h \in heights : h > next_height_to_receive[t]}

\* The heights of a request that the inbox of target t has not received yet.
select_message_heights(t, heights) == {h \in heights : h >= next_height_to_receive[t]}

\* The mediums of a request, in their order.
mediums(q) == SelectSeq(Mediums, LAMBDA m : q.heights[m] # {})

\* Whether an update of target t with new heights is kept: there are any, and the
\* recipient is active by then.
opens(t, new)       == \E h \in new : <<t, h>> \in OpenChain
is_accepted(t, new) == new # {} /\ (allow_inactive_chains \/ is_active[t[1]] \/ opens(t, new))

\* process_cross_chain_update: the inbox of target t receives the new heights, and
\* the recipient is created if one of the messages says so.
process_cross_chain_update(t, new) ==
    IF is_accepted(t, new)
    THEN /\ next_height_to_receive' = [next_height_to_receive EXCEPT ![t] = Max(new) + 1]
         /\ received' = [received EXCEPT ![t] = @ \cup new]
         /\ is_active' = [is_active EXCEPT ![t[1]] = @ \/ opens(t, new)]
    ELSE UNCHANGED recipient_vars

\* A mutant of height_by_origin: what an inactive recipient threw away counts, too.
height_by_origin_inactive(latest, t, new) ==
    IF new = {} THEN latest ELSE Append(latest, <<t[2], Max(new)>>)

\* The latest heights to be confirmed, after the update of target t.
height_by_origin(latest, t, new) ==
    IF is_accepted(t, new) THEN Append(latest, <<t[2], Max(new)>>) ELSE latest

(***************************************************************************)
(* The handler of UpdateRecipient processes the first of the mediums rest  *)
(* of request q.  After the last one it confirms those that were updated,  *)
(* if any.                                                                 *)
(***************************************************************************)
update_recipient(others, q, rest, latest) ==
    LET t    == <<q.recipient, Head(rest)>>
        new  == select_message_heights(t, q.heights[Head(rest)])
        done == height_by_origin(latest, t, new)
    IN  /\ process_cross_chain_update(t, new)
        /\ IF Len(rest) > 1
           THEN /\ updating' = others \cup {[request |-> q, rest |-> Tail(rest), latest |-> done]}
                /\ Cardinality(updating') <= MaxUpdates
                /\ UNCHANGED network
           ELSE /\ updating' = others
                /\ IF done = <<>> THEN UNCHANGED network ELSE send({Confirm(q.recipient, done)})
        /\ UNCHANGED <<sender_vars, notifying, callers>>

handle_update_recipient(q) ==
    /\ q.kind = "update"
    /\ update_recipient(updating, q, mediums(q), <<>>)

continue_update_recipient(u) ==
    update_recipient(updating \ {u}, u.request, u.rest, u.latest)

\* An error ends the handler after some of the mediums; nothing is confirmed.
interrupt_update_recipient(u) ==
    /\ updating' = updating \ {u}
    /\ UNCHANGED <<sender_vars, recipient_vars, network, notifying, callers>>

\* The recipient's chain is created by another chain's message.
activate(r) ==
    /\ ~is_active[r] /\ ~is_child(r)
    /\ is_active' = [is_active EXCEPT ![r] = TRUE]
    /\ UNCHANGED <<sender_vars, next_height_to_receive, received, network, updating, notifying, callers>>

-----------------------------------------------------------------------------
\* A mutant of all_messages_to_tracked_chains_delivered_up_to: clients do not
\* look at their outboxes.
all_messages_of_validators_delivered_up_to(boxes, counters, h) ==
    ~IsValidator \/ all_messages_delivered_up_to(counters, h)

\* For a client only the chains it tracks count.
all_messages_to_tracked_chains_delivered_up_to(boxes, counters, h) ==
    \/ all_messages_delivered_up_to(counters, h)
    \/ ~IsValidator /\ \A t \in Targets : is_tracked(t) => \A q \in boxes[t].queue : q > h

(***************************************************************************)
(* confirm_updated_recipient: the targets of a confirmation are            *)
(* acknowledged one after the other.  What the first k took from the       *)
(* outboxes, and whether all messages up to the height of the k-th were    *)
(* delivered at that moment.                                               *)
(***************************************************************************)
taken(q, k) ==
    [t \in Targets |->
        {h \in Heights : \E i \in 1 .. k : /\ <<q.recipient, q.latest[i][1]>> = t
                                          /\ h \in acknowledged(outboxes[t], q.latest[i][2])}]

fully_delivered(q, k) ==
    /\ taken(q, k) # taken(q, k - 1)
    /\ all_messages_to_tracked_chains_delivered_up_to(mark_outboxes(outboxes, taken(q, k)),
                                                      mark_counters(outbox_counters, taken(q, k)),
                                                      q.latest[k][2])

height_with_fully_delivered_messages(q) ==
    Max({0} \cup {q.latest[k][2] : k \in {i \in DOMAIN q.latest : fully_delivered(q, i)}})

handle_confirm_updated_recipient(q) ==
    /\ q.kind = "confirm"
    /\ outboxes' = mark_outboxes(outboxes, taken(q, Len(q.latest)))
    /\ outbox_counters' = mark_counters(outbox_counters, taken(q, Len(q.latest)))
    /\ notifying' = notifying \cup {height_with_fully_delivered_messages(q)}
    /\ UNCHANGED <<recipient_vars, blocks, network, updating, callers>>

\* The rest of that handler: the notifiers up to the height are taken.
notify_callers(h) ==
    /\ h \in notifying
    /\ notifying' = notifying \ {h}
    /\ callers' = [c \in Callers |-> IF callers[c].state = "waiting" /\ callers[c].height <= h
                                     THEN Notified(callers[c].height) ELSE callers[c]]
    /\ UNCHANGED <<sender_vars, recipient_vars, network, updating>>

-----------------------------------------------------------------------------
\* A request is dropped when its task gives up; the others stay, and may be
\* delivered again.
lose(q) ==
    /\ network' = network \ {q}
    /\ UNCHANGED <<sender_vars, recipient_vars, updating, notifying, callers>>

\* A restart of the node, which keeps the chains but not the callers and handlers.
restart ==
    /\ notifying' = {} /\ updating' = {}
    /\ callers' = [c \in Callers |-> Idle]
    /\ UNCHANGED <<sender_vars, recipient_vars, network>>

Next ==
    \/ \E c \in Callers :
          \/ \E targets \in SUBSET Targets : process_confirmed_block(c, targets)
          \/ \E h \in Heights : process_confirmed_block_again(c, h)
          \/ register_delivery_notifier(c)
          \/ leave(c)
    \/ resend
    \/ \E q \in network : \/ handle_update_recipient(q)
                          \/ handle_confirm_updated_recipient(q) \/ lose(q)
    \/ \E u \in updating : continue_update_recipient(u) \/ interrupt_update_recipient(u)
    \/ \E h \in notifying : notify_callers(h)
    \/ \E r \in Recipients : activate(r)
    \/ restart

Safety == Init /\ [][Next]_vars

\* The recipient would keep something of what the mediums of request q carry.
brings_news(q, ms) ==
    \E m \in Range(ms) :
        LET t == <<q.recipient, m>> IN is_accepted(t, select_message_heights(t, q.heights[m]))

(***************************************************************************)
(* Requests are loaded and sent again and again, and of the requests with  *)
(* news that keep being sent some arrive: max_retries attempts are made    *)
(* for each, then its task ends and it leaves the queue.  Of the handlers  *)
(* that go from medium to medium some are not interrupted.  Callers' and   *)
(* notifying handlers run to their end.                                    *)
(***************************************************************************)
Fairness ==
    /\ WF_vars(resend)
    /\ \A r \in Recipients :
          /\ SF_vars(\E q \in network : /\ q.recipient = r /\ q.kind = "update"
                                       /\ brings_news(q, mediums(q)) /\ handle_update_recipient(q))
          /\ SF_vars(\E u \in updating : /\ u.request.recipient = r /\ brings_news(u.request, u.rest)
                                        /\ continue_update_recipient(u))
          /\ SF_vars(\E q \in network : q.recipient = r /\ handle_confirm_updated_recipient(q))
    /\ WF_vars(\E u \in updating : continue_update_recipient(u) \/ interrupt_update_recipient(u))
    /\ WF_vars(\E q \in network : lose(q))
    /\ WF_vars(\E h \in notifying : notify_callers(h))
    /\ \A c \in Callers : WF_vars(register_delivery_notifier(c))

Spec == Safety /\ Fairness

-----------------------------------------------------------------------------
TypeOK ==
    /\ blocks \in Seq(SUBSET Targets) /\ (blocks # <<>> => Len(blocks) - 1 \in Heights)
    /\ outboxes \in [Targets -> OutboxState]
    /\ outbox_counters \in [Heights -> Nat]
    /\ next_height_to_receive \in [Targets -> Nat]
    /\ received \in [Targets -> SUBSET Heights]
    /\ is_active \in [Recipients -> BOOLEAN]
    /\ Cardinality(network) <= queue_size
    /\ \A q \in network : /\ q.kind \in {"update", "confirm"} /\ q.recipient \in Recipients
    /\ Cardinality(updating) <= MaxUpdates
    /\ \A u \in updating : u.request.kind = "update" /\ u.rest # <<>>
    /\ notifying \subseteq Heights
    /\ \A c \in Callers : callers[c].state \in {"idle", "registering", "waiting", "notified"}

\* The block at height h has messages for t.
HasMessages(t, h) == h < Len(blocks) /\ t \in blocks[h + 1]

\* Each counter is the number of outboxes with its height.  So the worker never
\* panics with "message counter should be present" or "should not underflow",
\* and all_messages_delivered_up_to tells the truth about the outboxes.
CountersMatchOutboxes ==
    \A h \in Heights : outbox_counters[h] = Cardinality({t \in Targets : h \in outboxes[t].queue})

\* "Keep sending these certified blocks of ours until they are acknowledged":
\* a height leaves an outbox only after the recipient's inbox has received it,
\* although outboxes are removed and created again.
OutboxKeepsUnreceived ==
    \A t \in Targets, h \in Heights :
        HasMessages(t, h) => h \in outboxes[t].queue \/ h \in received[t]

\* Inboxes are filled without gaps: below the next height to receive, they have
\* received all messages, in spite of requests that overtake each other.
NothingSkipped ==
    \A t \in Targets :
        received[t] = {h \in Heights : HasMessages(t, h) /\ h < next_height_to_receive[t]}

\* All messages that the node delivers from blocks up to height h are received.
DeliveredUpTo(h) ==
    \A t \in Targets, q \in Heights : q <= h /\ HasMessages(t, q) /\ is_tracked(t) => q \in received[t]

\* A caller that waits for a block other than the first is not notified before
\* all messages up to that block have been delivered.
NotifiedAfterDelivery ==
    \A c \in Callers :
        callers[c].state = "notified" /\ callers[c].height > 0 => DeliveredUpTo(callers[c].height)

\* The recipient can receive messages: a client's always can, a validator's is
\* active or about to be created by a message of this chain.
CanReceive(r) ==
    \/ allow_inactive_chains \/ is_active[r]
    \/ \E x \in OpenChain : x[1][1] = r /\ HasMessages(x[1], x[2])

\* Messages to the chains that the node delivers to arrive once the chains exist,
\* also those sent before, whatever is lost, repeated or reordered, and however
\* often handlers are interrupted and the node restarts.
MessagesArrive ==
    \A t \in Targets, h \in Heights :
        HasMessages(t, h) /\ is_tracked(t) /\ CanReceive(t[1]) ~> h \in received[t]

=============================================================================
