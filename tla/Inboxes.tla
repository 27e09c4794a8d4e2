------------------------------ MODULE Inboxes ------------------------------
(***************************************************************************)
(* The inboxes of one chain on several nodes, validators and clients alike.*)
(* Each node learns the senders' blocks and the chain's own blocks at its  *)
(* own pace: process_cross_chain_update adds the bundles of some heights   *)
(* to the inbox of their origin, process_confirmed_block executes the next *)
(* confirmed block, which removes the bundles it consumes.                 *)
(*                                                                         *)
(* A block is the sequence of its incoming bundles.  Blocks are confirmed  *)
(* only if some correct node that executed all earlier blocks votes for    *)
(* them, which it does if the bundles can be removed from its inboxes and  *)
(* all of them were there (validate_incoming_bundles).                     *)
(* The timestamps of a block and its bundles, which are compared before    *)
(* anything is removed, are part of the block: a block that is confirmed   *)
(* has passed the comparison, and passes it everywhere.                    *)
(***************************************************************************)
EXTENDS Inbox, SequencesExt

CONSTANTS Nodes,       \* the correct nodes
          Origins,     \* the origins of the incoming messages
          Sent,        \* Sent[o]: the bundles in o's certified blocks, in order
          Named,       \* Named[o]: the bundles a proposer may name
          Deprecated,  \* Deprecated[o]: the heights of o's blocks from an old epoch
          RetiredAt,   \* the old epoch's committee is gone after so many blocks
          MaxBlocks,   \* bounds the number of confirmed blocks
          MaxIncoming  \* bounds the number of bundles of a block

ASSUME SentAssumption ==
    /\ Sent \in [Origins -> Seq(MessageBundle)]
    /\ Named \in [Origins -> SUBSET MessageBundle]
    /\ \A o \in Origins : /\ \A j, k \in DOMAIN Sent[o] : j < k => cursor(Sent[o][j]) < cursor(Sent[o][k])
                          /\ \A k \in DOMAIN Sent[o] : has_next_cursor(Sent[o][k])

ASSUME DeprecatedAssumption == Deprecated \in [Origins -> SUBSET Heights] /\ RetiredAt \in Nat

VARIABLES blocks,       \* the confirmed blocks of the chain
          executed,     \* executed[n]: how many of them node n has executed
          inboxes,      \* inboxes[n][o]
          unskippable_bundles,          \* [n]: the queue of bundles that block the chain
          removed_unskippable_bundles   \* [n]: those of the queue that are gone already

vars == <<blocks, executed, inboxes, unskippable_bundles, removed_unskippable_bundles>>

BundleInInbox == UNION {{o} \X Named[o] : o \in Origins}

\* The incoming bundles that a block may have.  Blocks without any do not
\* touch the inboxes and are left out.
Block == SeqOf(BundleInInbox, MaxIncoming) \ {<<>>}

Init ==
    /\ blocks = <<>>
    /\ executed = [n \in Nodes |-> 0]
    /\ inboxes = [n \in Nodes |-> [o \in Origins |-> EmptyInbox]]
    /\ unskippable_bundles = [n \in Nodes |-> <<>>]
    /\ removed_unskippable_bundles = [n \in Nodes |-> {}]

-----------------------------------------------------------------------------
(***************************************************************************)
(* remove_bundles_from_inboxes.  The bundles are removed one by one;       *)
(* removed collects the unskippable ones that had been added.              *)
(***************************************************************************)
remove_one(acc, entry) ==
    LET o == entry[1]
        b == entry[2]
        i == acc.inboxes[o]
    IN  [ok      |-> acc.ok /\ can_remove(i, b),
         inboxes |-> [acc.inboxes EXCEPT ![o] = remove_bundle(i, b)],
         removed |-> IF already_known(i, b) /\ ~b.skippable THEN acc.removed \cup {entry}
                     ELSE acc.removed]

remove_bundles(i, block) ==
    LET after[k \in 0 .. Len(block)] ==
            IF k = 0 THEN [ok |-> TRUE, inboxes |-> i, removed |-> {}]
            ELSE remove_one(after[k - 1], block[k])
    IN  after[Len(block)]

\* How many entries are taken off the front of the unskippable queue: if the first
\* is removed by this block, all up to the first that neither this block nor an earlier
\* one removed.
to_pop(queue, gone, removed) ==
    LET kept == SelectInSeq(queue, LAMBDA e : e \notin gone \cup removed)
    IN  IF queue = <<>> \/ Head(queue) \notin removed THEN 0
        ELSE IF kept = 0 THEN Len(queue) ELSE kept - 1

\* Mutants of delete_removed: earlier removals stay in the set when their entries leave
\* the queue; only one entry is taken off.
delete_removed_remembering(queue, gone, removed) ==
    LET n      == to_pop(queue, gone, removed)
        popped == {queue[k] : k \in 1 .. n}
    IN  [queue |-> SubSeq(queue, n + 1, Len(queue)),
         gone  |-> gone \cup (removed \ popped)]

delete_removed_front(queue, gone, removed) ==
    LET n      == Min({1, to_pop(queue, gone, removed)})
        popped == {queue[k] : k \in 1 .. n}
    IN  [queue |-> SubSeq(queue, n + 1, Len(queue)),
         gone  |-> gone \cup (removed \ popped)]

\* Deletes the removed bundles from the front of the unskippable queue.  Those behind
\* it are kept in a set, from which an entry is deleted when it is taken off.
delete_removed(queue, gone, removed) ==
    LET n      == to_pop(queue, gone, removed)
        popped == {queue[k] : k \in 1 .. n}
    IN  [queue |-> SubSeq(queue, n + 1, Len(queue)),
         gone  |-> (gone \ (popped \ removed)) \cup (removed \ popped)]

\* A mutant of validate_incoming_bundles: bundles nobody received may be named.
validate_incoming_bundles_not(i) == TRUE

\* No bundle was removed by anticipation.
validate_incoming_bundles(i) == \A o \in Origins : i[o].removed_bundles = {}

\* Node n votes for a block on top of the confirmed ones, on a copy of its
\* state, and the block is confirmed.
confirm_block(n, block) ==
    /\ executed[n] = Len(blocks)
    /\ Len(blocks) < MaxBlocks
    /\ LET r == remove_bundles(inboxes[n], block)
       IN  r.ok /\ validate_incoming_bundles(r.inboxes)
    /\ blocks' = Append(blocks, block)
    /\ UNCHANGED <<executed, inboxes, unskippable_bundles, removed_unskippable_bundles>>

process_confirmed_block(n) ==
    /\ executed[n] < Len(blocks)
    /\ LET r == remove_bundles(inboxes[n], blocks[executed[n] + 1])
           q == delete_removed(unskippable_bundles[n], removed_unskippable_bundles[n], r.removed)
       IN  /\ r.ok
           /\ inboxes' = [inboxes EXCEPT ![n] = r.inboxes]
           /\ unskippable_bundles' = [unskippable_bundles EXCEPT ![n] = q.queue]
           /\ removed_unskippable_bundles' = [removed_unskippable_bundles EXCEPT ![n] = q.gone]
    /\ executed' = [executed EXCEPT ![n] = @ + 1]
    /\ UNCHANGED blocks

-----------------------------------------------------------------------------
(***************************************************************************)
(* process_cross_chain_update with the bundles up to some height.  Those   *)
(* the inbox has already are left out, and so are those after the last one *)
(* that is trusted: because its epoch still is, or because the chain's own *)
(* blocks have consumed a bundle from its height or above.                 *)
(***************************************************************************)
last_anticipated_block_height(i) ==
    {b.height : b \in {a \in i.removed_bundles : \A c \in i.removed_bundles : cursor(a) >= cursor(c)}}

\* A mutant of is_trusted: anticipated messages are not trusted.
is_trusted_by_epoch(n, o, b) == b.height \notin Deprecated[o] \/ executed[n] < RetiredAt

is_trusted(n, o, b) ==
    \/ b.height \notin Deprecated[o] \/ executed[n] < RetiredAt
    \/ \E h \in last_anticipated_block_height(inboxes[n][o]) : b.height <= h

select_message_bundles(n, o, h) ==
    LET next          == next_block_height_to_receive(inboxes[n][o])
        vouches(a, b) == cursor(b) <= cursor(a) /\ a.height <= h /\ is_trusted(n, o, a)
    IN  SelectSeq(Sent[o], LAMBDA b : /\ next <= b.height /\ b.height <= h
                                      /\ \E k \in DOMAIN Sent[o] : vouches(Sent[o][k], b))

receive_message_bundle(o, acc, b) ==
    [ok    |-> acc.ok /\ can_add(acc.inbox, b),
     inbox |-> add_bundle(acc.inbox, b),
     queue |-> IF newly_added(acc.inbox, b) /\ ~b.skippable THEN Append(acc.queue, <<o, b>>)
               ELSE acc.queue]

receive_bundles(i, queue, o, bundles) ==
    LET after[k \in 0 .. Len(bundles)] ==
            IF k = 0 THEN [ok |-> TRUE, inbox |-> i, queue |-> queue]
            ELSE receive_message_bundle(o, after[k - 1], bundles[k])
    IN  after[Len(bundles)]

process_cross_chain_update(n, o, h) ==
    LET bundles == select_message_bundles(n, o, h)
        r       == receive_bundles(inboxes[n][o], unskippable_bundles[n], o, bundles)
    IN  /\ bundles # <<>>
        /\ r.ok
        /\ inboxes' = [inboxes EXCEPT ![n][o] = r.inbox]
        /\ unskippable_bundles' = [unskippable_bundles EXCEPT ![n] = r.queue]
        /\ UNCHANGED <<blocks, executed, removed_unskippable_bundles>>

Next ==
    \E n \in Nodes :
        \/ \E block \in Block : confirm_block(n, block)
        \/ process_confirmed_block(n)
        \/ \E o \in Origins, h \in Heights : process_cross_chain_update(n, o, h)

\* Nodes keep receiving the senders' blocks: certified blocks stay in the
\* sender's outbox, and are sent again, until they are received.
Fairness ==
    \A n \in Nodes, o \in Origins :
        WF_vars(\E h \in Heights : process_cross_chain_update(n, o, h))

Spec == Init /\ [][Next]_vars /\ Fairness

-----------------------------------------------------------------------------
TypeOK ==
    /\ blocks \in Seq(Seq(BundleInInbox)) /\ Len(blocks) <= MaxBlocks
    /\ executed \in [Nodes -> 0 .. Len(blocks)]
    /\ \A n \in Nodes, o \in Origins : inboxes[n][o] \in Inbox
    /\ \A n \in Nodes : /\ unskippable_bundles[n] \in Seq(BundleInInbox)
                        /\ removed_unskippable_bundles[n] \subseteq Range(unskippable_bundles[n])

\* The bundles that the first k blocks consumed from origin o.
Consumed(o, k) == {e[2] : e \in {x \in UNION {Range(blocks[j]) : j \in 1 .. k} : x[1] = o}}

(***************************************************************************)
(* "The verifications should not fail in production unless many validators *)
(* are faulty" (add_bundle): whatever the order in which a node received   *)
(* bundles and executed blocks, certified bundles can be added, and        *)
(* confirmed blocks can remove theirs.                                     *)
(***************************************************************************)
InboxesNeverFail ==
    \A n \in Nodes :
        /\ executed[n] < Len(blocks) => remove_bundles(inboxes[n], blocks[executed[n] + 1]).ok
        /\ \A o \in Origins, h \in Heights :
              receive_bundles(inboxes[n][o], <<>>, o, select_message_bundles(n, o, h)).ok

(***************************************************************************)
(* "At least one of `added_bundles` and `removed_bundles` should be        *)
(* empty", and the two queues are what the node's past determines: the     *)
(* received bundles that are neither consumed nor skipped, and the         *)
(* consumed bundles that are not received.  So nodes that received and     *)
(* executed the same have the same inboxes, whatever the order.            *)
(***************************************************************************)
QueuesMatchHistory ==
    \A n \in Nodes, o \in Origins :
        LET i        == inboxes[n][o]
            received == {b \in Range(Sent[o]) : cursor(b) < i.next_cursor_to_add}
            consumed == Consumed(o, executed[n])
        IN  /\ i.added_bundles = {b \in received : cursor(b) >= i.next_cursor_to_remove}
            /\ i.removed_bundles = consumed \ received
            /\ i.added_bundles = {} \/ i.removed_bundles = {}

\* Confirmed blocks consume each bundle at most once, only bundles the sender
\* sent, in order, and pass over none that must not be skipped.
ConsumedOnceInOrder ==
    \A o \in Origins :
        LET consumed == SelectSeq(FlattenSeq(blocks), LAMBDA e : e[1] = o)
            b(k)     == consumed[k][2]
        IN  /\ \A k \in DOMAIN consumed : b(k) \in Range(Sent[o])
            /\ \A k \in 1 .. Len(consumed) - 1 : cursor(b(k)) < cursor(b(k + 1))
            /\ consumed # <<>> =>
                  \A s \in Range(Sent[o]) : /\ cursor(s) < cursor(b(Len(consumed)))
                                     /\ ~s.skippable
                                     => \E k \in DOMAIN consumed : b(k) = s

\* The front of the unskippable queue, whose age decides on the fallback to
\* the validators' rounds, is a bundle that still waits in an inbox, and every
\* such bundle is in the queue.
UnskippableQueueMatchesInboxes ==
    \A n \in Nodes :
        /\ unskippable_bundles[n] # <<>> =>
              Head(unskippable_bundles[n]) \notin removed_unskippable_bundles[n]
        /\ Range(unskippable_bundles[n]) \ removed_unskippable_bundles[n] =
              UNION {{<<o, b>> : b \in {a \in inboxes[n][o].added_bundles : ~a.skippable}} :
                        o \in Origins}

\* "Every removed bundle must be eventually added": a node that keeps receiving
\* the senders' blocks settles all bundles that were consumed by anticipation,
\* even those of an epoch that is not trusted any more.
AnticipatedBundlesArrive ==
    \A n \in Nodes, o \in Origins : []<>(inboxes[n][o].removed_bundles = {})
=============================================================================
