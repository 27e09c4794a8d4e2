------------------------------- MODULE Inbox -------------------------------
(***************************************************************************)
(* The inbox that a chain keeps for one origin (linera-chain/src/inbox.rs):*)
(* message bundles are added as the sender's blocks become known, removed  *)
(* as the chain's own blocks consume them, and may be removed before they  *)
(* are added.                                                              *)
(*                                                                         *)
(* A cursor (height, index) is the number height * U32 + index, which has  *)
(* the same order.  The two queues are the sets of their bundles: both     *)
(* functions refuse a cursor below the last one they saw, so that a queue  *)
(* is always sorted by cursors and its front is its least bundle.          *)
(***************************************************************************)
EXTENDS Integers

CONSTANTS Heights,     \* the sender's block heights
          Indices,     \* the transaction indices in a block
          U32          \* how many values a u32 has

ASSUME CursorAssumption ==
    /\ U32 \in Nat \ {0}
    /\ Heights \subseteq Nat
    /\ Indices \subseteq 0 .. U32 - 1

MessageBundle == [height : Heights, index : Indices, skippable : BOOLEAN]

cursor(b) == b.height * U32 + b.index

Inbox == [next_cursor_to_add : Nat, next_cursor_to_remove : Nat,
          added_bundles : SUBSET MessageBundle, removed_bundles : SUBSET MessageBundle]

EmptyInbox == [next_cursor_to_add |-> 0, next_cursor_to_remove |-> 0,
               added_bundles |-> {}, removed_bundles |-> {}]

\* The front of a queue, if it has one.
front(queue) == {b \in queue : \A a \in queue : cursor(b) <= cursor(a)}

\* Whether Cursor::try_add_one succeeds on the bundle's cursor.
has_next_cursor(b) == b.index + 1 < U32

next_block_height_to_receive(i) ==
    LET c == i.next_cursor_to_add
    IN  IF c % U32 = 0 THEN c \div U32 ELSE c \div U32 + 1

-----------------------------------------------------------------------------
\* What is left of the added bundles once those before b are discarded.
not_before(i, b) == {a \in i.added_bundles : cursor(a) >= cursor(b)}

\* A mutant of can_remove: bundles that must not be skipped are.
can_remove_skipping(i, b) ==
    /\ cursor(b) >= i.next_cursor_to_remove
    /\ not_before(i, b) # {} => b \in front(not_before(i, b))

\* Whether remove_bundle succeeds.
can_remove(i, b) ==
    /\ cursor(b) >= i.next_cursor_to_remove
    /\ \A a \in i.added_bundles \ not_before(i, b) : a.skippable
    /\ not_before(i, b) # {} => b \in front(not_before(i, b))
    /\ has_next_cursor(b)

remove_bundle(i, b) ==
    [i EXCEPT !.added_bundles         = not_before(i, b) \ {b},
              !.removed_bundles       = IF not_before(i, b) = {} THEN @ \cup {b} ELSE @,
              !.next_cursor_to_remove = cursor(b) + 1]

\* What remove_bundle returns: the bundle had been added.
already_known(i, b) == not_before(i, b) # {}

\* Whether add_bundle succeeds.
can_add(i, b) ==
    /\ cursor(b) >= i.next_cursor_to_add
    /\ \A p \in front(i.removed_bundles) :
          IF cursor(p) = cursor(b) THEN p = b ELSE cursor(b) < cursor(p) /\ b.skippable
    /\ has_next_cursor(b)

\* What add_bundle returns: the bundle waits in the inbox.
newly_added(i, b) == i.removed_bundles = {}

\* A mutant of add_bundle: an anticipated bundle is added once more.
add_bundle_again(i, b) ==
    [i EXCEPT !.added_bundles      = @ \cup {b},
              !.removed_bundles    = @ \ {b},
              !.next_cursor_to_add = cursor(b) + 1]

add_bundle(i, b) ==
    [i EXCEPT !.added_bundles      = IF newly_added(i, b) THEN @ \cup {b} ELSE @,
              !.removed_bundles    = @ \ {b},
              !.next_cursor_to_add = cursor(b) + 1]
=============================================================================
