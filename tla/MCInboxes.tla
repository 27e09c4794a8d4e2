----------------------------- MODULE MCInboxes -----------------------------
(* Instances of Inboxes for TLC: two senders, a chain with two bundles in  *)
(* one block, skippable bundles before and after ones that are not.        *)
EXTENDS Inboxes

CONSTANTS n1, n2, o1, o2

bundle(h, i, s) == [height |-> h, index |-> i, skippable |-> s]

MCSent ==
    [o \in Origins |-> IF o = o1 THEN <<bundle(0, 0, TRUE), bundle(0, 1, FALSE), bundle(2, 0, TRUE)>>
                       ELSE <<bundle(0, 1, FALSE)>>]

\* One named bundle is not what its sender sent.
MCNamed ==
    [o \in Origins |-> Range(MCSent[o]) \cup IF o = o2 THEN {bundle(0, 1, TRUE)} ELSE {}]

\* The first sender's blocks are from an old epoch.
MCDeprecated == [o \in Origins |-> IF o = o1 THEN Heights ELSE {}]
=============================================================================
