------------------------------- MODULE Batch --------------------------------
(***************************************************************************)
(* Batches of write operations (linera-views/src/batch.rs): views put a    *)
(* list of operations together, simplify removes those that others         *)
(* overwrite, and stores that cannot delete prefixes expand them with the  *)
(* keys that they find.  The result has to be the same as if the           *)
(* operations were executed one after the other, although databases and    *)
(* journals execute it in any order.                                       *)
(*                                                                         *)
(* Keys and prefixes are sequences of bytes, ordered lexicographically.    *)
(***************************************************************************)
EXTENDS KeyValues, Integers, SequencesExt

CONSTANTS KeyPrefixes,        \* the prefixes that are deleted
          U8MAX,           \* the last byte
          MaxOperations    \* bound: the length of batches

ASSUME BytesAssumption ==
    /\ U8MAX \in Nat /\ MaxOperations \in Nat
    /\ Keys \cup KeyPrefixes \subseteq Seq(0 .. U8MAX)

VARIABLES operations,   \* the batch
          database,     \* the content of the store
          expected      \* its content after the operations, one after the other

vars == <<operations, database, expected>>

-----------------------------------------------------------------------------
less(v, w) ==
    \/ IsStrictPrefix(v, w)
    \/ \E i \in DOMAIN v \cap DOMAIN w : SubSeq(v, 1, i - 1) = SubSeq(w, 1, i - 1) /\ v[i] < w[i]

\* The optional upper bound of the keys with a prefix.
get_upper_bound_option(p) ==
    {[j \in 1 .. i |-> IF j = i THEN p[i] + 1 ELSE p[j]] :
        i \in {n \in DOMAIN p : p[n] < U8MAX /\ \A m \in n + 1 .. Len(p) : p[m] = U8MAX}}

in_interval(p, k) == ~less(k, p) /\ \A bound \in get_upper_bound_option(p) : less(k, bound)

\* Whether a set of prefixes, none of which is a prefix of another, matches a
\* key: only the last prefix up to the key is looked at.
is_prefix_matched(prefixes, k) ==
    \E p \in prefixes : /\ ~less(k, p)
                        /\ \A q \in prefixes : ~less(k, q) => ~less(p, q)
                        /\ IsPrefix(p, k)

(***************************************************************************)
(* simplify.  Its state is the map of deleted (Absent) and inserted keys,  *)
(* and the set of deleted prefixes.                                        *)
(***************************************************************************)
Put(k, v)       == [op |-> "put", key |-> k, value |-> v]
Delete(k)       == [op |-> "delete", key |-> k]
DeletePrefix(p) == [op |-> "delete_prefix", key |-> p]

Without(map, keys) == [k \in DOMAIN map \ keys |-> map[k]]
With(map, k, v)    == [q \in DOMAIN map \cup {k} |-> IF q = k THEN v ELSE map[q]]

\* A mutant of simplify_delete: a deleted prefix is thought to be enough.
simplify_delete_nothing(s, k) ==
    IF is_prefix_matched(s.prefixes, k) THEN s ELSE [s EXCEPT !.map = With(@, k, Absent)]

simplify_delete(s, k) ==
    IF is_prefix_matched(s.prefixes, k) THEN [s EXCEPT !.map = Without(@, {k})]
    ELSE [s EXCEPT !.map = With(@, k, Absent)]

\* A mutant of simplify_delete_prefix: the prefixes that are covered stay.
simplify_delete_prefix_keeping(s, p) ==
    [map      |-> Without(s.map, {k \in DOMAIN s.map : in_interval(p, k)}),
     prefixes |-> s.prefixes \cup {p}]

simplify_delete_prefix(s, p) ==
    [map      |-> Without(s.map, {k \in DOMAIN s.map : in_interval(p, k)}),
     prefixes |-> IF is_prefix_matched(s.prefixes, p) THEN s.prefixes
                  ELSE {q \in s.prefixes : ~in_interval(p, q)} \cup {p}]

simplify(ops) ==
    LET after[i \in 0 .. Len(ops)] ==
            IF i = 0 THEN [map |-> <<>>, prefixes |-> {}]
            ELSE CASE ops[i].op = "put"    -> [after[i - 1] EXCEPT !.map = With(@, ops[i].key, ops[i].value)]
                   [] ops[i].op = "delete" -> simplify_delete(after[i - 1], ops[i].key)
                   [] OTHER                -> simplify_delete_prefix(after[i - 1], ops[i].key)
    IN  after[Len(ops)]

insertions(s) == {k \in DOMAIN s.map : s.map[k] # Absent}
deletions(s)  == {k \in DOMAIN s.map : s.map[k] = Absent}

\* The keys that are found for a prefix and not inserted.
expand_delete_prefix(s, p) == {k \in Keys : database[k] # Absent /\ IsPrefix(p, k)} \ insertions(s)

\* The prefixes that have to be expanded: all for an unordered batch without
\* prefixes, else those that collide with an insertion.
expand_delete_prefixes(s)            == s.prefixes
expand_colliding_prefix_deletions(s) == {p \in s.prefixes : \E k \in insertions(s) : in_interval(p, k)}

-----------------------------------------------------------------------------
Init ==
    /\ operations = <<>>
    /\ database \in Content
    /\ expected = database

put_key_value_bytes(k, v) ==
    /\ Len(operations) < MaxOperations
    /\ operations' = Append(operations, Put(k, v))
    /\ expected' = [expected EXCEPT ![k] = v]
    /\ UNCHANGED database

delete_key(k) ==
    /\ Len(operations) < MaxOperations
    /\ operations' = Append(operations, Delete(k))
    /\ expected' = [expected EXCEPT ![k] = Absent]
    /\ UNCHANGED database

delete_key_prefix(p) ==
    /\ Len(operations) < MaxOperations
    /\ operations' = Append(operations, DeletePrefix(p))
    /\ expected' = [k \in Keys |-> IF IsPrefix(p, k) THEN Absent ELSE expected[k]]
    /\ UNCHANGED database

\* The batch is written, in one of the two forms.
write_batch ==
    /\ operations # <<>>
    /\ LET s == simplify(operations)
       IN  \E expanded \in {expand_delete_prefixes(s), expand_colliding_prefix_deletions(s)} :
              LET gone(k) == \/ k \in deletions(s)
                             \/ \E p \in expanded : k \in expand_delete_prefix(s, p)
                             \/ \E p \in s.prefixes \ expanded : IsPrefix(p, k)
              IN  database' = [k \in Keys |-> IF k \in insertions(s) THEN s.map[k]
                                              ELSE IF gone(k) THEN Absent ELSE database[k]]
    /\ operations' = <<>>
    /\ UNCHANGED expected

Next ==
    \/ \E k \in Keys : delete_key(k) \/ \E v \in Values : put_key_value_bytes(k, v)
    \/ \E p \in KeyPrefixes : delete_key_prefix(p)
    \/ write_batch

Spec == Init /\ [][Next]_vars

-----------------------------------------------------------------------------
\* Writing a simplified and expanded batch has the effect of its operations,
\* one after the other.
BatchesAreEquivalent == operations = <<>> => database = expected

\* "Deletions and insertions that operate on disjoint keys, thus can be executed
\* in any order": no key is deleted twice, or deleted (by itself, by its prefix or
\* by the expansion of one) and inserted, in either form.  So a journal may
\* execute the blocks in reverse order, and databases that refuse transactions
\* with duplicate keys accept the batch.
EachKeyOnce ==
    LET s == simplify(operations)
    IN  /\ \A k \in Keys : \A p, q \in s.prefixes :
              /\ k \in deletions(s) => ~IsPrefix(p, k)
              /\ IsPrefix(p, k) /\ IsPrefix(q, k) => p = q
        /\ \A k \in insertions(s) : \A p \in s.prefixes \ expand_colliding_prefix_deletions(s) :
              ~IsPrefix(p, k)
=============================================================================
